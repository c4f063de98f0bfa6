---------------------------- MODULE MCServerPool ----------------------------
(* Small instances of ServerPool for model checking.                       *)
EXTENDS ServerPool

(* Server 0 weighs three times as much as the others.                      *)
UnevenWeight == [s \in Server |-> IF s = 0 THEN 3 ELSE 1]
EvenWeight == [s \in Server |-> 1]
=============================================================================
