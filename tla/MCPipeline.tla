----------------------------- MODULE MCPipeline -----------------------------
(* Small instances of Pipeline for model checking.                         *)
EXTENDS Pipeline, TLC

Symmetry == Permutations(Client) \cup Permutations(SConn)

\* A bound: the clients of one run send requests of one kind.
OneKind == \A a, b \in 1..nreq' : kind'[a] = kind'[b]

OneKindSpec == Init /\ [][Next /\ OneKind]_vars
=============================================================================
