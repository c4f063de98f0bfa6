---------------------------- MODULE ReplyService ----------------------------
(***************************************************************************)
(* What the proxy promises a client, whatever happens behind it: replies   *)
(* come in the order of the requests, one for each, until the connection   *)
(* is closed.  A connection may be closed at any time, then the rest of    *)
(* the replies is lost.                                                    *)
(***************************************************************************)
EXTENDS Integers, Sequences, Functions

CONSTANTS Client, Req

VARIABLES
    open,     \* connected clients
    asked,    \* asked[c]: requests sent over c's latest connection
    got       \* got[c]: requests answered over c's latest connection

vars == <<open, asked, got>>

Init ==
    /\ open = {}
    /\ asked = [c \in Client |-> <<>>]
    /\ got = [c \in Client |-> <<>>]

Connect(c) ==
    /\ c \notin open
    /\ open' = open \cup {c}
    /\ asked' = [asked EXCEPT ![c] = <<>>]
    /\ got' = [got EXCEPT ![c] = <<>>]

(* A client sends a request that nobody sent before.                       *)
Ask(c, n) ==
    /\ c \in open
    /\ \A d \in Client : n \notin Range(asked[d])
    /\ asked' = [asked EXCEPT ![c] = Append(@, n)]
    /\ UNCHANGED <<open, got>>

(* The client receives some of the replies it waits for, the oldest first; *)
(* the connection may go with them.                                        *)
Deliver(c, j) ==
    /\ c \in open
    /\ j >= Len(got[c])
    /\ got' = [got EXCEPT ![c] = SubSeq(asked[c], 1, j)]
    /\ open' \in {open, open \ {c}}
    /\ UNCHANGED asked

Next ==
    \E c \in Client :
        \/ Connect(c)
        \/ \E n \in Req : Ask(c, n)
        \/ \E j \in 0..Len(asked[c]) : Deliver(c, j)

Spec == Init /\ [][Next]_vars
=============================================================================
