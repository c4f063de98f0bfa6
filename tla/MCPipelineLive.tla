--------------------------- MODULE MCPipelineLive ---------------------------
(* Pipeline with fairness, for TLC: a pool that has a server for every     *)
(* request, with fragmented requests and local replies, and one that may   *)
(* refuse.  Which of the two it is never changes.                          *)
EXTENDS Pipeline

VARIABLE refuses

liveVars == <<refuses, vars>>

Refusing == INSTANCE Pipeline WITH ReqKind <- {"single", "noreply"},
                                   PoolMayRefuse <- TRUE

Start == \/ refuses = FALSE /\ Init
         \/ refuses = TRUE /\ Refusing!Init

Either(a, b) == UNCHANGED refuses /\ ((~refuses /\ a) \/ (refuses /\ b))

Step == Either(Next, Refusing!Next)

\* The conjuncts of Fairness, each with the action of both.
LiveSpec ==
    /\ Start /\ [][Step]_liveVars
    /\ \A c \in Client : WF_liveVars(Either(Flush(c), Refusing!Flush(c)))
    /\ WF_liveVars(Either(Expire, Refusing!Expire))
    /\ WF_liveVars(Either(Forwarding, Refusing!Forwarding))
=============================================================================
