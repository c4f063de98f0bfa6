---------------------------- MODULE StatsService ----------------------------
(***************************************************************************)
(* What the statistics of a worker promise to whoever reads them: a report *)
(* shows all the metrics as they were at one moment between two rounds of  *)
(* the event loop, and a later report never shows an earlier moment.       *)
(***************************************************************************)
EXTENDS Integers

CONSTANTS
    NMetric,    \* number of metrics
    Kind,       \* Kind[m]: "counter", "gauge" or "timestamp"
    Delta,      \* amounts a counter or a gauge may change by
    Time        \* values a timestamp may be set to

Metric == 1..NMetric

VARIABLES
    total,      \* the metrics, had one thread done all the work
    taken,      \* the metrics at the latest moment that was recorded
    ready,      \* the moment the next report shows
    reported    \* the latest report

vars == <<total, taken, ready, reported>>

Zero == [m \in Metric |-> 0]

Init == total = Zero /\ taken = Zero /\ ready = Zero /\ reported = Zero

Add(m, d) ==
    /\ Kind[m] # "timestamp"
    /\ total' = [total EXCEPT ![m] = @ + d]
    /\ UNCHANGED <<taken, ready, reported>>

SetTs(m, t) ==
    /\ Kind[m] = "timestamp"
    /\ total' = [total EXCEPT ![m] = t]
    /\ UNCHANGED <<taken, ready, reported>>

Record == taken' = total /\ UNCHANGED <<total, ready, reported>>

Publish == ready' = taken /\ UNCHANGED <<total, taken, reported>>

Report == reported' = ready /\ UNCHANGED <<total, taken, ready>>

Next ==
    \/ \E m \in Metric : \/ \E d \in Delta : Add(m, d)
                         \/ \E t \in Time : SetTs(m, t)
    \/ Record \/ Publish \/ Report

Spec == Init /\ [][Next]_vars
=============================================================================
