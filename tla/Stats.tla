------------------------------- MODULE Stats -------------------------------
(***************************************************************************)
(* The statistics of a worker: its event loop counts into current (a) and  *)
(* hands the counts over, through shadow (b), to the aggregator thread,    *)
(* which adds them to sum (c) and reports the sum to whoever connects to   *)
(* the statistics port.  The threads share two flags and no lock.          *)
(*                                                                         *)
(* A step is an access to shared memory: each store of stats_swap() and    *)
(* each metric of stats_aggregate() is a step of its own.  The two flags   *)
(* are volatile and the model keeps the program order of the stores around *)
(* them, which is what the x86 builds do.                                  *)
(***************************************************************************)
EXTENDS Integers

CONSTANTS
    NMetric,    \* number of metrics, over all pools and servers
    Kind,       \* Kind[m]: "counter", "gauge" or "timestamp"
    Delta,      \* amounts a counter or a gauge changes by
    Time,       \* values of the clock
    MaxTotal    \* bound: the metrics stay within -MaxTotal..MaxTotal

Metric == 1..NMetric
Zero == [m \in Metric |-> 0]

ASSUME StatsAssumption ==
    /\ NMetric \in Nat \ {0}
    /\ Kind \in [Metric -> {"counter", "gauge", "timestamp"}]
    /\ Delta \subseteq Int
    /\ Time \subseteq Nat \ {0}
    /\ MaxTotal \in Nat

VARIABLES
    current,    \* stats_pool[] (a), the worker's
    shadow,     \* stats_pool[] (b)
    sum,        \* stats_pool[] (c), the aggregator's
    aggregate,  \* is shadow to be aggregated?
    updated,    \* was current updated?
    wpc,        \* the worker: in an event ("work"), or the store of
                \* stats_swap() it made last ("swapped", "reset", "cleared")
    apc,        \* the aggregator: in epoll_wait ("wait"), in stats_aggregate()
                \* ("copy"), before stats_send_rsp() ("answer"), or "over"
    at,         \* the metric stats_aggregate_metric() is at
    asked,      \* did epoll_wait return a connection?
    reported    \* the latest report sent

vars == <<current, shadow, sum, aggregate, updated, wpc, apc, at, asked, reported>>

(* stats_pool_map() of the three arrays, stats_create().                   *)
Init ==
    /\ current = Zero /\ shadow = Zero /\ sum = Zero
    /\ aggregate = FALSE /\ updated = FALSE
    /\ wpc = "work" /\ apc = "wait" /\ at = 1 /\ asked = FALSE
    /\ reported = Zero

-----------------------------------------------------------------------------
(* What stats_aggregate_metric() makes of a metric of sum and of shadow.   *)
aggregate_metric(m, c, b) ==
    IF Kind[m] = "timestamp" THEN (IF b # 0 THEN b ELSE c) ELSE c + b

(* Is metric m of shadow still to be added to sum?                         *)
Pending(m) == wpc # "work" \/ (aggregate /\ (apc = "copy" => m >= at))

(* The metrics as of the latest swap, and as of now, had they been kept by *)
(* one thread.                                                             *)
Taken == [m \in Metric |-> IF Pending(m) THEN aggregate_metric(m, sum[m], shadow[m])
                           ELSE sum[m]]
Total == [m \in Metric |-> IF wpc = "swapped" THEN Taken[m]
                           ELSE aggregate_metric(m, Taken[m], current[m])]

-----------------------------------------------------------------------------
(* The worker.                                                             *)

Faulty_Add(m, d) ==
    /\ wpc = "work"
    /\ Kind[m] # "timestamp" /\ (d < 0 => Kind[m] = "gauge")
    /\ Total[m] + d \in (-MaxTotal)..MaxTotal
    /\ current' = [current EXCEPT ![m] = @ + d]
    /\ UNCHANGED <<shadow, sum, aggregate, updated, wpc, apc, at, asked, reported>>

(* incr, decr, incr_by and decr_by of a counter or a gauge; only a gauge   *)
(* ever goes down.                                                         *)
Add(m, d) ==
    /\ wpc = "work"
    /\ Kind[m] # "timestamp" /\ (d < 0 => Kind[m] = "gauge")
    /\ Total[m] + d \in (-MaxTotal)..MaxTotal
    /\ updated' = TRUE
    /\ current' = [current EXCEPT ![m] = @ + d]
    /\ UNCHANGED <<shadow, sum, aggregate, wpc, apc, at, asked, reported>>

set_ts(m, t) ==
    /\ wpc = "work"
    /\ Kind[m] = "timestamp"
    /\ updated' = TRUE
    /\ current' = [current EXCEPT ![m] = t]
    /\ UNCHANGED <<shadow, sum, aggregate, wpc, apc, at, asked, reported>>

(* stats_swap() at the end of a round of core_loop(): nothing if the       *)
(* aggregator is busy or nothing is new, else array_swap() ...             *)
CanSwap == wpc = "work" /\ ~aggregate /\ updated
Faulty_swap_arrays ==
    /\ CanSwap
    /\ current' = shadow /\ shadow' = current
    /\ wpc' = "swapped"
    /\ aggregate' = TRUE
    /\ UNCHANGED <<sum, updated, apc, at, asked, reported>>

swap_arrays ==
    /\ CanSwap
    /\ current' = shadow /\ shadow' = current
    /\ wpc' = "swapped"
    /\ UNCHANGED <<sum, aggregate, updated, apc, at, asked, reported>>

Faulty_pool_reset ==
    /\ wpc = "swapped"
    /\ wpc' = "reset"
    /\ UNCHANGED <<current, shadow, sum, aggregate, updated, apc, at, asked, reported>>

(* ... then stats_pool_reset() ...                                         *)
pool_reset ==
    /\ wpc = "swapped"
    /\ current' = Zero
    /\ wpc' = "reset"
    /\ UNCHANGED <<shadow, sum, aggregate, updated, apc, at, asked, reported>>

(* ... then updated = 0 ...                                                *)
clear_updated ==
    /\ wpc = "reset"
    /\ updated' = FALSE
    /\ wpc' = "cleared"
    /\ UNCHANGED <<current, shadow, sum, aggregate, apc, at, asked, reported>>

(* ... and last aggregate = 1.                                             *)
hand_over ==
    /\ wpc = "cleared"
    /\ aggregate' = TRUE
    /\ wpc' = "work"
    /\ UNCHANGED <<current, shadow, sum, updated, apc, at, asked, reported>>

swap == swap_arrays \/ pool_reset \/ clear_updated \/ hand_over

-----------------------------------------------------------------------------
(* The aggregator.                                                         *)

After(q) == IF q THEN "answer" ELSE "wait"

(* epoll_wait returns, after its interval or with a connection (q), and    *)
(* stats_aggregate() looks at the flag.                                    *)
wake(q) ==
    /\ apc = "wait"
    /\ asked' = q
    /\ at' = 1
    /\ apc' = IF aggregate THEN "copy" ELSE After(q)
    /\ UNCHANGED <<current, shadow, sum, aggregate, updated, wpc, reported>>

(* One round of the loops of stats_aggregate().                            *)
copy_metric ==
    /\ apc = "copy" /\ at <= NMetric
    /\ sum' = [sum EXCEPT ![at] = aggregate_metric(at, @, shadow[at])]
    /\ at' = at + 1
    /\ UNCHANGED <<current, shadow, aggregate, updated, wpc, apc, asked, reported>>

(* aggregate = 0.                                                          *)
aggregated ==
    /\ apc = "copy" /\ at > NMetric
    /\ aggregate' = FALSE
    /\ apc' = After(asked)
    /\ UNCHANGED <<current, shadow, sum, updated, wpc, at, asked, reported>>

(* stats_send_rsp(): the report is made from sum, and lost if accept() or  *)
(* nc_sendn() fails.                                                       *)
send_rsp(sent) ==
    /\ apc = "answer"
    /\ apc' = "wait"
    /\ reported' = IF sent THEN sum ELSE reported
    /\ UNCHANGED <<current, shadow, sum, aggregate, updated, wpc, at, asked>>

(* epoll_wait fails and event_loop_stats() returns: the thread is over.    *)
wait_fails ==
    /\ apc = "wait"
    /\ apc' = "over"
    /\ UNCHANGED <<current, shadow, sum, aggregate, updated, wpc, at, asked, reported>>

Aggregator ==
    \/ \E q \in BOOLEAN : wake(q)
    \/ copy_metric
    \/ aggregated
    \/ \E sent \in BOOLEAN : send_rsp(sent)

Work ==
    \/ \E m \in Metric : \/ \E d \in Delta : Add(m, d)
                         \/ \E t \in Time : set_ts(m, t)
    \/ swap
    \/ Aggregator

Next == Work \/ wait_fails

Spec == Init /\ [][Next]_vars

(* The worker comes round to stats_swap() whatever it counts, and the      *)
(* aggregator's epoll_wait has a timeout and, here, does not fail.         *)
FairSpec ==
    /\ Init /\ [][Work]_vars
    /\ WF_vars(swap) /\ WF_vars(Aggregator)

-----------------------------------------------------------------------------
Count == [Metric -> Int]

(* Every variable keeps its type: the two sides stay at steps of their     *)
(* loops, and the arrays hold integers.                                    *)
TypeOK ==
    /\ current \in Count /\ shadow \in Count /\ sum \in Count /\ reported \in Count
    /\ aggregate \in BOOLEAN /\ updated \in BOOLEAN /\ asked \in BOOLEAN
    /\ wpc \in {"work", "swapped", "reset", "cleared"}
    /\ apc \in {"wait", "copy", "answer", "over"}
    /\ at \in 1..(NMetric + 1)

(* The two threads never touch shadow at once: while stats_aggregate()     *)
(* reads it, stats_swap() is not among its stores, and the flag keeps it   *)
(* out.                                                                    *)
OneOwner == apc = "copy" => aggregate /\ wpc = "work"

(* A count the worker made is never forgotten: what current holds is       *)
(* marked as updated, so a later stats_swap() hands it over.               *)
NothingForgotten == wpc = "work" /\ ~updated => current = Zero

(* "keep stats addition idempotent" (stats_swap): the aggregator and the   *)
(* worker together do what StatsService promises, so no count is lost or   *)
(* added twice, and a report shows all metrics at one moment.              *)
Service == INSTANCE StatsService WITH
    total <- Total,
    taken <- Taken,
    ready <- [m \in Metric |-> IF apc = "copy" THEN Taken[m] ELSE sum[m]],
    reported <- reported

(* The arrays of the two threads implement the service (stats_swap,        *)
(* stats_aggregate, stats_make_rsp).                                       *)
ServiceSpec == Service!Spec

(* Every count reaches the sum, however slow the generator (stats_swap)    *)
(* or the aggregator (stats_aggregate) is.                                 *)
CountsArrive ==
    \A m \in {m \in Metric : Kind[m] = "counter"}, n \in 1..MaxTotal :
        (Total[m] >= n) ~> (sum[m] >= n)
=============================================================================
