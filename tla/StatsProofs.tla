---------------------------- MODULE StatsProofs ----------------------------
(***************************************************************************)
(* The hand-over of the statistics implements StatsService, for any number *)
(* of metrics of any kind.                                                 *)
(***************************************************************************)
EXTENDS Stats, TLAPS

(* The flag is raised only after the last store of stats_swap().           *)
FlagLast == wpc # "work" => ~aggregate

Inv == TypeOK /\ OneOwner /\ FlagLast

LEMMA MergeType ==
    ASSUME NEW m \in Metric, NEW c \in Int, NEW b \in Int
    PROVE  aggregate_metric(m, c, b) \in Int /\ aggregate_metric(m, c, 0) = c
BY DEF aggregate_metric

LEMMA InvInit == Init => Inv
<1> SUFFICES ASSUME Init PROVE Inv
  OBVIOUS
<1>1. Zero \in Count
  BY DEF Zero, Count
<1>2. 1 \in 1..(NMetric + 1)
  BY StatsAssumption
<1>3. aggregate = FALSE /\ updated = FALSE /\ asked = FALSE
  BY DEF Init
<1> QED BY <1>1, <1>2, <1>3 DEF Init, Inv, TypeOK, OneOwner, FlagLast

LEMMA InvStep == Inv /\ [Next]_vars => Inv'
<1> SUFFICES ASSUME Inv, [Next]_vars PROVE Inv'
  OBVIOUS
<1> USE StatsAssumption
<1>1. ASSUME NEW m \in Metric, NEW d \in Delta, Add(m, d) PROVE Inv'
  <2>1. d \in Int
    OBVIOUS
  <2>2. current' \in Count
    BY <1>1, <2>1 DEF Add, Inv, TypeOK, Count
  <2> QED BY <1>1, <2>2 DEF Add, Inv, TypeOK, OneOwner, FlagLast
<1>2. ASSUME NEW m \in Metric, NEW t \in Time, set_ts(m, t) PROVE Inv'
  <2>1. t \in Int
    OBVIOUS
  <2>2. current' \in Count
    BY <1>2, <2>1 DEF set_ts, Inv, TypeOK, Count
  <2> QED BY <1>2, <2>2 DEF set_ts, Inv, TypeOK, OneOwner, FlagLast
<1>3. CASE swap_arrays
  BY <1>3 DEF swap_arrays, CanSwap, Inv, TypeOK, OneOwner, FlagLast
<1>4. CASE pool_reset
  <2>1. Zero \in Count
    BY DEF Zero, Count
  <2> QED BY <1>4, <2>1 DEF pool_reset, Inv, TypeOK, OneOwner, FlagLast
<1>5. CASE clear_updated
  BY <1>5 DEF clear_updated, Inv, TypeOK, OneOwner, FlagLast
<1>6. CASE hand_over
  BY <1>6 DEF hand_over, Inv, TypeOK, OneOwner, FlagLast
<1>7. ASSUME NEW q \in BOOLEAN, wake(q) PROVE Inv'
  BY <1>7 DEF wake, After, Inv, TypeOK, OneOwner, FlagLast
<1>8. CASE copy_metric
  <2>1. at \in Metric /\ sum[at] \in Int /\ shadow[at] \in Int
    BY <1>8 DEF copy_metric, Inv, TypeOK, Count, Metric
  <2>2. sum' \in Count
    BY <1>8, <2>1, MergeType DEF copy_metric, Inv, TypeOK, Count
  <2> QED BY <1>8, <2>2 DEF copy_metric, Inv, TypeOK, OneOwner, FlagLast
<1>9. CASE aggregated
  BY <1>9 DEF aggregated, After, Inv, TypeOK, OneOwner, FlagLast
<1>10. ASSUME NEW sent \in BOOLEAN, send_rsp(sent) PROVE Inv'
  BY <1>10 DEF send_rsp, Inv, TypeOK, OneOwner, FlagLast
<1>11. CASE wait_fails
  BY <1>11 DEF wait_fails, Inv, TypeOK, OneOwner, FlagLast
<1>12. CASE UNCHANGED vars
  BY <1>12 DEF vars, Inv, TypeOK, OneOwner, FlagLast
<1> QED BY <1>1, <1>2, <1>3, <1>4, <1>5, <1>6, <1>7, <1>8, <1>9, <1>10, <1>11, <1>12
  DEF Next, Work, swap, Aggregator

(* The two threads never touch shadow at once.                             *)
THEOREM SharedByTurns == Spec => []OneOwner
<1>1. Inv => OneOwner
  BY DEF Inv
<1> QED BY InvInit, InvStep, <1>1, PTL DEF Spec

(* The worker and the aggregator stay at the steps of their loops, and the *)
(* arrays of stats_swap() and stats_aggregate() hold integers.             *)
THEOREM StatsTypeCorrect == Spec => []TypeOK
<1>1. Inv => TypeOK
  BY DEF Inv
<1> QED BY InvInit, InvStep, <1>1, PTL DEF Spec

(* From stats_pool_reset() to the next count current holds nothing.        *)
Emptied == NothingForgotten /\ (wpc \in {"reset", "cleared"} => current = Zero)

LEMMA EmptiedStep == Inv /\ Emptied /\ [Next]_vars => Emptied'
<1> SUFFICES ASSUME Inv, Emptied, [Next]_vars PROVE Emptied'
  OBVIOUS
<1>1. ASSUME NEW m \in Metric, NEW d \in Delta, Add(m, d) PROVE Emptied'
  BY <1>1 DEF Add, Emptied, NothingForgotten
<1>2. ASSUME NEW m \in Metric, NEW t \in Time, set_ts(m, t) PROVE Emptied'
  BY <1>2 DEF set_ts, Emptied, NothingForgotten
<1>3. CASE swap
  BY <1>3 DEF swap, swap_arrays, pool_reset, clear_updated, hand_over, CanSwap,
              Emptied, NothingForgotten
<1>4. CASE Aggregator \/ wait_fails \/ UNCHANGED vars
  <2>1. UNCHANGED <<current, updated, wpc>>
    BY <1>4 DEF Aggregator, wake, copy_metric, aggregated, send_rsp, wait_fails, vars
  <2> QED BY <2>1 DEF Emptied, NothingForgotten, Zero
<1> QED BY <1>1, <1>2, <1>3, <1>4 DEF Next, Work

(* No count is forgotten: current is empty unless it is marked as updated, *)
(* which makes a later stats_swap() hand it over.                          *)
THEOREM CountsAreKept == Spec => []NothingForgotten
<1>1. Init => Emptied
  BY DEF Init, Emptied, NothingForgotten
<1>2. Emptied => NothingForgotten
  BY DEF Emptied
<1> QED BY InvInit, InvStep, <1>1, EmptiedStep, <1>2, PTL DEF Spec

-----------------------------------------------------------------------------
(* The state of StatsService.                                              *)
Ready == [m \in Metric |-> IF apc = "copy" THEN Taken[m] ELSE sum[m]]
View == <<Total, Taken, Ready, reported>>

LEMMA ServiceInit == Init => Service!Init
<1> SUFFICES ASSUME Init PROVE Service!Init
  OBVIOUS
<1>1. Service!Zero = Zero
  BY DEF Service!Zero, Service!Metric, Zero, Metric
<1>2. \A m \in Metric : sum[m] = 0 /\ current[m] = 0 /\ shadow[m] = 0
  BY DEF Init, Zero
<1>3. Taken = Zero
  BY <1>2, MergeType DEF Taken, Zero
<1>4. Total = Zero
  BY <1>2, <1>3, MergeType DEF Init, Total, Zero
<1>5. [m \in Metric |-> IF apc = "copy" THEN Taken[m] ELSE sum[m]] = Zero
  BY <1>2 DEF Init, Zero
<1> QED BY <1>1, <1>3, <1>4, <1>5 DEF Init, Service!Init

LEMMA ServiceStep == Inv /\ [Next]_vars => [Service!Next]_(Service!vars)
<1> SUFFICES ASSUME Inv, [Next]_vars PROVE Service!Next \/ UNCHANGED View
  BY DEF Service!vars, View, Ready
<1> USE StatsAssumption
<1>0. Service!Metric = Metric
  BY DEF Service!Metric, Metric
<1>1. ASSUME NEW m \in Metric, NEW d \in Delta, Add(m, d) PROVE Service!Add(m, d)
  <2>1. d \in Int /\ current[m] \in Int
    BY DEF Inv, TypeOK, Count
  <2>2. Taken' = Taken /\ Ready' = Ready
    BY <1>1 DEF Add, Taken, Ready, Pending
  <2>3. \A k \in Metric : Taken[k] \in Int
    BY MergeType DEF Taken, Inv, TypeOK, Count
  <2>4. \A k \in Metric : Total[k] = aggregate_metric(k, Taken[k], current[k])
                       /\ Total'[k] = aggregate_metric(k, Taken[k], current'[k])
    BY <1>1, <2>2 DEF Add, Total
  <2>5. Total'[m] = Total[m] + d
    BY <1>1, <2>1, <2>3, <2>4 DEF Add, aggregate_metric, Inv, TypeOK, Count
  <2>6. \A k \in Metric : k # m => Total'[k] = Total[k]
    BY <1>1, <2>4 DEF Add, Inv, TypeOK, Count
  <2>7. Total' = [Total EXCEPT ![m] = @ + d]
    BY <2>5, <2>6 DEF Total
  <2> QED BY <1>1, <2>2, <2>7 DEF Add, Service!Add, Ready
<1>2. ASSUME NEW m \in Metric, NEW t \in Time, set_ts(m, t) PROVE Service!SetTs(m, t)
  <2>1. t \in Int /\ t # 0
    OBVIOUS
  <2>2. Taken' = Taken /\ Ready' = Ready
    BY <1>2 DEF set_ts, Taken, Ready, Pending
  <2>4. Total' = [Total EXCEPT ![m] = t]
    BY <1>2, <2>1, <2>2 DEF set_ts, Total, aggregate_metric, Inv, TypeOK, Count
  <2> QED BY <1>2, <2>2, <2>4 DEF set_ts, Service!SetTs, Ready
<1>3. CASE swap_arrays
  <2>1. Taken' = Total
    BY <1>3 DEF swap_arrays, CanSwap, Taken, Total, Pending, Inv, TypeOK, OneOwner
  <2>2. Total' = Taken'
    BY <1>3 DEF swap_arrays, Total, Taken
  <2>3. Ready' = Ready
    BY <1>3 DEF swap_arrays, CanSwap, Ready, Inv, OneOwner
  <2> QED BY <1>3, <2>1, <2>2, <2>3 DEF swap_arrays, Service!Next, Service!Record, Ready
<1>4. CASE pool_reset
  <2>1. Taken' = Taken
    BY <1>4 DEF pool_reset, Taken, Pending
  <2>2. Ready' = Ready
    BY <1>4, <2>1 DEF pool_reset, Ready
  <2>3. \A k \in Metric : Taken[k] \in Int
    BY MergeType DEF Taken, Inv, TypeOK, Count
  <2>4. Total' = Total
    BY <1>4, <2>1, <2>3, MergeType DEF pool_reset, Total, Zero
  <2> QED BY <1>4, <2>1, <2>2, <2>4 DEF pool_reset, View
<1>5. CASE clear_updated
  <2>1. Taken' = Taken
    BY <1>5 DEF clear_updated, Taken, Pending
  <2> QED BY <1>5, <2>1 DEF clear_updated, View, Ready, Total
<1>6. CASE hand_over
  <2>1. Taken' = Taken
    BY <1>6 DEF hand_over, Taken, Pending, Inv, OneOwner
  <2> QED BY <1>6, <2>1 DEF hand_over, View, Ready, Total
<1>7. ASSUME NEW q \in BOOLEAN, wake(q) PROVE Service!Next \/ UNCHANGED View
  <2>1. Taken' = Taken
    BY <1>7 DEF wake, After, Taken, Pending, Metric
  <2>2. Total' = Total
    BY <1>7, <2>1 DEF wake, Total
  <2>3. CASE aggregate
    <3>1. Ready' = Taken
      BY <1>7, <2>1, <2>3 DEF wake, Ready, Taken
    <3> QED BY <1>7, <2>1, <2>2, <3>1 DEF wake, Service!Next, Service!Publish, Ready
  <2>4. CASE ~aggregate
    <3>1. Ready' = Ready
      BY <1>7, <2>4 DEF wake, After, Ready
    <3> QED BY <1>7, <2>1, <2>2, <3>1 DEF wake, View
  <2> QED BY <2>3, <2>4
<1>8. CASE copy_metric
  <2>1. at \in Metric
    BY <1>8 DEF copy_metric, Inv, TypeOK, Metric
  <2>2. wpc = "work" /\ aggregate
    BY <1>8 DEF copy_metric, Inv, OneOwner
  <2>3. \A k \in Metric : Pending(k) <=> k >= at
    BY <1>8, <2>2 DEF copy_metric, Pending
  <2>4. \A k \in Metric : Pending(k)' <=> k >= at + 1
    BY <1>8, <2>2 DEF copy_metric, Pending
  <2>5. at \in Int /\ \A k \in Metric : k \in Int /\ (k >= at + 1 <=> k >= at /\ k # at)
    BY DEF Inv, TypeOK, Metric
  <2>6. Taken[at] = sum'[at] /\ Taken'[at] = sum'[at]
    BY <1>8, <2>1, <2>3, <2>4, <2>5 DEF copy_metric, Taken, Inv, TypeOK, Count
  <2>7. \A k \in Metric : k # at => Taken'[k] = Taken[k]
    BY <1>8, <2>3, <2>4, <2>5 DEF copy_metric, Taken, Inv, TypeOK, Count
  <2>8. Taken' = Taken
    BY <2>6, <2>7 DEF Taken
  <2> QED BY <1>8, <2>8 DEF copy_metric, View, Ready, Total
<1>9. CASE aggregated
  <2>1. \A k \in Metric : ~Pending(k) /\ ~Pending(k)'
    BY <1>9 DEF aggregated, Pending, Inv, TypeOK, OneOwner, Metric
  <2>2. Taken = [k \in Metric |-> sum[k]] /\ Taken' = [k \in Metric |-> sum[k]]
    BY <1>9, <2>1 DEF aggregated, Taken
  <2>3. Ready' = Ready
    BY <1>9, <2>2 DEF aggregated, After, Ready
  <2> QED BY <1>9, <2>2, <2>3 DEF aggregated, View, Total
<1>10. ASSUME NEW sent \in BOOLEAN, send_rsp(sent) PROVE Service!Next \/ UNCHANGED View
  <2>1. Taken' = Taken /\ Total' = Total /\ Ready' = Ready
    BY <1>10 DEF send_rsp, Taken, Total, Ready, Pending
  <2>2. Ready = sum
    BY <1>10 DEF send_rsp, Ready, Inv, TypeOK, Count
  <2>3. reported' = Ready \/ reported' = reported
    BY <1>10, <2>2 DEF send_rsp
  <2> QED BY <2>1, <2>3 DEF Service!Next, Service!Report, View, Ready
<1>11. CASE wait_fails
  BY <1>11 DEF wait_fails, View, Taken, Total, Ready, Pending
<1>12. CASE UNCHANGED vars
  BY <1>12 DEF vars, View, Taken, Total, Ready, Pending
<1>13. CASE \E m \in Metric : \/ \E d \in Delta : Add(m, d)
                              \/ \E t \in Time : set_ts(m, t)
  BY <1>13, <1>0, <1>1, <1>2 DEF Service!Next
<1> QED BY <1>13, <1>3, <1>4, <1>5, <1>6, <1>7, <1>8, <1>9, <1>10, <1>11, <1>12
  DEF Next, Work, swap, Aggregator

(* stats_swap() and stats_aggregate() lose no count and add none twice,    *)
(* and every report shows all metrics as of one moment: the hand-over      *)
(* implements StatsService.                                                *)
THEOREM ReportsAreSnapshots == Spec => ServiceSpec
<1> QED BY InvInit, InvStep, ServiceInit, ServiceStep, PTL
  DEF Spec, ServiceSpec, Service!Spec
=============================================================================
