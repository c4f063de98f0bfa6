------------------------ MODULE PipelineEventProofs ------------------------
(***************************************************************************)
(* The counter of Pipeline by which a request vector is found done, and    *)
(* the events of the loop: write interest is registered wherever there is  *)
(* something to write, and the timeout tree takes down the right           *)
(* connections and any that is silent.                                     *)
(***************************************************************************)
EXTENDS PipelineReplyProofs, FiniteSetTheorems

\* Zenon is tried where a step names no prover; the steps with arithmetic,
\* sequences or records name the SMT solver.
USE Zenon

(* There are finitely many messages, so that counting them yields a number.*)
LEMMA FiniteMsg == IsFiniteSet(Msg)
<1>1. IsFiniteSet(Req)
  BY FS_Interval, ConstAssumption, SMT DEF Req
<1>2. IsFiniteSet(0..MaxFrag)
  BY FS_Interval, ConstAssumption, SMT
<1> QED BY <1>1, <1>2, FS_Product DEF Msg

(* The counter of a request vector, incremented in rsp_forward() and in    *)
(* server_close(), is a natural number.                                    *)
CountType == nfrag_done \in [Req -> Nat]

LEMMA CountTypeInit == Init => CountType
BY SMT DEF Init, CountType

LEMMA ServerCloseCounts ==
    ASSUME CountType, TypeInv, NEW s \in SConn, NEW tm, server_close(s, tm)
    PROVE  CountType'
<1> PICK failed : failed = Waiting(s) \ {m \in Waiting(s) : Swallowed(m) \/ kind[m[1]] = "noreply"}
  OBVIOUS
<1>1. nfrag_done' = [n \in Req |-> nfrag_done[n] + Cardinality(FragsIn(n, failed))]
  BY DEF server_close, Waiting
<1>2. failed \subseteq Msg
  <2>1. inq[s] \in Seq(Msg) /\ svq[s] \in Seq(Msg)
    BY DEF TypeInv, Types
  <2> QED BY <2>1, RangeType DEF Waiting
<1>3. \A n \in Req : Cardinality(FragsIn(n, failed)) \in Nat
  <2> TAKE n \in Req
  <2>1. FragsIn(n, failed) \subseteq Msg
    BY <1>2 DEF FragsIn
  <2> QED BY <2>1, FiniteMsg, FS_Subset, FS_CardinalityType
<1>4. \A n \in Req : nfrag_done[n] \in Nat
  BY DEF CountType
<1>5. \A n \in Req : nfrag_done[n] + Cardinality(FragsIn(n, failed)) \in Nat
  BY <1>3, <1>4, SMT
<1> QED BY <1>1, <1>5 DEF CountType

LEMMA CountTypeStep == CountType /\ OrderInv /\ [Next]_vars => CountType'
<1> SUFFICES ASSUME CountType, TypeInv, [Next]_vars PROVE CountType'
  BY DEF OrderInv
<1>1. ASSUME nfrag_done' = nfrag_done PROVE CountType'
  BY <1>1 DEF CountType
<1>2. ASSUME NEW c \in Client, Accept(c) PROVE CountType'
  BY <1>1, <1>2 DEF Accept, msgVars
<1>3. ASSUME NEW c \in Client, ClientEof(c) PROVE CountType'
  BY <1>1, <1>3 DEF ClientEof
<1>4. ASSUME NEW c \in Client, ClientError(c) PROVE CountType'
  BY <1>1, <1>4 DEF ClientError
<1>5. ASSUME NEW c \in Client, NEW k \in ReqKind, NEW nf \in 0..MaxFrag,
             ClientRecv(c, k, nf)
      PROVE  CountType'
  BY <1>1, <1>5 DEF ClientRecv
<1>6. ASSUME NEW c \in Client, NEW r \in 0..Len(outq[c]), NEW k \in 0..r,
             NEW p \in BOOLEAN, ClientSend(c, r, k, p)
      PROVE  CountType'
  BY <1>1, <1>6 DEF ClientSend
<1>7. ASSUME NEW s \in SConn, Forward(s) PROVE CountType'
  BY <1>1, <1>7 DEF Forward
<1>8. ASSUME ForwardError PROVE CountType'
  BY <1>1, <1>8 DEF ForwardError
<1>9. ASSUME NEW s \in SConn, ServerSend(s) PROVE CountType'
  BY <1>1, <1>9 DEF ServerSend
<1>10. ASSUME NEW s \in SConn, NEW bad \in BOOLEAN, ServerRecv(s, bad) PROVE CountType'
  <2> PICK m : m = Head(svq[s])
    OBVIOUS
  <2>1. \/ nfrag_done' = nfrag_done
        \/ nfrag_done' = [nfrag_done EXCEPT ![m[1]] = @ + 1]
    BY <1>10 DEF ServerRecv
  <2>2. CASE nfrag_done' = [nfrag_done EXCEPT ![m[1]] = @ + 1]
    <3>1. \A n \in Req : nfrag_done[n] \in Nat /\ nfrag_done[n] + 1 \in Nat
      BY SMT DEF CountType
    <3> QED BY <2>2, <3>1 DEF CountType
  <2> QED BY <1>1, <2>1, <2>2
<1>11. ASSUME NEW s \in SConn, ServerError(s) PROVE CountType'
  BY <1>11, ServerCloseCounts DEF ServerError
<1>12. ASSUME NEW m \in Msg, NEW s \in SConn, CoreTimeout(m, s) PROVE CountType'
  BY <1>1, <1>12, ServerCloseCounts DEF CoreTimeout, msgVars
<1>13. CASE UNCHANGED vars
  BY <1>1, <1>13 DEF vars, msgVars
<1> QED
  BY <1>2, <1>3, <1>4, <1>5, <1>6, <1>7, <1>8, <1>9, <1>10, <1>11, <1>12, <1>13
     DEF Next, Callback

(* In every reachable state of the pipeline every flag, queue, counter and *)
(* timeout entry holds a value of its type.                                *)
THEOREM TypeCorrect == Spec => []TypeOK
<1>1. OrderInv /\ CountType => TypeOK
  BY DEF OrderInv, TypeInv, TypeOK, CountType
<1> QED BY <1>1, OrderInvInit, OrderStep, CountTypeInit, CountTypeStep, PTL DEF Spec

(* In every reachable state the edge triggered loop has an event for all   *)
(* there is to do: a client whose next reply is complete and a server      *)
(* connection with requests to send have write interest registered, and a  *)
(* half-closed client is there only for the replies it waits for           *)
(* (event_add_out in req_forward, rsp_forward and server_close).           *)
THEOREM NoWakeupLost == Spec => []NoLostWakeup
<1>1. CountType => NoneCounted
  <2>1. Cardinality({}) = 0
    BY FS_EmptySet
  <2>2. \A i \in Nat : i + 0 = i
    BY SMT
  <2> QED BY <2>1, <2>2 DEF CountType, NoneCounted
<1> QED BY <1>1, CountTypeInit, CountTypeStep, OrderInvInit, OrderStep, OwnInit, OwnStep,
           WakeInit, WakeStep, PTL DEF Spec

-----------------------------------------------------------------------------
(* A connection with messages on it is not closed.                         *)
OpenInv == \A s \in SConn : Waiting(s) # {} => sstate[s] # "closed"

TimeInv == TimeoutsRight /\ OpenInv

-----------------------------------------------------------------------------
(* Where messages wait after each step.                                    *)
SameElsewhere(s) == \A t \in SConn : t # s => Waiting(t)' = Waiting(t)

LEMMA ForwardWaits ==
    ASSUME OrderInv, OwnInv, NEW s \in SConn, Forward(s)
    PROVE  Waiting(s)' = Waiting(s) \cup {fwd} /\ SameElsewhere(s)
<1>1. /\ inq' = [inq EXCEPT ![s] = Append(inq[s], fwd)] /\ svq' = svq /\ fwd # NullMsg
  BY DEF Forward, enqueue
<1>2. /\ inq \in [SConn -> Seq(Msg)] /\ inq[s] \in Seq(Msg) /\ fwd \in Msg
  BY <1>1 DEF OrderInv, TypeInv, Types
<1>3. Range(Append(inq[s], fwd)) = Range(inq[s]) \cup {fwd}
  BY <1>2, AppendHolds, SMT
<1>4. inq'[s] = Append(inq[s], fwd) /\ \A t \in SConn : t # s => inq'[t] = inq[t]
  BY <1>1, <1>2
<1> QED BY <1>1, <1>3, <1>4 DEF Waiting, SameElsewhere

LEMMA ServerSendWaits ==
    ASSUME OrderInv, OwnInv, NEW s \in SConn, ServerSend(s)
    PROVE  /\ SameElsewhere(s)
           /\ \/ Waiting(s)' = Waiting(s) /\ live' = live /\ tmo' = tmo
              \/ \E m \in Waiting(s) : /\ Waiting(s)' = Waiting(s) \ {m}
                                       /\ live' = live \ {m} /\ tmo' = tmo \ TmoOf({m})
<1>1. /\ inq \in [SConn -> Seq(Msg)] /\ svq \in [SConn -> Seq(Msg)]
      /\ inq[s] \in Seq(Msg) /\ svq[s] \in Seq(Msg)
  BY DEF OrderInv, TypeInv, Types
<1>2. CASE inq[s] = <<>>
  BY <1>2 DEF ServerSend, Waiting, SameElsewhere
<1>3. CASE inq[s] # <<>>
  <2> DEFINE m == Head(inq[s])
             q == Tail(inq[s])
  <2>1. /\ m \in Range(inq[s]) /\ Range(q) = Range(inq[s]) \ {m} /\ m \in Msg
        /\ m \notin Range(svq[s])
    BY <1>1, <1>3, TailHolds, HeadTailProperties DEF OwnInv, ServerQueues
  <2>2. inq' = [inq EXCEPT ![s] = q]
    BY <1>3 DEF ServerSend
  <2>3. \/ /\ live' = live \ {m} /\ svq' = svq /\ tmo' = tmo \ TmoOf({m})
        \/ /\ live' = live /\ svq' = [svq EXCEPT ![s] = Append(svq[s], m)] /\ tmo' = tmo
    BY <1>3 DEF ServerSend, enqueue
  <2>4. Range(Append(svq[s], m)) = Range(svq[s]) \cup {m}
    BY <1>1, <2>1, AppendHolds, SMT
  <2> HIDE DEF m, q
  <2>5. inq'[s] = q /\ \A t \in SConn : t # s => inq'[t] = inq[t] /\ svq'[t] = svq[t]
    BY <1>1, <2>2, <2>3
  <2>6. svq'[s] = svq[s] \/ svq'[s] = Append(svq[s], m)
    BY <1>1, <2>3
  <2>7. SameElsewhere(s)
    BY <2>5 DEF SameElsewhere, Waiting
  <2>8. CASE live' = live \ {m} /\ svq' = svq /\ tmo' = tmo \ TmoOf({m})
    <3>1. m \in Waiting(s) /\ Waiting(s)' = Waiting(s) \ {m}
      BY <2>1, <2>5, <2>8 DEF Waiting
    <3> QED BY <2>7, <2>8, <3>1
  <2>9. CASE live' = live /\ svq' = [svq EXCEPT ![s] = Append(svq[s], m)] /\ tmo' = tmo
    <3>1. svq'[s] = Append(svq[s], m)
      BY <1>1, <2>9
    <3>2. Waiting(s)' = Waiting(s)
      BY <2>1, <2>4, <2>5, <3>1 DEF Waiting
    <3> QED BY <2>7, <2>9, <3>2
  <2> QED BY <2>3, <2>8, <2>9
<1> QED BY <1>2, <1>3

LEMMA ServerRecvWaits ==
    ASSUME OrderInv, OwnInv, NEW s \in SConn, NEW bad, ServerRecv(s, bad)
    PROVE  /\ SameElsewhere(s)
           /\ Head(svq[s]) \in Waiting(s)
           /\ Waiting(s)' = Waiting(s) \ {Head(svq[s])}
<1>1. /\ svq \in [SConn -> Seq(Msg)] /\ svq[s] \in Seq(Msg)
  BY DEF OrderInv, TypeInv, Types
<1> DEFINE m == Head(svq[s])
           v == Tail(svq[s])
<1>2. svq[s] # <<>> /\ svq' = [svq EXCEPT ![s] = v] /\ inq' = inq
  BY DEF ServerRecv
<1>3. m \in Range(svq[s]) /\ Range(v) = Range(svq[s]) \ {m} /\ m \notin Range(inq[s])
  BY <1>1, <1>2, TailHolds DEF OwnInv, ServerQueues
<1> HIDE DEF m, v
<1>4. svq'[s] = v /\ \A t \in SConn : t # s => svq'[t] = svq[t]
  BY <1>1, <1>2
<1>5. SameElsewhere(s) /\ m \in Waiting(s) /\ Waiting(s)' = Waiting(s) \ {m}
  BY <1>2, <1>3, <1>4 DEF SameElsewhere, Waiting
<1> QED BY <1>5 DEF m

LEMMA ServerCloseWaits ==
    ASSUME OrderInv, NEW s \in SConn, NEW tm, server_close(s, tm)
    PROVE  SameElsewhere(s) /\ Waiting(s)' = {}
<1>1. inq \in [SConn -> Seq(Msg)] /\ svq \in [SConn -> Seq(Msg)]
  BY DEF OrderInv, TypeInv, Types
<1>2. inq' = [inq EXCEPT ![s] = <<>>] /\ svq' = [svq EXCEPT ![s] = <<>>]
  BY DEF server_close
<1>3. /\ inq'[s] = <<>> /\ svq'[s] = <<>>
      /\ \A t \in SConn : t # s => inq'[t] = inq[t] /\ svq'[t] = svq[t]
  BY <1>1, <1>2
<1>4. Range(<<>>) = {}
  BY SMT DEF Range
<1> QED BY <1>3, <1>4 DEF SameElsewhere, Waiting

-----------------------------------------------------------------------------
LEMMA TimeInit == Init => TimeInv
<1> SUFFICES ASSUME Init PROVE TimeInv
  OBVIOUS
<1>1. \A s \in SConn : Waiting(s) = {}
  <2>1. Range(<<>>) = {}
    BY SMT DEF Range
  <2> QED BY <2>1 DEF Init, Waiting
<1>2. tmo = {}
  BY DEF Init
<1> QED BY <1>1, <1>2 DEF TimeInv, TimeoutsRight, TimeoutEntries, ClockRuns, OpenInv

(* What waits belongs to a request whose kind will not change.             *)
LEMMA WaitingKnown ==
    ASSUME OrderInv, OwnInv, NEW s \in SConn, NEW m \in Waiting(s)
    PROVE  m \in Msg /\ m \in live /\ m \notin done /\ m[1] \in Req /\ m[1] <= nreq
BY PendingFacts DEF OwnInv, KnownInv

(* A client goes, or takes replies: the entries of what is freed go too.   *)
LEMMA ClientTime ==
    ASSUME OrderInv, OwnInv, TimeInv, inq' = inq, svq' = svq, sstate' = sstate,
           done' = done, kind' = kind,
           live' \subseteq live, live \ live' \subseteq done,
           tmo' = tmo \ TmoOf(live \ live')
    PROVE  TimeInv'
<1>1. \A s \in SConn : Waiting(s)' = Waiting(s)
  BY DEF Waiting
<1>2. TimeoutEntries'
  <2> SUFFICES ASSUME NEW t \in tmo'
               PROVE  /\ t[1] \in live'
                      /\ t[1] \in done' \/ (sstate'[t[2]] # "closed" /\ t[1] \in Waiting(t[2])')
    BY DEF TimeoutEntries
  <2>1. t \in tmo /\ t[1] \notin live \ live'
    BY DEF TmoOf
  <2>2. t[2] \in SConn
    BY <2>1 DEF OrderInv, TypeInv, Types
  <2> QED BY <1>1, <2>1, <2>2 DEF TimeInv, TimeoutsRight, TimeoutEntries
<1>3. ClockRuns'
  <2>1. \A s \in SConn : \A m \in Waiting(s) : m \notin live \ live'
    BY WaitingKnown
  <2> QED BY <1>1, <2>1 DEF TimeInv, TimeoutsRight, ClockRuns, TmoOf
<1>4. OpenInv'
  BY <1>1 DEF TimeInv, OpenInv
<1> QED BY <1>2, <1>3, <1>4 DEF TimeInv, TimeoutsRight

LEMMA ServerCloseTime ==
    ASSUME OrderInv, OwnInv, TimeInv, NEW s \in SConn, NEW tm, server_close(s, tm),
           tm \subseteq tmo, \A t \in tmo \ tm : t[2] = s
    PROVE  TimeInv'
<1> DEFINE pending == Range(inq[s]) \cup Range(svq[s])
           gone == {m \in pending : Swallowed(m) \/ kind[m[1]] = "noreply"}
<1>1. /\ done' = done \cup (pending \ gone) /\ live' = live \ gone /\ kind' = kind
      /\ tmo' = {t \in tm : t[1] \notin gone \cup Range(svq[s])}
      /\ sstate' = [sstate EXCEPT ![s] = "closed"]
  BY DEF server_close
<1>2. pending = Waiting(s) /\ gone \subseteq Waiting(s) /\ Range(svq[s]) \subseteq Waiting(s)
  BY DEF Waiting
<1> HIDE DEF pending, gone
<1>3. SameElsewhere(s) /\ Waiting(s)' = {}
  BY ServerCloseWaits
<1>4. \A t \in SConn : t # s => sstate'[t] = sstate[t]
  BY <1>1 DEF OrderInv, TypeInv, Types
<1>5. tmo \subseteq Msg \X SConn
  BY DEF OrderInv, TypeInv, Types
<1>6. TimeoutEntries'
  <2> SUFFICES ASSUME NEW t \in tmo'
               PROVE  /\ t[1] \in live'
                      /\ t[1] \in done' \/ (sstate'[t[2]] # "closed" /\ t[1] \in Waiting(t[2])')
    BY DEF TimeoutEntries
  <2>1. /\ t \in tmo /\ t[1] \notin gone /\ t[2] \in SConn /\ t[1] \in live
        /\ t[1] \in done \/ (sstate[t[2]] # "closed" /\ t[1] \in Waiting(t[2]))
    BY <1>1, <1>5 DEF TimeInv, TimeoutsRight, TimeoutEntries
  <2>2. CASE t[2] = s
    BY <1>1, <1>2, <2>1, <2>2
  <2>3. CASE t[2] # s
    BY <1>1, <1>3, <1>4, <2>1, <2>3 DEF SameElsewhere
  <2> QED BY <2>2, <2>3
<1>7. ClockRuns'
  <2> SUFFICES ASSUME HasTimeout, NEW t \in SConn, NEW m \in Waiting(t)', kind[m[1]] # "noreply"
               PROVE  <<m, t>> \in tmo'
    BY <1>1 DEF ClockRuns
  <2>1. t # s /\ m \in Waiting(t)
    BY <1>3 DEF SameElsewhere
  <2>2. <<m, t>> \in tmo
    BY <2>1 DEF TimeInv, TimeoutsRight, ClockRuns
  <2>3. <<m, t>> \in tm
    BY <2>1, <2>2, SMTT(30)
  <2>4. m \notin Waiting(s)
    BY <2>1 DEF OwnInv, ServerQueues
  <2> QED BY <1>1, <1>2, <2>3, <2>4
<1>8. OpenInv'
  BY <1>3, <1>4 DEF TimeInv, OpenInv, SameElsewhere
<1> QED BY <1>6, <1>7, <1>8 DEF TimeInv, TimeoutsRight

LEMMA ForwardTime ==
    ASSUME OrderInv, OwnInv, TimeInv, NEW s \in SConn, Forward(s)
    PROVE  TimeInv'
<1>1. /\ fwd # NullMsg /\ live' = live /\ done' = done /\ kind' = kind
      /\ sstate' = IF sstate[s] = "closed"
                   THEN [sstate EXCEPT ![s] = "connecting"] ELSE sstate
      /\ tmo' = tmo \cup msg_tmo_insert(fwd, s)
  BY DEF Forward
<1>2. Waiting(s)' = Waiting(s) \cup {fwd} /\ SameElsewhere(s)
  BY ForwardWaits
<1>3. /\ sstate'[s] # "closed" /\ \A t \in SConn : t # s => sstate'[t] = sstate[t]
  BY <1>1 DEF OrderInv, TypeInv, Types
<1>4. fwd \in live
  BY <1>1, PendingFacts DEF OwnInv, FwdInv
<1>5. \A t \in msg_tmo_insert(fwd, s) : t[1] = fwd /\ t[2] = s
  BY SMT DEF msg_tmo_insert
<1>6. \A t \in SConn : Waiting(t) \subseteq Waiting(t)'
  BY <1>2 DEF SameElsewhere
<1>7. TimeoutEntries'
  <2> SUFFICES ASSUME NEW t \in tmo'
               PROVE  /\ t[1] \in live'
                      /\ t[1] \in done' \/ (sstate'[t[2]] # "closed" /\ t[1] \in Waiting(t[2])')
    BY DEF TimeoutEntries
  <2>1. CASE t \in tmo
    <3>1. t[2] \in SConn
      BY <2>1 DEF OrderInv, TypeInv, Types
    <3> QED BY <1>1, <1>3, <1>6, <2>1, <3>1 DEF TimeInv, TimeoutsRight, TimeoutEntries
  <2>2. CASE t \in msg_tmo_insert(fwd, s)
    BY <1>1, <1>2, <1>3, <1>4, <1>5, <2>2
  <2> QED BY <1>1, <2>1, <2>2
<1>8. ClockRuns'
  <2> SUFFICES ASSUME HasTimeout, NEW t \in SConn, NEW m \in Waiting(t)', kind[m[1]] # "noreply"
               PROVE  <<m, t>> \in tmo'
    BY <1>1 DEF ClockRuns
  <2>1. CASE m \in Waiting(t)
    BY <1>1, <2>1 DEF TimeInv, TimeoutsRight, ClockRuns
  <2>2. CASE m \notin Waiting(t)
    <3>1. t = s /\ m = fwd
      BY <1>2, <2>2 DEF SameElsewhere
    <3> QED BY <1>1, <3>1 DEF msg_tmo_insert
  <2> QED BY <2>1, <2>2
<1>9. OpenInv'
  <2> SUFFICES ASSUME NEW t \in SConn, Waiting(t)' # {} PROVE sstate'[t] # "closed"
    BY DEF OpenInv
  <2> QED BY <1>2, <1>3 DEF TimeInv, OpenInv, SameElsewhere
<1> QED BY <1>7, <1>8, <1>9 DEF TimeInv, TimeoutsRight

LEMMA ForwardErrorTime ==
    ASSUME OrderInv, OwnInv, TimeInv, ForwardError
    PROVE  TimeInv'
<1>1. /\ fwd # NullMsg /\ done \subseteq done' /\ live \ {fwd} \subseteq live' /\ kind' = kind
      /\ sstate' = sstate /\ tmo' = tmo /\ inq' = inq /\ svq' = svq
  BY DEF ForwardError, srvVars
<1>2. \A s \in SConn : Waiting(s)' = Waiting(s)
  BY <1>1 DEF Waiting
<1>3. fwd \in Coming /\ fwd \notin done /\ \A s \in SConn : fwd \notin Waiting(s)
  BY <1>1, PendingFacts DEF OwnInv, FwdInv, ServerQueues
<1>4. TimeoutEntries'
  <2> SUFFICES ASSUME NEW t \in tmo
               PROVE  /\ t[1] \in live'
                      /\ t[1] \in done' \/ (sstate[t[2]] # "closed" /\ t[1] \in Waiting(t[2])')
    BY <1>1 DEF TimeoutEntries
  <2>1. t[2] \in SConn
    BY DEF OrderInv, TypeInv, Types
  <2>2. /\ t[1] \in live /\ (t[1] \in done \/ (sstate[t[2]] # "closed" /\ t[1] \in Waiting(t[2])))
    BY DEF TimeInv, TimeoutsRight, TimeoutEntries
  <2> QED BY <1>1, <1>2, <1>3, <2>1, <2>2
<1>5. ClockRuns' /\ OpenInv'
  BY <1>1, <1>2 DEF TimeInv, TimeoutsRight, ClockRuns, OpenInv
<1> QED BY <1>4, <1>5 DEF TimeInv, TimeoutsRight

(* A message leaves the queues of s together with its timeout entry.       *)
LEMMA LeaveTime ==
    ASSUME OrderInv, OwnInv, TimeInv, NEW s \in SConn, NEW m \in Waiting(s),
           SameElsewhere(s), Waiting(s)' = Waiting(s) \ {m},
           tmo' = tmo \ TmoOf({m}), kind' = kind, done \subseteq done',
           live \ {m} \subseteq live',
           \A t \in SConn : sstate[t] # "closed" => sstate'[t] # "closed"
    PROVE  TimeInv'
<1>1. \A t \in SConn : t # s => m \notin Waiting(t)
  BY DEF OwnInv, ServerQueues
<1>2. \A t \in SConn : Waiting(t)' = Waiting(t) \ {m}
  BY <1>1 DEF SameElsewhere
<1>3. \A t \in tmo' : t \in tmo /\ t[1] # m /\ t[2] \in SConn
  BY DEF TmoOf, OrderInv, TypeInv, Types
<1>4. TimeoutEntries'
  <2> SUFFICES ASSUME NEW t \in tmo'
               PROVE  /\ t[1] \in live'
                      /\ t[1] \in done' \/ (sstate'[t[2]] # "closed" /\ t[1] \in Waiting(t[2])')
    BY DEF TimeoutEntries
  <2> QED BY <1>2, <1>3 DEF TimeInv, TimeoutsRight, TimeoutEntries
<1>5. ClockRuns'
  BY <1>2 DEF TimeInv, TimeoutsRight, ClockRuns, TmoOf
<1>6. OpenInv'
  BY <1>2 DEF TimeInv, OpenInv
<1> QED BY <1>4, <1>5, <1>6 DEF TimeInv, TimeoutsRight

(* Nothing that the timeouts depend on changes, or only grows.             *)
LEMMA SameTime ==
    ASSUME OrderInv, OwnInv, TimeInv, \A s \in SConn : Waiting(s)' = Waiting(s),
           tmo' = tmo, live \subseteq live', done \subseteq done',
           \A s \in SConn : \A m \in Waiting(s) : kind'[m[1]] = kind[m[1]],
           \A s \in SConn : sstate[s] # "closed" => sstate'[s] # "closed"
    PROVE  TimeInv'
<1>1. TimeoutEntries'
  <2> SUFFICES ASSUME NEW t \in tmo
               PROVE  /\ t[1] \in live'
                      /\ t[1] \in done' \/ (sstate'[t[2]] # "closed" /\ t[1] \in Waiting(t[2])')
    BY DEF TimeoutEntries
  <2>1. t[2] \in SConn
    BY DEF OrderInv, TypeInv, Types
  <2> QED BY <2>1 DEF TimeInv, TimeoutsRight, TimeoutEntries
<1>2. ClockRuns' /\ OpenInv'
  BY DEF TimeInv, TimeoutsRight, ClockRuns, OpenInv
<1> QED BY <1>1, <1>2 DEF TimeInv, TimeoutsRight

LEMMA ServerSendTime ==
    ASSUME OrderInv, OwnInv, TimeInv, NEW s \in SConn, ServerSend(s)
    PROVE  TimeInv'
<1>1. /\ kind' = kind /\ done' = done /\ sstate' = [sstate EXCEPT ![s] = "connected"]
  BY DEF ServerSend
<1>2. \A t \in SConn : sstate[t] # "closed" => sstate'[t] # "closed"
  BY <1>1 DEF OrderInv, TypeInv, Types
<1>3. SameElsewhere(s)
  BY ServerSendWaits
<1>4. CASE Waiting(s)' = Waiting(s) /\ live' = live /\ tmo' = tmo
  <2>1. \A t \in SConn : Waiting(t)' = Waiting(t)
    BY <1>3, <1>4 DEF SameElsewhere
  <2> QED BY <1>1, <1>2, <1>4, <2>1, SameTime
<1>5. ASSUME NEW m \in Waiting(s), Waiting(s)' = Waiting(s) \ {m},
             live' = live \ {m}, tmo' = tmo \ TmoOf({m})
      PROVE  TimeInv'
  BY <1>1, <1>2, <1>3, <1>5, LeaveTime
<1> QED BY <1>4, <1>5, ServerSendWaits

LEMMA ServerRecvTime ==
    ASSUME OrderInv, OwnInv, TimeInv, NEW s \in SConn, NEW bad, ServerRecv(s, bad)
    PROVE  TimeInv'
<1> DEFINE m == Head(svq[s])
<1>1. /\ kind' = kind /\ done \subseteq done' /\ sstate' = sstate
      /\ tmo' = tmo \ TmoOf({m}) /\ live \ {m} \subseteq live'
  BY DEF ServerRecv
<1>2. SameElsewhere(s) /\ m \in Waiting(s) /\ Waiting(s)' = Waiting(s) \ {m}
  BY ServerRecvWaits
<1> HIDE DEF m
<1> QED BY <1>1, <1>2, LeaveTime

LEMMA ClientRecvTime ==
    ASSUME OrderInv, OwnInv, TimeInv, NEW c \in Client, NEW k, NEW nf, ClientRecv(c, k, nf)
    PROVE  TimeInv'
<1>1. /\ inq' = inq /\ svq' = svq /\ sstate' = sstate /\ tmo' = tmo
      /\ live \subseteq live' /\ done \subseteq done'
      /\ kind' = [kind EXCEPT ![nreq + 1] = k]
  BY DEF ClientRecv, srvVars
<1>2. \A s \in SConn : Waiting(s)' = Waiting(s)
  BY <1>1 DEF Waiting
<1>3. \A s \in SConn : \A m \in Waiting(s) : m[1] \in Req /\ m[1] # nreq + 1
  <2>1. \A x \in Req : x <= nreq => x # nreq + 1
    BY ConstAssumption, SMTT(30) DEF Req, OrderInv, TypeInv, Types
  <2> QED BY <2>1, WaitingKnown
<1>4. \A s \in SConn : \A m \in Waiting(s) : kind'[m[1]] = kind[m[1]]
  BY <1>1, <1>3 DEF OrderInv, TypeInv, Types
<1> QED BY <1>1, <1>2, <1>4, SameTime

LEMMA TimeStep == OrderInv /\ OwnInv /\ TimeInv /\ [Next]_vars => TimeInv'
<1> SUFFICES ASSUME OrderInv, OwnInv, TimeInv, [Next]_vars PROVE TimeInv'
  OBVIOUS
<1>0. ASSUME inq' = inq, svq' = svq, sstate' = sstate, tmo' = tmo, live' = live,
             done' = done, kind' = kind
      PROVE  TimeInv'
  BY <1>0, SameTime DEF Waiting
<1>1. ASSUME NEW c \in Client, Accept(c) PROVE TimeInv'
  BY <1>0, <1>1 DEF Accept, msgVars, srvVars
<1>2. ASSUME NEW c \in Client, client_close(c, outq[c], live), done' = done,
             kind' = kind, inq' = inq, svq' = svq, sstate' = sstate
      PROVE  TimeInv'
  <2>1. /\ live' \subseteq live /\ live \ live' \subseteq done
        /\ tmo' = tmo \ TmoOf(live \ live')
    BY <1>2 DEF client_close
  <2> QED BY <1>2, <2>1, ClientTime
<1>3. ASSUME NEW c \in Client, ClientEof(c) PROVE TimeInv'
  <2>1. CASE outq[c] = <<>> \/ c \in cerr
    BY <1>2, <1>3, <2>1 DEF ClientEof
  <2>2. CASE ~(outq[c] = <<>> \/ c \in cerr)
    BY <1>0, <1>3, <2>2 DEF ClientEof
  <2> QED BY <2>1, <2>2
<1>4. ASSUME NEW c \in Client, ClientError(c) PROVE TimeInv'
  BY <1>2, <1>4 DEF ClientError
<1>5. ASSUME NEW c \in Client, NEW k \in ReqKind, NEW nf \in 0..MaxFrag,
             ClientRecv(c, k, nf)
      PROVE  TimeInv'
  BY <1>5, ClientRecvTime
<1>6. ASSUME NEW c \in Client, NEW r \in 0..Len(outq[c]), NEW k \in 0..r,
             NEW p \in BOOLEAN, ClientSend(c, r, k, p)
      PROVE  TimeInv'
  <2> DEFINE ready == {outq[c][i] : i \in 1..r}
             left == {m \in live : IF m[2] > 0 THEN m[1] \notin ready
                                   ELSE \A i \in 1..k : m[1] # outq[c][i]}
             rest == SubSeq(outq[c], k + 1, Len(outq[c]))
  <2>1. \A i \in 1..r : req_done(outq[c][i], done, nfrag_done)
    BY <1>6 DEF ClientSend
  <2>2. /\ Shrunk(c, rest, left) /\ ready \subseteq Range(outq[c])
        /\ \A m \in live : m[1] \in ready => m \in done
    BY <2>1, SendShrinks
  <2>3. /\ done' = done /\ kind' = kind /\ inq' = inq /\ svq' = svq /\ sstate' = sstate
        /\ \/ client_close(c, rest, left)
           \/ live' = left /\ tmo' = tmo \ TmoOf(live \ left)
    BY <1>6 DEF ClientSend
  <2> HIDE DEF ready, left, rest
  <2>4. /\ live' \subseteq live /\ live \ live' \subseteq done
        /\ tmo' = tmo \ TmoOf(live \ live')
    BY <2>2, <2>3 DEF client_close, Shrunk
  <2> QED BY <2>3, <2>4, ClientTime
<1>7. ASSUME NEW s \in SConn, Forward(s) PROVE TimeInv'
  BY <1>7, ForwardTime
<1>8. ASSUME ForwardError PROVE TimeInv'
  BY <1>8, ForwardErrorTime
<1>9. ASSUME NEW s \in SConn, ServerSend(s) PROVE TimeInv'
  BY <1>9, ServerSendTime
<1>10. ASSUME NEW s \in SConn, NEW bad \in BOOLEAN, ServerRecv(s, bad) PROVE TimeInv'
  BY <1>10, ServerRecvTime
<1>11. ASSUME NEW s \in SConn, ServerError(s) PROVE TimeInv'
  <2>1. server_close(s, tmo)
    BY <1>11 DEF ServerError
  <2>2. tmo \subseteq tmo /\ \A t \in tmo \ tmo : t[2] = s
    OBVIOUS
  <2> QED BY <2>1, <2>2, ServerCloseTime
<1>12. ASSUME NEW m \in Msg, NEW s \in SConn, CoreTimeout(m, s) PROVE TimeInv'
  <2>1. CASE m \in done \cup error
    <3>1. m \in done
      BY <2>1 DEF OwnInv, KnownInv
    <3>2. /\ tmo' = tmo \ {<<m, s>>} /\ inq' = inq /\ svq' = svq /\ sstate' = sstate
          /\ live' = live /\ done' = done /\ kind' = kind
      BY <1>12, <2>1 DEF CoreTimeout, msgVars
    <3>3. \A t \in SConn : Waiting(t)' = Waiting(t) /\ m \notin Waiting(t)
      BY <3>1, <3>2, WaitingKnown DEF Waiting
    <3>4. TimeoutEntries'
      <4> SUFFICES ASSUME NEW t \in tmo'
                   PROVE  /\ t[1] \in live
                          /\ t[1] \in done \/ (sstate[t[2]] # "closed" /\ t[1] \in Waiting(t[2])')
        BY <3>2 DEF TimeoutEntries
      <4>1. t \in tmo /\ t[2] \in SConn
        BY <3>2 DEF OrderInv, TypeInv, Types
      <4> QED BY <3>3, <4>1 DEF TimeInv, TimeoutsRight, TimeoutEntries
    <3>5. ClockRuns' /\ OpenInv'
      BY <3>2, <3>3 DEF TimeInv, TimeoutsRight, ClockRuns, OpenInv
    <3> QED BY <3>4, <3>5 DEF TimeInv, TimeoutsRight
  <2>2. CASE m \notin done \cup error
    <3>1. server_close(s, tmo \ {<<m, s>>})
      BY <1>12, <2>2 DEF CoreTimeout
    <3>2. /\ tmo \ {<<m, s>>} \subseteq tmo
          /\ \A t \in tmo \ (tmo \ {<<m, s>>}) : t[2] = s
      BY SMT
    <3> QED BY <3>1, <3>2, ServerCloseTime
  <2> QED BY <2>1, <2>2
<1>13. CASE UNCHANGED vars
  BY <1>0, <1>13 DEF vars, msgVars, srvVars
<1> QED
  BY <1>1, <1>3, <1>4, <1>5, <1>6, <1>7, <1>8, <1>9, <1>10, <1>11, <1>12, <1>13
     DEF Next, Callback

(* In every reachable state an entry of the timeout tree belongs to a      *)
(* message that waits on the connection stored with it, or is done and     *)
(* will be dropped, and every message that waits for an answer has its     *)
(* entry: core_timeout() takes down those servers that are silent, and no  *)
(* others.                                                                 *)
THEOREM TimeoutsAreRight == Spec => []TimeoutsRight
<1>1. TimeInv => TimeoutsRight
  BY DEF TimeInv
<1> QED BY <1>1, OrderInvInit, OrderStep, OwnInit, OwnStep, TimeInit, TimeStep, PTL DEF Spec

-----------------------------------------------------------------------------
(***************************************************************************)
(* The count of fragments.  nfrag_done counts the parts of a vector that   *)
(* are done; req_done() compares it with nfrag.                            *)
(***************************************************************************)
DoneParts(n) == {m \in Parts(n) : m \in done}

CountInv ==
    /\ \A n \in Req : n > nreq => nfrag_done[n] = 0
    /\ \A c \in Client : \A n \in Range(outq[c]) :
          kind[n] \in Vector /\ n \notin fdone => nfrag_done[n] = Cardinality(DoneParts(n))

LEMMA CountParts ==
    ASSUME OrderInv, NEW n \in Req
    PROVE  /\ IsFiniteSet(Parts(n)) /\ IsFiniteSet(DoneParts(n))
           /\ kind[n] \in Vector => Cardinality(Parts(n)) = nfrag[n]
<1>1. Parts(n) \subseteq Msg /\ DoneParts(n) \subseteq Msg
  BY PartFacts DEF DoneParts
<1>2. IsFiniteSet(Parts(n)) /\ IsFiniteSet(DoneParts(n))
  BY <1>1, FiniteMsg, FS_Subset
<1>3. ASSUME kind[n] \in Vector PROVE Cardinality(Parts(n)) = nfrag[n]
  <2> DEFINE k == nfrag[n]
             S == {<<n, i>> : i \in 1..k}
             f == [i \in 1..k |-> <<n, i>>]
  <2>1. k \in Nat
    BY ConstAssumption, SMTT(30) DEF OrderInv, TypeInv, Types
  <2>2. f \in [1..k -> S] /\ \A i \in 1..k : f[i] = <<n, i>>
    OBVIOUS
  <2>3. \A i, j \in 1..k : f[i] = f[j] => i = j
    BY <2>2
  <2>4. \A m \in S : \E i \in 1..k : f[i] = m
    BY <2>2
  <2> HIDE DEF k, S, f
  <2>5. f \in Bijection(1..k, S)
    BY <2>2, <2>3, <2>4 DEF Bijection, Injection, Surjection, IsInjective
  <2>6. Cardinality(S) = k
    BY <2>1, <2>5, FS_CountingElements DEF ExistsBijection
  <2> QED BY <1>3, <2>6 DEF S, k, Parts
<1> QED BY <1>2, <1>3

(* With that, a vector whose fragments are done is found done.             *)
LEMMA CountedDone ==
    ASSUME OrderInv, OwnInv, ReplyInv, CountInv
    PROVE  VectorDone
<1> SUFFICES ASSUME NEW c \in open, NEW n \in Range(outq[c]), kind[n] \in Vector,
                    Parts(n) \subseteq done
             PROVE  req_done(n, done, nfrag_done)
  BY DEF VectorDone
<1>1. c \in Client
  BY DEF OrderInv, TypeInv, Types
<1>2. n \in Req /\ Whole(n)
  BY <1>1, QueuedFacts
<1>3. CASE n \in fdone
  BY <1>2, <1>3 DEF req_done, Whole
<1>4. CASE n \notin fdone
  <2>1. Frags(n) = Parts(n)
    BY <1>2, <1>4, FragsAreParts DEF ReplyInv
  <2>2. DoneParts(n) = Parts(n)
    BY DEF DoneParts
  <2>3. nfrag_done[n] = nfrag[n]
    BY <1>1, <1>2, <1>4, <2>2, CountParts DEF CountInv
  <2>4. nfrag[n] \in Nat
    BY <1>2, ConstAssumption, SMTT(30) DEF OrderInv, TypeInv, Types
  <2>5. nfrag_done[n] >= nfrag[n]
    BY <2>3, <2>4, SMTT(30)
  <2> QED BY <1>2, <2>1, <2>5 DEF req_done, Whole
<1> QED BY <1>3, <1>4

(* Nothing is counted, or what is done, X, is counted.                     *)
LEMMA CountSame ==
    ASSUME OrderInv, OwnInv, ReplyInv, CountInv, nreq' = nreq, kind' = kind, nfrag' = nfrag,
           nfrag_done' = nfrag_done, fdone \subseteq fdone',
           \A c \in Client : Range(outq'[c]) \subseteq Range(outq[c]),
           done \subseteq done', \A m \in done' \ done : ~Held(m[1])
    PROVE  CountInv'
<1> SUFFICES ASSUME NEW c \in Client, NEW n \in Range(outq'[c]), kind[n] \in Vector, n \notin fdone
             PROVE  nfrag_done[n] = Cardinality(DoneParts(n)')
  BY DEF CountInv
<1>1. n \in Range(outq[c])
  OBVIOUS
<1>2. n \in Req /\ Held(n)
  BY <1>1, QueuedFacts
<1>3. DoneParts(n)' = {m \in Parts(n) : m \in done'}
  BY DEF DoneParts, Parts
<1>4. {m \in Parts(n) : m \in done'} = DoneParts(n)
  BY <1>2, PartFacts DEF DoneParts
<1> QED BY <1>1, <1>3, <1>4 DEF CountInv

LEMMA CountMore ==
    ASSUME CountType, OrderInv, OwnInv, ReplyInv, CountInv, NEW X, X \subseteq Pending,
           nreq' = nreq, kind' = kind, nfrag' = nfrag, outq' = outq,
           fdone \subseteq fdone', done' = done \cup X,
           \A n \in Req : nfrag_done'[n] = nfrag_done[n] + Cardinality(FragsIn(n, X))
    PROVE  CountInv'
<1>1. \A m \in X : m \in live /\ m \notin done /\ m \in Msg /\ m[1] \in Req /\ m[1] <= nreq
  BY PendingFacts DEF Pending, OwnInv, KnownInv
<1>2. \A n \in Req : FragsIn(n, X) \subseteq Msg /\ nfrag_done[n] \in Nat
  BY <1>1 DEF FragsIn, CountType
<1>3. \A n \in Req : n > nreq => nfrag_done'[n] = 0
  <2> SUFFICES ASSUME NEW n \in Req, n > nreq PROVE nfrag_done'[n] = 0
    OBVIOUS
  <2>1. \A m \in X : m[1] # n
    BY <1>1, SMTT(30) DEF Req, OrderInv, TypeInv, Types
  <2>2. FragsIn(n, X) = {}
    BY <2>1 DEF FragsIn
  <2>3. nfrag_done[n] = 0
    BY DEF CountInv
  <2> QED BY <2>2, <2>3, FS_EmptySet, SMTT(30)
<1>4. ASSUME NEW c \in Client, NEW n \in Range(outq[c]), kind[n] \in Vector, n \notin fdone
      PROVE  nfrag_done'[n] = Cardinality(DoneParts(n)')
  <2>1. n \in Req /\ Whole(n)
    BY QueuedFacts
  <2> DEFINE D == DoneParts(n)
             A == FragsIn(n, X)
  <2>2. DoneParts(n)' = D \cup A
    <3>1. DoneParts(n)' = {m \in Parts(n) : m \in done \cup X}
      BY DEF DoneParts, Parts
    <3>2. A \subseteq Parts(n)
      BY <1>1 DEF FragsIn, ReplyInv, FragInv
    <3>3. \A m \in Parts(n) : m \in X => m \in A
      BY <1>4, <2>1, PartFacts DEF FragsIn
    <3>4. A \subseteq X
      BY DEF FragsIn
    <3> QED BY <3>1, <3>2, <3>3, <3>4 DEF DoneParts
  <2>3. D \cap A = {}
    BY <1>1 DEF DoneParts, FragsIn
  <2>4. IsFiniteSet(D) /\ IsFiniteSet(A)
    BY <1>2, <2>1, CountParts, FiniteMsg, FS_Subset
  <2>5. nfrag_done[n] = Cardinality(D)
    BY <1>4 DEF CountInv
  <2> HIDE DEF D, A
  <2>6. Cardinality(D \cup A) = Cardinality(D) + Cardinality(A) - Cardinality(D \cap A)
    BY <2>4, FS_Union
  <2>7. Cardinality(D) \in Nat /\ Cardinality(A) \in Nat /\ Cardinality(D \cap A) = 0
    BY <2>3, <2>4, FS_CardinalityType, FS_EmptySet
  <2>8. nfrag_done'[n] = nfrag_done[n] + Cardinality(A)
    BY <2>1 DEF A
  <2> QED BY <2>2, <2>5, <2>6, <2>7, <2>8, SMTT(30)
<1> QED BY <1>3, <1>4 DEF CountInv

LEMMA ServerRecvCount ==
    ASSUME CountType, OrderInv, OwnInv, ReplyInv, CountInv, NEW s \in SConn, NEW bad, ServerRecv(s, bad)
    PROVE  CountInv'
<1> PICK m : m = Head(svq[s])
  OBVIOUS
<1>1. /\ nreq' = nreq /\ kind' = kind /\ nfrag' = nfrag /\ outq' = outq
      /\ done' = done \cup {m} /\ svq[s] # <<>> /\ fdone \subseteq fdone'
      /\ IF m \in swallow THEN nfrag_done' = nfrag_done
         ELSE nfrag_done' = IF m[2] > 0 THEN [nfrag_done EXCEPT ![m[1]] = @ + 1] ELSE nfrag_done
  BY DEF ServerRecv, Swallowed, Notify
<1>2. m \in Pending /\ m \in live /\ m[1] \in Req
  <2>1. svq[s] \in Seq(Msg) /\ Distinct(svq[s])
    BY DEF OrderInv, TypeInv, Types, OwnInv, ServerQueues
  <2>2. m \in Waiting(s)
    BY <1>1, <2>1, TailHolds DEF Waiting
  <2> QED BY <2>2, PendingFacts
<1>3. CASE m \in swallow
  <2>1. ~Held(m[1])
    BY <1>2, <1>3, NoReplyNotHeld
  <2> QED BY <1>1, <1>3, <2>1, CountSame
<1>4. CASE m \notin swallow
  <2>1. nfrag_done \in [Req -> Nat]
    BY DEF CountType
  <2>2. \A n \in Req : nfrag_done'[n] = nfrag_done[n] + Cardinality(FragsIn(n, {m}))
    <3> SUFFICES ASSUME NEW n \in Req
                 PROVE  nfrag_done'[n] = nfrag_done[n] + Cardinality(FragsIn(n, {m}))
      OBVIOUS
    <3>1. CASE n = m[1] /\ m[2] > 0
      <4>1. FragsIn(n, {m}) = {m}
        BY <3>1 DEF FragsIn
      <4>2. Cardinality(FragsIn(n, {m})) = 1
        BY <4>1, FS_Singleton
      <4>3. nfrag_done'[n] = nfrag_done[n] + 1
        BY <1>1, <1>4, <2>1, <3>1
      <4> QED BY <4>2, <4>3
    <3>2. CASE ~(n = m[1] /\ m[2] > 0)
      <4>1. FragsIn(n, {m}) = {}
        BY <3>2 DEF FragsIn
      <4>2. Cardinality(FragsIn(n, {m})) = 0
        BY <4>1, FS_EmptySet
      <4>3. nfrag_done'[n] = nfrag_done[n] /\ nfrag_done[n] \in Nat
        BY <1>1, <1>2, <1>4, <2>1, <3>2
      <4> QED BY <4>2, <4>3, SMTT(30)
    <3> QED BY <3>1, <3>2
  <2>3. {m} \subseteq Pending
    BY <1>2
  <2> QED BY <1>1, <2>2, <2>3, CountMore
<1> QED BY <1>3, <1>4

LEMMA ServerCloseCount ==
    ASSUME CountType, OrderInv, OwnInv, ReplyInv, CountInv, NEW s \in SConn, NEW tm, server_close(s, tm)
    PROVE  CountInv'
<1> PICK failed : failed = Waiting(s) \ {m \in Waiting(s) : m \in swallow \/ kind[m[1]] = "noreply"}
  OBVIOUS
<1>1. /\ nreq' = nreq /\ kind' = kind /\ nfrag' = nfrag /\ outq' = outq
      /\ done' = done \cup failed /\ fdone \subseteq fdone'
      /\ nfrag_done' = [n \in Req |-> nfrag_done[n] + Cardinality(FragsIn(n, failed))]
  BY DEF server_close, Swallowed, Waiting, Notify
<1>2. failed \subseteq Pending
  BY PendingFacts
<1>3. \A n \in Req : nfrag_done'[n] = nfrag_done[n] + Cardinality(FragsIn(n, failed))
  BY <1>1
<1> QED BY <1>1, <1>2, <1>3, CountMore

LEMMA ClientRecvCount ==
    ASSUME OrderInv, OwnInv, ReplyInv, CountInv, NEW c \in Client, NEW k \in ReqKind,
           NEW nf \in 0..MaxFrag, ClientRecv(c, k, nf)
    PROVE  CountInv'
<1> PICK new : new = nreq + 1
  OBVIOUS
<1>0. new \in Req /\ nreq \in Nat
  <2>1. nreq \in 0..MaxReq /\ nreq < MaxReq
    BY DEF ClientRecv, OrderInv, TypeInv, Types
  <2> QED BY <2>1, ConstAssumption, SMTT(30) DEF Req
<1>1. /\ nreq' = new /\ kind' = [kind EXCEPT ![new] = k] /\ nfrag' = [nfrag EXCEPT ![new] = nf]
      /\ done' \subseteq done \cup {Top(new)} /\ done \subseteq done'
      /\ outq' = (IF k = "noreply" THEN outq ELSE [outq EXCEPT ![c] = Append(@, new)])
      /\ fdone' = fdone /\ nfrag_done' = nfrag_done
  BY DEF ClientRecv, enqueue
<1>2. /\ outq \in [Client -> Seq(Req)] /\ kind \in [Req -> Kind]
      /\ nfrag \in [Req -> 0..MaxFrag] /\ done \subseteq Msg
  BY DEF OrderInv, TypeInv, Types
<1>3. \A n \in Req : (n <= nreq => n # new) /\ (n > new => n > nreq)
  BY <1>0, SMTT(30) DEF Req
<1>4. \A m \in done : m[1] # new
  BY <1>2, <1>3, MsgFacts DEF OwnInv, KnownInv
<1>5. \A n \in Req : n > nreq' => nfrag_done'[n] = 0
  BY <1>1, <1>3 DEF CountInv
<1>6. nfrag_done[new] = 0
  <2>1. new > nreq
    BY <1>0, SMTT(30)
  <2> QED BY <1>0, <2>1 DEF CountInv
<1>7. ASSUME NEW d \in Client, NEW n \in Range(outq'[d]), kind'[n] \in Vector, n \notin fdone'
      PROVE  nfrag_done'[n] = Cardinality(DoneParts(n)')
  <2>1. n \in Range(outq[d]) \/ n = new
    <3>1. Range(Append(outq[c], new)) = Range(outq[c]) \cup {new}
      BY <1>0, <1>2, AppendHolds, SMTT(30)
    <3> QED BY <1>1, <1>2, <3>1
  <2>2. CASE n \in Range(outq[d])
    <3>1. n \in Req /\ n # new
      BY <1>3, <2>2, QueuedFacts
    <3>2. kind'[n] = kind[n] /\ nfrag'[n] = nfrag[n]
      BY <1>1, <1>2, <3>1
    <3>3. Top(new)[1] = new
      BY TopFacts
    <3>4. Parts(n)' = Parts(n) /\ \A m \in Parts(n) : m # Top(new)
      BY <3>1, <3>2, <3>3, PartFacts DEF Parts
    <3>5. DoneParts(n)' = DoneParts(n)
      BY <1>1, <3>4 DEF DoneParts
    <3> QED BY <1>1, <1>7, <2>2, <3>2, <3>5 DEF CountInv
  <2>3. CASE n = new
    <3>1. Parts(new)' = {<<new, i>> : i \in 1..nfrag'[new]}
      BY <1>7, <2>3 DEF Parts
    <3>2. \A i \in 1..nfrag'[new] : <<new, i>> \notin done'
      <4> SUFFICES ASSUME NEW i \in 1..nfrag'[new] PROVE <<new, i>> \notin done'
        OBVIOUS
      <4>1. <<new, i>>[1] = new /\ <<new, i>> # Top(new)
        BY SMTT(30) DEF Top
      <4> QED BY <1>1, <1>4, <4>1
    <3>3. DoneParts(new)' = {}
      BY <3>1, <3>2 DEF DoneParts
    <3> QED BY <1>1, <1>6, <2>3, <3>3, FS_EmptySet
  <2> QED BY <2>1, <2>2, <2>3
<1> QED BY <1>5, <1>7 DEF CountInv

LEMMA CountInvStep ==
    ASSUME ~PoolMayRefuse
    PROVE  CountType /\ OrderInv /\ OwnInv /\ ReplyInv /\ CountInv /\ [Next]_vars => CountInv'
<1> SUFFICES ASSUME CountType, OrderInv, OwnInv, ReplyInv, CountInv, [Next]_vars
             PROVE  CountInv'
  OBVIOUS
<1>t. outq \in [Client -> Seq(Req)] /\ Range(<<>>) = {}
  BY SMTT(30) DEF OrderInv, TypeInv, Types, Range
<1>0. ASSUME nreq' = nreq, kind' = kind, nfrag' = nfrag, done' = done,
             nfrag_done' = nfrag_done, fdone \subseteq fdone',
             \A c \in Client : Range(outq'[c]) \subseteq Range(outq[c])
      PROVE  CountInv'
  BY <1>0, CountSame
<1>1. ASSUME NEW c \in Client, Accept(c) PROVE CountInv'
  BY <1>0, <1>1 DEF Accept, msgVars
<1>2. ASSUME NEW c \in Client, outq' = [outq EXCEPT ![c] = <<>>]
      PROVE  \A d \in Client : Range(outq'[d]) \subseteq Range(outq[d])
  BY <1>t, <1>2
<1>3. ASSUME NEW c \in Client, ClientEof(c) PROVE CountInv'
  <2>1. outq' = outq \/ outq' = [outq EXCEPT ![c] = <<>>]
    BY <1>3 DEF ClientEof, client_close
  <2>2. \A d \in Client : Range(outq'[d]) \subseteq Range(outq[d])
    BY <1>2, <2>1
  <2> QED BY <1>0, <1>3, <2>2 DEF ClientEof
<1>4. ASSUME NEW c \in Client, ClientError(c) PROVE CountInv'
  <2>1. \A d \in Client : Range(outq'[d]) \subseteq Range(outq[d])
    BY <1>2, <1>4 DEF ClientError, client_close
  <2> QED BY <1>0, <1>4, <2>1 DEF ClientError
<1>5. ASSUME NEW c \in Client, NEW k \in ReqKind, NEW nf \in 0..MaxFrag,
             ClientRecv(c, k, nf)
      PROVE  CountInv'
  BY <1>5, ClientRecvCount
<1>6. ASSUME NEW c \in Client, NEW r \in 0..Len(outq[c]), NEW k \in 0..r,
             NEW p \in BOOLEAN, ClientSend(c, r, k, p)
      PROVE  CountInv'
  <2>1. /\ nreq' = nreq /\ kind' = kind /\ nfrag' = nfrag /\ done' = done
        /\ nfrag_done' = nfrag_done /\ fdone \subseteq fdone'
        /\ \/ outq' = [outq EXCEPT ![c] = <<>>]
           \/ outq' = [outq EXCEPT ![c] = SubSeq(outq[c], k + 1, Len(outq[c]))]
    BY <1>6 DEF ClientSend, client_close
  <2>2. Range(SubSeq(outq[c], k + 1, Len(outq[c]))) \subseteq Range(outq[c])
    <3>1. outq[c] \in Seq(Req) /\ Distinct(outq[c])
      BY <1>t DEF OwnInv, ClientQueues
    <3>2. k \in 0..Len(outq[c])
      BY <3>1, LenProperties, SMTT(30)
    <3> QED BY <3>1, <3>2, RestHolds DEF Rest
  <2>3. \A d \in Client : Range(outq'[d]) \subseteq Range(outq[d])
    BY <1>t, <1>2, <2>1, <2>2
  <2> QED BY <1>0, <2>1, <2>3
<1>7. ASSUME NEW s \in SConn, Forward(s) PROVE CountInv'
  BY <1>0, <1>7 DEF Forward, cliVars
<1>8. ASSUME ForwardError PROVE CountInv'
  BY <1>8 DEF ForwardError
<1>9. ASSUME NEW s \in SConn, ServerSend(s) PROVE CountInv'
  BY <1>0, <1>9 DEF ServerSend, cliVars
<1>10. ASSUME NEW s \in SConn, NEW bad \in BOOLEAN, ServerRecv(s, bad) PROVE CountInv'
  BY <1>10, ServerRecvCount
<1>11. ASSUME NEW s \in SConn, ServerError(s) PROVE CountInv'
  BY <1>11, ServerCloseCount DEF ServerError
<1>12. ASSUME NEW m \in Msg, NEW s \in SConn, CoreTimeout(m, s) PROVE CountInv'
  <2>1. CASE m \in done \cup error
    BY <1>0, <1>12, <2>1 DEF CoreTimeout, msgVars, cliVars
  <2>2. CASE m \notin done \cup error
    BY <1>12, <2>2, ServerCloseCount DEF CoreTimeout
  <2> QED BY <2>1, <2>2
<1>13. CASE UNCHANGED vars
  BY <1>0, <1>13 DEF vars, msgVars, cliVars
<1> QED
  BY <1>1, <1>3, <1>4, <1>5, <1>6, <1>7, <1>8, <1>9, <1>10, <1>11, <1>12, <1>13
     DEF Next, Callback

LEMMA CountInit == Init => CountInv
<1>1. Range(<<>>) = {}
  BY SMTT(30) DEF Range
<1> QED BY <1>1 DEF Init, CountInv

(* Where the pool refuses no fragment, a queued vector whose fragments are *)
(* all done is found done, for any number of them on any connections:      *)
(* nfrag_done has counted each once, as answered in rsp_forward() or as    *)
(* failed in server_close().  With refusals it is not (refused_fragment).  *)
THEOREM VectorsAreFound ==
    ASSUME ~PoolMayRefuse
    PROVE  Spec => []VectorDone
<1>1. OrderInv /\ OwnInv /\ ReplyInv /\ CountInv => VectorDone
  BY CountedDone
<1>2. CountType /\ OrderInv /\ OwnInv /\ ReplyInv /\ CountInv /\ [Next]_vars => CountInv'
  BY CountInvStep
<1> QED
  BY <1>1, <1>2, CountTypeInit, CountTypeStep, OrderInvInit, OrderStep, OwnInit, OwnStep,
     ReplyInit, ReplyStep, CountInit, PTL DEF Spec
=============================================================================
