------------------------ MODULE PipelineReplyProofs ------------------------
(***************************************************************************)
(* What the replies of Pipeline are made of, the invariant that carries an *)
(* answer from the wire to the response of its request; and the steps that *)
(* register the write interest of those who have something to write.       *)
(***************************************************************************)
EXTENDS PipelineProofs

\* Zenon is tried where a step names no prover; the steps with arithmetic,
\* sequences or records name the SMT solver.
USE Zenon

Failed(n) == \E m \in Parts(n) : m \in error

(***************************************************************************)
(* A request in a client's queue.  The parts of a vector are kept until it *)
(* is found done and its error, if there is one, is noted in ferror; then  *)
(* its response is the union of theirs.                                    *)
(***************************************************************************)
Whole(n) ==
    /\ Top(n) \in live
    /\ kind[n] \in Vector \cup {"local"} => Top(n) \in done /\ Top(n) \notin error
    /\ n \in ferror => Failed(n)
    /\ kind[n] \in Vector => \/ Parts(n) \subseteq live
                             \/ n \in fdone /\ (Failed(n) => n \in ferror)
    /\ kind[n] = "local" => peer[Top(n)] = {LocalRsp}
    /\ kind[n] \in Vector /\ n \in fdone /\ ~Failed(n) => peer[Top(n)] = Parts(n)

WholeInv == \A c \in Client : \A n \in Range(outq[c]) : Whole(n)

FragInv == /\ \A m \in live : m[2] > 0 => m \in Parts(m[1])
           /\ \A n \in ferror : n <= nreq

(* What has an answer has its own.                                         *)
Answered(m) == m[2] > 0 \/ kind[m[1]] = "single"

AnswerInv == \A m \in live : Answered(m) /\ m \in done /\ m \notin error => peer[m] = {m}

(* Nothing is left of a request whose reply was written.                   *)
GotInv == \A c \in Client : \A n \in Range(got[c]) : n <= nreq /\ \A m \in live : m[1] # n

(* The backends answer in the order of the server connection's out queue.  *)
WireInv == backend = svq

ReplyInv == FragInv /\ WholeInv /\ AnswerInv /\ GotInv /\ WireInv /\ RightReply

(* req_error() of a queued request says whether a part of it failed.       *)
LEMMA ErrorKnown ==
    ASSUME FragInv, NEW n, Whole(n)
    PROVE  req_error(n) <=> Failed(n)
<1>1. CASE kind[n] \notin Vector
  BY <1>1 DEF req_error, Failed, Parts
<1>2. CASE kind[n] \in Vector
  <2>1. Frags(n) \subseteq Parts(n)
    BY DEF Frags, FragInv
  <2>2. Parts(n) \subseteq live => Parts(n) \subseteq Frags(n)
    BY <1>2, SMT DEF Frags, Parts
  <2> QED BY <1>2, <2>1, <2>2 DEF req_error, Failed, Whole
<1> QED BY <1>1, <1>2

(* The fragments of a vector that is not found done yet are its parts.     *)
LEMMA FragsAreParts ==
    ASSUME FragInv, NEW n, Whole(n), kind[n] \in Vector, n \notin fdone
    PROVE  Frags(n) = Parts(n)
BY SMT DEF Frags, FragInv, Whole, Parts

(* The response of a vector is put together from the answers to its parts. *)
LEMMA UnionOfAnswers ==
    ASSUME NEW S, NEW pr, \A f \in S : pr[f] = {f}
    PROVE  UNION {pr[f] : f \in S} = S
BY SMT

LEMMA TopFacts ==
    ASSUME NEW n
    PROVE  Top(n)[1] = n /\ Top(n)[2] = 0
BY DEF Top

LEMMA PartFacts ==
    ASSUME OrderInv, NEW n \in Req, NEW m \in Parts(n)
    PROVE  m \in Msg /\ m[1] = n /\ (kind[n] \in Vector => m[2] > 0)
<1>1. nfrag[n] \in 0..MaxFrag /\ 0 \in 0..MaxFrag
  BY ConstAssumption, SMTT(30) DEF OrderInv, TypeInv, Types
<1>2. CASE kind[n] \in Vector
  <2>1. PICK i \in 1..nfrag[n] : m = <<n, i>>
    BY <1>2 DEF Parts
  <2>2. i \in 0..MaxFrag /\ i > 0
    BY <1>1, ConstAssumption, SMT
  <2> QED BY <2>1, <2>2 DEF Msg
<1>3. CASE kind[n] \notin Vector
  BY <1>1, <1>3, SMT DEF Parts, Msg, Top
<1> QED BY <1>2, <1>3

(* Queued requests, and those that have their reply, are requests.         *)
LEMMA QueuedFacts ==
    ASSUME OrderInv, OwnInv, ReplyInv, NEW c \in Client, NEW n \in Range(outq[c])
    PROVE  /\ n \in Req /\ n <= nreq /\ owner[n] = c /\ kind[n] # "noreply"
           /\ Held(n) /\ Whole(n)
<1>1. outq[c] \in Seq(Req)
  BY DEF OrderInv, TypeInv, Types
<1> QED BY <1>1, RangeType DEF OwnInv, ClientQueues, Held, ReplyInv, WholeInv

LEMMA GotFacts ==
    ASSUME OrderInv, ReplyInv, NEW c \in Client, NEW n \in Range(got[c])
    PROVE  n \in Req /\ n <= nreq /\ \A m \in live : m[1] # n
<1>1. got[c] \in Seq(Req)
  BY DEF OrderInv, TypeInv, Types
<1> QED BY <1>1, RangeType DEF ReplyInv, GotInv

LEMMA ReplyInit == Init => ReplyInv
<1> SUFFICES ASSUME Init PROVE ReplyInv
  OBVIOUS
<1>1. Range(<<>>) = {}
  BY SMT DEF Range
<1>2. \A c \in Client : Range(outq[c]) = {} /\ Range(got[c]) = {}
  BY <1>1 DEF Init
<1>3. FragInv /\ AnswerInv /\ WireInv
  BY DEF Init, FragInv, AnswerInv, WireInv
<1> QED BY <1>2, <1>3 DEF ReplyInv, WholeInv, GotInv, RightReply

-----------------------------------------------------------------------------
(* The vectors V are found done and coalesced.                             *)
Found(V, dn, pr) ==
    /\ fdone' = fdone \cup V
    /\ \A n \in V : /\ \E c \in Client : n \in Range(outq[c])
                    /\ kind[n] \in Vector /\ n \notin fdone /\ Frags(n) \subseteq dn
    /\ \A m \in Msg : peer'[m] = IF m[2] = 0 /\ m[1] \in V
                                 THEN UNION {pr[f] : f \in Frags(m[1])} ELSE pr[m]

(***************************************************************************)
(* The server side.  Pending messages get done, or fail, or are freed if   *)
(* no client holds their request; the vectors V are found done.  pr are    *)
(* the responses before V is coalesced.                                    *)
(***************************************************************************)
Progress(V, pr) ==
    /\ nreq' = nreq /\ kind' = kind /\ nfrag' = nfrag /\ ferror' = ferror
    /\ outq' = outq /\ got' = got
    /\ live' \subseteq live /\ \A m \in live \ live' : ~Held(m[1])
    /\ done \subseteq done' /\ done' \ done \subseteq Pending
    /\ error \subseteq error' /\ error' \ error \subseteq Pending
    /\ Found(V, done', pr)
    /\ \A m \in Msg : pr[m] = peer[m] \/ m \in Pending
    /\ \A m \in done' \ done : Answered(m) /\ m \notin error' /\ m \in live' => pr[m] = {m}

(* A pending message is live, so it is no part of what is written.         *)
LEMMA ProgressKeeps ==
    ASSUME OrderInv, OwnInv, ReplyInv, NEW V, NEW pr, Progress(V, pr)
    PROVE  /\ \A m \in Pending : m \in live /\ m \notin done /\ m \in Msg
           /\ \A n : Parts(n)' = Parts(n)
           /\ \A n \in Req : (\A m \in Pending : m[1] # n) => (Failed(n)' <=> Failed(n))
           /\ \A n \in Req : Failed(n) => Failed(n)'
           /\ \A n \in V : n \in Req /\ Whole(n) /\ Frags(n) = Parts(n)
<1>1. \A m \in Pending : m \in live /\ m \notin done /\ m \in Msg
  BY PendingFacts DEF Pending
<1>2. \A n : Parts(n)' = Parts(n)
  BY DEF Progress, Found, Parts
<1>3. \A n \in Req : Failed(n) => Failed(n)'
  BY <1>2 DEF Failed, Progress
<1>4. \A n \in Req : (\A m \in Pending : m[1] # n) => (Failed(n)' => Failed(n))
  <2> SUFFICES ASSUME NEW n \in Req, \A m \in Pending : m[1] # n, Failed(n)' PROVE Failed(n)
    OBVIOUS
  <2>1. PICK m \in Parts(n) : m \in error'
    BY <1>2 DEF Failed
  <2>2. m[1] = n
    BY PartFacts
  <2> QED BY <2>1, <2>2 DEF Failed, Progress
<1>5. \A n \in V : n \in Req /\ Whole(n) /\ Frags(n) = Parts(n)
  <2> SUFFICES ASSUME NEW n \in V PROVE n \in Req /\ Whole(n) /\ Frags(n) = Parts(n)
    OBVIOUS
  <2>1. PICK c \in Client : n \in Range(outq[c])
    BY DEF Progress, Found
  <2>2. n \in Req /\ Whole(n)
    BY <2>1, QueuedFacts
  <2>3. kind[n] \in Vector /\ n \notin fdone
    BY DEF Progress, Found
  <2> QED BY <2>2, <2>3, FragsAreParts DEF ReplyInv
<1> QED BY <1>1, <1>2, <1>3, <1>4, <1>5

(* The answers to the parts that did not fail make the response.           *)
LEMMA ProgressAnswers ==
    ASSUME OrderInv, OwnInv, ReplyInv, NEW V, NEW pr, Progress(V, pr)
    PROVE  /\ AnswerInv'
           /\ \A n \in V : ~Failed(n)' => peer'[Top(n)] = Parts(n)
<1>1. \A m \in Pending : m \in live /\ m \notin done /\ m \in Msg
  BY ProgressKeeps
<1>2. \A m \in live' : Answered(m) /\ m \in done' /\ m \notin error' => pr[m] = {m}
  <2> SUFFICES ASSUME NEW m \in live', Answered(m), m \in done', m \notin error'
               PROVE  pr[m] = {m}
    OBVIOUS
  <2>1. m \in live /\ m \in Msg
    BY DEF Progress, Found, OrderInv, TypeInv, Types
  <2>2. CASE m \in done
    <3>1. pr[m] = peer[m] /\ m \notin error
      BY <1>1, <2>1, <2>2 DEF Progress, Found
    <3> QED BY <2>1, <2>2, <3>1 DEF ReplyInv, AnswerInv
  <2>3. CASE m \notin done
    BY <2>3 DEF Progress, Found
  <2> QED BY <2>2, <2>3
<1>3. AnswerInv'
  <2> SUFFICES ASSUME NEW m \in live', Answered(m)', m \in done', m \notin error'
               PROVE  peer'[m] = {m}
    BY DEF AnswerInv
  <2>1. m \in Msg /\ Answered(m)
    BY DEF Progress, Found, OrderInv, TypeInv, Types, Answered
  <2>2. ~(m[2] = 0 /\ m[1] \in V)
    BY <2>1, SMTT(30) DEF Progress, Found, Answered, Vector
  <2> QED BY <1>2, <2>1, <2>2 DEF Progress, Found
<1>4. ASSUME NEW n \in V, ~Failed(n)' PROVE peer'[Top(n)] = Parts(n)
  <2>1. n \in Req /\ Whole(n) /\ Frags(n) = Parts(n) /\ Parts(n)' = Parts(n)
    BY ProgressKeeps
  <2>h. Held(n)
    BY QueuedFacts DEF Progress, Found
  <2>2. \A f \in Frags(n) : f \in live' /\ f \in done' /\ f \notin error' /\ Answered(f)
    BY <1>4, <2>h, <2>1, SMTT(30) DEF Progress, Found, Frags, Failed, Answered
  <2>3. \A f \in Parts(n) : pr[f] = {f}
    BY <1>2, <2>1, <2>2
  <2>4. UNION {pr[f] : f \in Parts(n)} = Parts(n)
    BY <2>3, UnionOfAnswers, SMTT(30)
  <2>5. Top(n) \in Msg /\ Top(n)[1] = n /\ Top(n)[2] = 0
    BY <2>1, TopFacts, ConstAssumption, SMT DEF Msg, Top
  <2>6. peer'[Top(n)] = UNION {pr[f] : f \in Frags(n)}
    BY <2>5 DEF Progress, Found
  <2> QED BY <2>1, <2>4, <2>6
<1> QED BY <1>3, <1>4

LEMMA ProgressReply ==
    ASSUME OrderInv, OwnInv, ReplyInv, NEW V, NEW pr, Progress(V, pr), WireInv'
    PROVE  ReplyInv'
<1>1. /\ \A m \in Pending : m \in live /\ m \notin done /\ m \in Msg
      /\ \A n : Parts(n)' = Parts(n)
      /\ \A n \in Req : (\A m \in Pending : m[1] # n) => (Failed(n)' <=> Failed(n))
      /\ \A n \in Req : Failed(n) => Failed(n)'
      /\ \A n \in V : n \in Req /\ Whole(n) /\ Frags(n) = Parts(n)
  BY ProgressKeeps
<1>2. AnswerInv' /\ \A n \in V : ~Failed(n)' => peer'[Top(n)] = Parts(n)
  BY ProgressAnswers
<1>3. FragInv'
  <2>1. \A m \in live' : m[2] > 0 => m \in Parts(m[1])
    BY DEF ReplyInv, FragInv, Progress
  <2> QED BY <1>1, <2>1 DEF ReplyInv, FragInv, Progress
<1>4. \A n \in Req \ V : Top(n) \notin Pending => peer'[Top(n)] = peer[Top(n)]
  <2> SUFFICES ASSUME NEW n \in Req \ V, Top(n) \notin Pending PROVE peer'[Top(n)] = peer[Top(n)]
    OBVIOUS
  <2>1. Top(n) \in Msg /\ Top(n)[1] = n
    BY TopFacts, ConstAssumption, SMTT(30) DEF Msg, Top
  <2> QED BY <2>1 DEF Progress, Found
<1>5. WholeInv'
  <2> SUFFICES ASSUME NEW c \in Client, NEW n \in Range(outq[c]) PROVE Whole(n)'
    BY DEF WholeInv, Progress
  <2>1. n \in Req /\ Held(n) /\ Whole(n)
    BY QueuedFacts
  <2>2. Top(n)[1] = n
    BY TopFacts
  <2>3. \A m \in live : m[1] = n => m \in live'
    BY <2>1 DEF Progress, Found
  <2>4. Top(n) \in live'
    BY <2>1, <2>2, <2>3 DEF Whole
  <2>5. kind[n] \in Vector \cup {"local"} => Top(n) \in done' /\ Top(n) \notin error'
    BY <1>1, <2>1 DEF Whole, Progress
  <2>6. n \in ferror' => Failed(n)'
    BY <1>1, <2>1 DEF Whole, Progress
  <2>7. n \in fdone => (Failed(n)' <=> Failed(n))
    <3> SUFFICES ASSUME n \in fdone PROVE \A m \in Pending : m[1] # n
      BY <1>1, <2>1
    <3> QED BY <1>1 DEF OwnInv, FdoneInv
  <2>8. kind[n] \in Vector => \/ Parts(n) \subseteq live'
                              \/ n \in fdone' /\ (Failed(n)' => n \in ferror')
    <3> SUFFICES ASSUME kind[n] \in Vector
                 PROVE \/ Parts(n) \subseteq live'
                       \/ n \in fdone' /\ (Failed(n)' => n \in ferror')
      OBVIOUS
    <3>1. CASE Parts(n) \subseteq live
      BY <2>1, <2>3, <3>1, PartFacts
    <3>2. CASE n \in fdone /\ (Failed(n) => n \in ferror)
      BY <2>7, <3>2 DEF Progress, Found
    <3> QED BY <2>1, <3>1, <3>2 DEF Whole
  <2>9. kind[n] = "local" => peer'[Top(n)] = {LocalRsp}
    <3> SUFFICES ASSUME kind[n] = "local" PROVE peer'[Top(n)] = {LocalRsp}
      OBVIOUS
    <3>1. n \notin V /\ Top(n) \notin Pending
      BY <1>1, <2>1 DEF Progress, Found, Vector, Whole
    <3> QED BY <1>4, <2>1, <3>1 DEF Whole
  <2>10. kind[n] \in Vector /\ n \in fdone' /\ ~Failed(n)' => peer'[Top(n)] = Parts(n)
    <3> SUFFICES ASSUME kind[n] \in Vector, n \in fdone', n \notin V, ~Failed(n)'
                 PROVE  peer'[Top(n)] = Parts(n)
      BY <1>2
    <3>1. n \in fdone /\ Top(n) \notin Pending
      BY <1>1, <2>1 DEF Progress, Found, Whole
    <3> QED BY <1>4, <2>1, <2>7, <3>1 DEF Whole
  <2>11. kind'[n] = kind[n] /\ Parts(n)' = Parts(n)
    BY <1>1 DEF Progress, Found
  <2> QED BY <2>4, <2>5, <2>6, <2>8, <2>9, <2>10, <2>11 DEF Whole, Top
<1>6. GotInv'
  BY DEF ReplyInv, GotInv, Progress
<1>7. RightReply'
  <2> SUFFICES ASSUME NEW c \in Client, NEW n \in Range(got[c])
               PROVE  peer'[Top(n)] = IF Failed(n)' THEN {ErrRsp}
                                      ELSE IF kind'[n] = "local" THEN {LocalRsp} ELSE Parts(n)'
    BY DEF RightReply, Failed, Progress, Top
  <2>1. n \in Req /\ \A m \in live : m[1] # n
    BY GotFacts
  <2>2. n \notin V /\ Top(n) \notin Pending
    BY <1>1, <2>1, TopFacts DEF Whole
  <2>3. Failed(n)' <=> Failed(n)
    BY <1>1, <2>1
  <2>4. peer[Top(n)] = IF Failed(n) THEN {ErrRsp}
                       ELSE IF kind[n] = "local" THEN {LocalRsp} ELSE Parts(n)
    BY DEF ReplyInv, RightReply, Failed
  <2> QED BY <1>1, <1>4, <2>1, <2>2, <2>3, <2>4 DEF Progress, Found
<1> QED BY <1>2, <1>3, <1>5, <1>6, <1>7 DEF ReplyInv

(* What Notify finds done are heads of queues.                             *)
LEMMA NotifyNew ==
    ASSUME OrderInv, OwnInv, NEW C, C \subseteq Client, NEW dn, NEW nd, NEW pr,
           Notify(C, dn, nd, pr)
    PROVE  \E V : Found(V, dn, pr)
<1> PICK V : V = Completed(Heads(C), dn, nd)
  OBVIOUS
<1>1. fdone' = fdone \cup V /\ peer' = Coalesce(V, pr)
  BY DEF Notify
<1>2. \A n \in Heads(C) : \E c \in Client : n \in Range(outq[c])
  BY HeadHeld DEF Heads
<1>3. \A n \in V : /\ \E c \in Client : n \in Range(outq[c])
                   /\ kind[n] \in Vector /\ n \notin fdone /\ Frags(n) \subseteq dn
  BY <1>2 DEF Completed, req_done
<1>4. \A m \in Msg : peer'[m] = IF m[2] = 0 /\ m[1] \in V
                                THEN UNION {pr[f] : f \in Frags(m[1])} ELSE pr[m]
  BY <1>1 DEF Coalesce
<1> QED BY <1>1, <1>3, <1>4 DEF Found

LEMMA ForwardErrorReply ==
    ASSUME OrderInv, OwnInv, ReplyInv, ForwardError
    PROVE  ReplyInv'
<1>1. /\ nreq' = nreq /\ kind' = kind /\ nfrag' = nfrag /\ ferror' = ferror
      /\ outq' = outq /\ got' = got /\ svq' = svq /\ backend' = backend
      /\ done' = done \cup {fwd} /\ error' = error \cup {fwd} /\ fwd # NullMsg
  BY DEF ForwardError, srvVars
<1>2. fwd \in Pending /\ fwd \in live /\ owner[fwd[1]] \in Client
  BY <1>1, PendingFacts DEF OwnInv, FwdInv
<1>3. WireInv'
  BY <1>1 DEF ReplyInv, WireInv
<1>4. CASE kind[fwd[1]] = "noreply"
  <2>1. live' = live \ {fwd} /\ fdone' = fdone /\ peer' = peer
    BY <1>4 DEF ForwardError
  <2>2. ~Held(fwd[1])
    BY <1>2, <1>4, NoReplyNotHeld
  <2>3. Progress({}, peer)
    BY <1>1, <1>2, <2>1, <2>2 DEF Progress, Found
  <2> QED BY <1>3, <2>3, ProgressReply
<1>5. CASE kind[fwd[1]] # "noreply"
  <2>1. Notify({owner[fwd[1]]}, done', nfrag_done, peer) /\ live' = live
    BY <1>5 DEF ForwardError
  <2>2. {owner[fwd[1]]} \subseteq Client
    BY <1>2
  <2> HIDE DEF ForwardError
  <2>3. PICK V : Found(V, done', peer)
    BY <2>1, <2>2, NotifyNew
  <2>5. Progress(V, peer)
    BY <1>1, <1>2, <2>1, <2>3 DEF Progress, Found
  <2> QED BY <1>3, <2>5, ProgressReply
<1> QED BY <1>4, <1>5

LEMMA ServerSendReply ==
    ASSUME OrderInv, OwnInv, ReplyInv, NEW s \in SConn, ServerSend(s)
    PROVE  ReplyInv'
<1>1. /\ nreq' = nreq /\ kind' = kind /\ nfrag' = nfrag /\ ferror' = ferror
      /\ outq' = outq /\ got' = got /\ done' = done /\ error' = error
      /\ fdone' = fdone /\ peer' = peer
  BY DEF ServerSend, cliVars
<1>2. WireInv'
  BY DEF ServerSend, enqueue, ReplyInv, WireInv
<1>3. live' \subseteq live /\ \A m \in live \ live' : ~Held(m[1])
  <2>1. CASE inq[s] = <<>>
    BY <2>1 DEF ServerSend
  <2>2. CASE inq[s] # <<>>
    <3>1. IF kind[Head(inq[s])[1]] = "noreply" THEN live' = live \ {Head(inq[s])} ELSE live' = live
      BY <2>2 DEF ServerSend
    <3> QED BY <3>1, NoReplyNotHeld
  <2> QED BY <2>1, <2>2
<1>4. Progress({}, peer)
  BY <1>1, <1>3 DEF Progress, Found
<1> QED BY <1>2, <1>4, ProgressReply

LEMMA ServerRecvReply ==
    ASSUME OrderInv, OwnInv, ReplyInv, NEW s \in SConn, NEW bad, ServerRecv(s, bad)
    PROVE  ReplyInv'
<1> PICK m : m = Head(svq[s])
  OBVIOUS
<1> PICK nd : nd = IF m[2] > 0 THEN [nfrag_done EXCEPT ![m[1]] = @ + 1] ELSE nfrag_done
  OBVIOUS
<1> PICK pr : pr = [peer EXCEPT ![m] = {Head(backend[s])}]
  OBVIOUS
<1>1. /\ nreq' = nreq /\ kind' = kind /\ nfrag' = nfrag /\ ferror' = ferror
      /\ outq' = outq /\ got' = got /\ done' = done \cup {m} /\ svq[s] # <<>>
      /\ IF m \in swallow
         THEN live' = live \ {m} /\ error' = error /\ fdone' = fdone /\ peer' = peer
         ELSE /\ live' = live /\ error' = (IF bad THEN error \cup {m} ELSE error)
              /\ Notify({owner[m[1]]}, done', nd, pr)
  BY DEF ServerRecv, Swallowed
<1>2. WireInv'
  BY DEF ServerRecv, ReplyInv, WireInv
<1>3. m \in Pending /\ m \in live /\ owner[m[1]] \in Client /\ m \in Msg
  <2>1. svq[s] \in Seq(Msg) /\ Distinct(svq[s])
    BY DEF OrderInv, TypeInv, Types, OwnInv, ServerQueues
  <2>2. m \in Waiting(s)
    BY <1>1, <2>1, TailHolds DEF Waiting
  <2> QED BY <2>2, PendingFacts
<1>4. CASE m \in swallow
  <2>1. ~Held(m[1])
    BY <1>3, <1>4, NoReplyNotHeld
  <2>2. Progress({}, peer)
    BY <1>1, <1>3, <1>4, <2>1 DEF Progress, Found
  <2> QED BY <1>2, <2>2, ProgressReply
<1>5. CASE m \notin swallow
  <2>1. Notify({owner[m[1]]}, done', nd, pr) /\ live' = live
    BY <1>1, <1>5
  <2>2. {owner[m[1]]} \subseteq Client
    BY <1>3
  <2>3. PICK V : Found(V, done', pr)
    BY <2>1, <2>2, NotifyNew
  <2>5. /\ \A x \in Msg : pr[x] = peer[x] \/ x \in Pending
        /\ pr[m] = {m}
    <3>1. peer \in [Msg -> Response] /\ backend = svq
      BY DEF OrderInv, TypeInv, Types, ReplyInv, WireInv
    <3> QED BY <1>3, <3>1
  <2>6. Progress(V, pr)
    BY <1>1, <1>3, <1>5, <2>1, <2>3, <2>5 DEF Progress, Found
  <2> QED BY <1>2, <2>6, ProgressReply
<1> QED BY <1>4, <1>5

LEMMA ServerCloseReply ==
    ASSUME OrderInv, OwnInv, ReplyInv, NEW s \in SConn, NEW tm, server_close(s, tm)
    PROVE  ReplyInv'
<1> PICK gone : gone = {m \in Waiting(s) : m \in swallow \/ kind[m[1]] = "noreply"}
  OBVIOUS
<1> PICK failed : failed = Waiting(s) \ gone
  OBVIOUS
<1> PICK nd : nd = [n \in Req |-> nfrag_done[n] + Cardinality(FragsIn(n, failed))]
  OBVIOUS
<1> PICK C : C = {owner[m[1]] : m \in failed}
  OBVIOUS
<1>1. /\ nreq' = nreq /\ kind' = kind /\ nfrag' = nfrag /\ ferror' = ferror
      /\ outq' = outq /\ got' = got
      /\ live' = live \ gone /\ done' = done \cup failed /\ error' = error \cup failed
      /\ Notify(C, done', nd, peer)
  BY DEF server_close, Swallowed, Waiting
<1>2. WireInv'
  BY DEF server_close, ReplyInv, WireInv
<1>3. \A m \in Waiting(s) : m \in Pending /\ m \in live /\ owner[m[1]] \in Client
  BY PendingFacts
<1>4. \A m \in live \ live' : ~Held(m[1])
  BY <1>1, <1>3, NoReplyNotHeld
<1>5. C \subseteq Client
  BY <1>3
<1>7. PICK V : Found(V, done', peer)
  BY <1>1, <1>5, NotifyNew
<1>8. done' \ done \subseteq Pending /\ error' \ error \subseteq Pending
      /\ \A m \in done' \ done : m \in error'
  BY <1>1, <1>3
<1>9. Progress(V, peer)
  BY <1>1, <1>4, <1>7, <1>8 DEF Progress, Found
<1> QED BY <1>2, <1>9, ProgressReply

-----------------------------------------------------------------------------
(***************************************************************************)
(* The client side.  The replies to the requests R at the head of c's      *)
(* queue are offered to the socket; V are the vectors among them that are  *)
(* found done by that, F those in error.  What is freed and was held by a  *)
(* client that goes on to hold the request are fragments of R.             *)
(***************************************************************************)
Offered(c, R, V, F) ==
    /\ R \subseteq Range(outq[c]) /\ \A n \in R : req_done(n, done, nfrag_done)
    /\ V = {n \in R : kind[n] \in Vector /\ n \notin fdone}
    /\ F = {n \in R : req_error(n)}
    /\ nreq' = nreq /\ kind' = kind /\ nfrag' = nfrag /\ done' = done /\ error' = error
    /\ fdone' = fdone \cup V /\ ferror' = ferror \cup {n \in F : kind[n] \in Vector}
    /\ \A m \in Msg : peer'[m] = IF m[2] = 0 /\ m[1] \in F THEN {ErrRsp}
                                 ELSE IF m[2] = 0 /\ m[1] \in V
                                 THEN UNION {peer[f] : f \in Frags(m[1])} ELSE peer[m]
    /\ live' \subseteq live /\ \A d \in Client : Range(outq'[d]) \subseteq Range(outq[d])
    /\ \A m \in live \ live' :
          (\E d \in Client : m[1] \in Range(outq'[d])) => m[1] \in R /\ m[2] > 0
    /\ \A d \in Client : \A n \in Range(got'[d]) :
          n \in Range(got[d]) \/ (n \in R /\ \A m \in live' : m[1] # n)

(* The reply that is offered is the right one.                             *)
LEMMA OfferedReply ==
    ASSUME OrderInv, OwnInv, ReplyInv, NEW c \in Client, NEW R, NEW V, NEW F,
           Offered(c, R, V, F), NEW n \in R
    PROVE  peer'[Top(n)] = IF Failed(n) THEN {ErrRsp}
                           ELSE IF kind[n] = "local" THEN {LocalRsp} ELSE Parts(n)
<1>1. n \in Req /\ kind[n] # "noreply" /\ Whole(n)
  BY QueuedFacts DEF Offered
<1>2. Top(n) \in Msg /\ Top(n)[1] = n /\ Top(n)[2] = 0
  BY <1>1, TopFacts, ConstAssumption, SMTT(30) DEF Msg, Top
<1>3. n \in F <=> Failed(n)
  BY <1>1, ErrorKnown DEF Offered, ReplyInv
<1>4. req_done(n, done, nfrag_done) /\ kind[n] \in Kind
  BY <1>1 DEF Offered, OrderInv, TypeInv, Types
<1>5. CASE n \in F
  BY <1>2, <1>3, <1>5 DEF Offered
<1>6. CASE n \notin F /\ n \in V
  <2>1. kind[n] \in Vector /\ n \notin fdone
    BY <1>6 DEF Offered
  <2>2. Frags(n) = Parts(n)
    BY <1>1, <2>1, FragsAreParts DEF ReplyInv
  <2>3. \A f \in Parts(n) : f \in live /\ f \in done /\ f \notin error /\ Answered(f)
    BY <1>3, <1>4, <1>6, <2>1, <2>2 DEF req_done, Failed, Frags, Answered
  <2>4. \A f \in Parts(n) : peer[f] = {f}
    BY <2>3 DEF ReplyInv, AnswerInv
  <2>5. UNION {peer[f] : f \in Parts(n)} = Parts(n)
    BY <2>4, UnionOfAnswers, SMTT(30)
  <2>6. peer'[Top(n)] = UNION {peer[f] : f \in Frags(n)}
    BY <1>2, <1>6 DEF Offered
  <2>7. kind[n] # "local"
    BY <2>1 DEF Vector
  <2> QED BY <1>3, <1>6, <2>2, <2>5, <2>6, <2>7
<1>7. CASE n \notin F /\ n \notin V
  <2>1. peer'[Top(n)] = peer[Top(n)]
    BY <1>2, <1>7 DEF Offered
  <2>2. CASE kind[n] \in Vector
    <3>1. n \in fdone
      BY <1>7, <2>2 DEF Offered
    <3>2. kind[n] # "local"
      BY <2>2 DEF Vector
    <3> QED BY <1>1, <1>3, <1>7, <2>1, <2>2, <3>1, <3>2 DEF Whole
  <2>3. CASE kind[n] = "local"
    BY <1>1, <1>3, <1>7, <2>1, <2>3 DEF Whole
  <2>4. CASE kind[n] = "single"
    <3>1. Parts(n) = {Top(n)} /\ kind[n] # "local"
      BY <2>4 DEF Parts, Vector
    <3>2. Top(n) \in live /\ Top(n) \in done /\ Top(n) \notin error /\ Answered(Top(n))
      BY <1>1, <1>2, <1>3, <1>4, <1>7, <2>4, <3>1 DEF Whole, req_done, Failed, Answered
    <3>3. peer[Top(n)] = {Top(n)}
      BY <3>2 DEF ReplyInv, AnswerInv
    <3> QED BY <1>3, <1>7, <2>1, <3>1, <3>3
  <2> QED BY <1>1, <1>4, <2>2, <2>3, <2>4 DEF Kind
<1> QED BY <1>5, <1>6, <1>7

LEMMA OfferedKeeps ==
    ASSUME OrderInv, OwnInv, ReplyInv, NEW c \in Client, NEW R, NEW V, NEW F,
           Offered(c, R, V, F), WireInv'
    PROVE  ReplyInv'
<1>1. \A n : Parts(n)' = Parts(n) /\ (Failed(n)' <=> Failed(n))
  BY DEF Offered, Parts, Failed
<1>2. \A n \in R : /\ n \in Req /\ n <= nreq /\ Whole(n) /\ (n \in F <=> Failed(n))
                   /\ (kind[n] \in Vector => n \in fdone')
                   /\ (kind[n] \in Vector /\ Failed(n) => n \in ferror')
  BY QueuedFacts, ErrorKnown DEF Offered, ReplyInv
<1>3. \A n \in Req \ R : peer'[Top(n)] = peer[Top(n)]
  <2> SUFFICES ASSUME NEW n \in Req \ R PROVE peer'[Top(n)] = peer[Top(n)]
    OBVIOUS
  <2>1. Top(n) \in Msg /\ Top(n)[1] = n
    BY TopFacts, ConstAssumption, SMTT(30) DEF Msg, Top
  <2>2. n \notin F /\ n \notin V
    BY DEF Offered
  <2> QED BY <2>1, <2>2 DEF Offered
<1>4. FragInv'
  <2>1. \A m \in live' : m[2] > 0 => m \in Parts(m[1])
    BY DEF ReplyInv, FragInv, Offered
  <2>2. \A n \in ferror' : n <= nreq
    BY <1>2 DEF ReplyInv, FragInv, Offered
  <2> QED BY <1>1, <2>1, <2>2 DEF FragInv, Offered
<1>5. WholeInv'
  <2> SUFFICES ASSUME NEW d \in Client, NEW n \in Range(outq'[d]) PROVE Whole(n)'
    BY DEF WholeInv
  <2>0. n \in Range(outq[d])
    BY DEF Offered
  <2>1. n \in Req /\ Whole(n)
    BY <2>0, QueuedFacts
  <2>2. Top(n)[1] = n /\ Top(n)[2] = 0
    BY TopFacts
  <2>3. \A m \in live \ live' : m[1] = n => n \in R /\ m[2] > 0
    BY DEF Offered
  <2>4. Top(n) \in live'
    BY <2>1, <2>2, <2>3, SMTT(30) DEF Whole
  <2>5. kind[n] \in Vector \cup {"local"} => Top(n) \in done' /\ Top(n) \notin error'
    BY <2>1 DEF Whole, Offered
  <2>6. n \in ferror' => Failed(n)
    BY <1>2, <2>1 DEF Whole, Offered
  <2>7. kind[n] \in Vector => \/ Parts(n) \subseteq live'
                              \/ n \in fdone' /\ (Failed(n) => n \in ferror')
    <3> SUFFICES ASSUME kind[n] \in Vector, n \notin R
                 PROVE \/ Parts(n) \subseteq live'
                       \/ n \in fdone' /\ (Failed(n) => n \in ferror')
      BY <1>2
    <3>1. CASE Parts(n) \subseteq live
      BY <2>1, <2>3, <3>1, PartFacts
    <3>2. CASE n \in fdone /\ (Failed(n) => n \in ferror)
      BY <3>2 DEF Offered
    <3> QED BY <2>1, <3>1, <3>2 DEF Whole
  <2>8. kind[n] = "local" => peer'[Top(n)] = {LocalRsp}
    <3> SUFFICES ASSUME kind[n] = "local" PROVE peer'[Top(n)] = {LocalRsp}
      OBVIOUS
    <3>1. ~Failed(n)
      BY <2>1 DEF Failed, Parts, Vector, Whole
    <3>2. CASE n \in R
      BY <3>1, <3>2, OfferedReply
    <3>3. CASE n \notin R
      BY <1>3, <2>1, <3>3 DEF Whole
    <3> QED BY <3>2, <3>3
  <2>9. kind[n] \in Vector /\ n \in fdone' /\ ~Failed(n) => peer'[Top(n)] = Parts(n)
    <3> SUFFICES ASSUME kind[n] \in Vector, n \in fdone', ~Failed(n)
                 PROVE  peer'[Top(n)] = Parts(n)
      OBVIOUS
    <3>1. kind[n] # "local"
      BY DEF Vector
    <3>2. CASE n \in R
      BY <3>1, <3>2, OfferedReply
    <3>3. CASE n \notin R
      <4>1. n \in fdone
        BY <3>3 DEF Offered
      <4> QED BY <1>3, <2>1, <3>3, <4>1 DEF Whole
    <3> QED BY <3>2, <3>3
  <2>10. kind'[n] = kind[n]
    BY DEF Offered
  <2> QED BY <1>1, <2>4, <2>5, <2>6, <2>7, <2>8, <2>9, <2>10 DEF Whole, Top
<1>6. AnswerInv'
  <2> SUFFICES ASSUME NEW m \in live', Answered(m), m \in done, m \notin error
               PROVE  peer'[m] = {m}
    BY DEF AnswerInv, Answered, Offered
  <2>1. m \in live /\ m \in Msg
    BY DEF Offered, OrderInv, TypeInv, Types
  <2>2. peer[m] = {m}
    BY <2>1 DEF ReplyInv, AnswerInv
  <2>3. ~(m[2] = 0 /\ m[1] \in F) /\ ~(m[2] = 0 /\ m[1] \in V)
    <3> SUFFICES ASSUME m[2] = 0, m[1] \in F \/ m[1] \in V PROVE FALSE
      OBVIOUS
    <3>1. kind[m[1]] = "single" /\ kind[m[1]] \notin Vector
      BY SMTT(30) DEF Answered, Vector
    <3>2. m = Top(m[1])
      BY <2>1, SMTT(30) DEF Msg, Top
    <3>3. m[1] \in R /\ Failed(m[1])
      BY <1>2, <3>1 DEF Offered
    <3> QED BY <3>1, <3>2, <3>3 DEF Failed, Parts
  <2> QED BY <2>1, <2>2, <2>3 DEF Offered
<1>7. GotInv'
  <2> SUFFICES ASSUME NEW d \in Client, NEW n \in Range(got'[d])
               PROVE  n <= nreq /\ \A m \in live' : m[1] # n
    BY DEF GotInv, Offered
  <2>1. CASE n \in Range(got[d])
    BY <2>1, GotFacts DEF Offered
  <2>2. CASE n \in R /\ \A m \in live' : m[1] # n
    BY <1>2, <2>2
  <2> QED BY <2>1, <2>2 DEF Offered
<1>8. RightReply'
  <2> SUFFICES ASSUME NEW d \in Client, NEW n \in Range(got'[d])
               PROVE  peer'[Top(n)] = IF Failed(n) THEN {ErrRsp}
                                      ELSE IF kind[n] = "local" THEN {LocalRsp} ELSE Parts(n)
    BY <1>1 DEF RightReply, Failed, Offered, Top
  <2>1. CASE n \in R
    BY <2>1, OfferedReply
  <2>2. CASE n \notin R
    <3>1. n \in Range(got[d])
      BY <2>2 DEF Offered
    <3>2. n \in Req
      BY <3>1, GotFacts
    <3>3. peer'[Top(n)] = peer[Top(n)]
      BY <1>3, <2>2, <3>2
    <3> QED BY <3>1, <3>3 DEF ReplyInv, RightReply, Failed
  <2> QED BY <2>1, <2>2
<1> QED BY <1>4, <1>5, <1>6, <1>7, <1>8 DEF ReplyInv

LEMMA ClientCloseReply ==
    ASSUME OrderInv, OwnInv, ReplyInv, NEW c \in Client, client_close(c, outq[c], live),
           nreq' = nreq, kind' = kind, nfrag' = nfrag, done' = done, error' = error,
           fdone' = fdone, ferror' = ferror, peer' = peer, got' = got,
           svq' = svq, backend' = backend
    PROVE  ReplyInv'
<1>1. live' = live \ (Queued(outq[c], live) \cap done) /\ outq' = [outq EXCEPT ![c] = <<>>]
  BY DEF client_close
<1>2. Range(<<>>) = {} /\ outq \in [Client -> Seq(Req)]
  BY SMTT(30) DEF Range, OrderInv, TypeInv, Types
<1>3. \A d \in Client : /\ Range(outq'[d]) \subseteq Range(outq[d])
                        /\ d = c => Range(outq'[d]) = {}
  BY <1>1, <1>2
<1>4. \A m \in live \ live' : m[1] \in Range(outq[c])
  BY <1>1 DEF Queued
<1>5. \A m \in live \ live' : \A d \in Client : m[1] \notin Range(outq'[d])
  BY <1>3, <1>4, SMTT(30) DEF OwnInv, ClientQueues
<1>6. Offered(c, {}, {}, {})
  <2>1. live' \subseteq live
    BY <1>1
  <2>2. /\ {} = {n \in {} : kind[n] \in Vector /\ n \notin fdone}
        /\ {} = {n \in {} : req_error(n)}
        /\ ferror = ferror \cup {n \in {} : kind[n] \in Vector}
        /\ fdone = fdone \cup {}
    OBVIOUS
  <2>3. \A m \in live \ live' :
           (\E d \in Client : m[1] \in Range(outq'[d])) => m[1] \in {} /\ m[2] > 0
    BY <1>5
  <2>4. \A d \in Client : Range(outq'[d]) \subseteq Range(outq[d])
    BY <1>3
  <2>5. \A d \in Client : \A n \in Range(got'[d]) :
           n \in Range(got[d]) \/ (n \in {} /\ \A m \in live' : m[1] # n)
    OBVIOUS
  <2> QED BY <2>1, <2>2, <2>3, <2>4, <2>5 DEF Offered
<1>7. WireInv'
  BY DEF ReplyInv, WireInv
<1> QED BY <1>6, <1>7, OfferedKeeps

LEMMA ClientSendReply ==
    ASSUME OrderInv, OwnInv, ReplyInv, NEW c \in Client, NEW r \in 0..Len(outq[c]),
           NEW k \in 0..r, NEW p \in BOOLEAN, ClientSend(c, r, k, p)
    PROVE  ReplyInv'
<1> DEFINE R == {outq[c][i] : i \in 1..r}
           V == Completed(R, done, nfrag_done)
           F == {n \in R : req_error(n)}
           left == {m \in live : IF m[2] > 0 THEN m[1] \notin R
                                 ELSE \A i \in 1..k : m[1] # outq[c][i]}
           rest == SubSeq(outq[c], k + 1, Len(outq[c]))
           first == SubSeq(outq[c], 1, k)
<1>1. /\ \A i \in 1..r : req_done(outq[c][i], done, nfrag_done)
      /\ fdone' = fdone \cup V /\ ferror' = ferror \cup {n \in F : kind[n] \in Vector}
      /\ peer' = [m \in Msg |-> IF m[2] = 0 /\ m[1] \in F
                                THEN {ErrRsp} ELSE Coalesce(V, peer)[m]]
      /\ got' = [got EXCEPT ![c] = @ \o first]
      /\ nreq' = nreq /\ kind' = kind /\ nfrag' = nfrag /\ done' = done /\ error' = error
      /\ svq' = svq /\ backend' = backend
      /\ \/ client_close(c, rest, left)
         \/ live' = left /\ outq' = [outq EXCEPT ![c] = rest]
  BY DEF ClientSend
<1>2. /\ Shrunk(c, rest, left)
      /\ R \subseteq Req /\ R \subseteq Range(outq[c])
      /\ \A m \in live : m[1] \in R => m \in done
  <2>0. \A i \in 1..r : req_done(outq[c][i], done, nfrag_done)
    BY <1>1
  <2> QED BY <2>0, SendShrinks
<1>3. /\ outq[c] \in Seq(Req) /\ Distinct(outq[c]) /\ outq \in [Client -> Seq(Req)]
      /\ got \in [Client -> Seq(Req)] /\ live \subseteq Msg
  BY DEF OrderInv, TypeInv, Types, OwnInv, ClientQueues
<1>4. /\ Len(outq[c]) \in Nat /\ k \in 0..Len(outq[c]) /\ k \in Nat /\ r \in Nat
      /\ \A i \in 1..k : i \in 1..r /\ i \in 1..Len(outq[c])
  BY <1>3, LenProperties, SMTT(30)
<1>5. Range(rest) = Range(outq[c]) \ {outq[c][i] : i \in 1..k}
  BY <1>3, <1>4, RestHolds DEF Rest
<1>6. \A n \in Range(first) : \E i \in 1..k : n = outq[c][i]
  <2>1. \A i \in 1..k : outq[c][i] \in Req
    BY <1>3, <1>4, SMTT(30)
  <2>2. /\ first \in Seq(Req) /\ Len(first) = (IF 1 <= k THEN k - 1 + 1 ELSE 0)
        /\ \A i \in 1..(k - 1 + 1) : first[i] = outq[c][1 + i - 1]
    BY <1>3, <1>4, <2>1, SubSeqProperties, SMTT(30)
  <2>3. Len(first) = k /\ \A i \in 1..k : first[i] = outq[c][i]
    BY <1>4, <2>2, SMTT(30)
  <2>4. DOMAIN first = 1..k
    BY <2>2, <2>3, LenProperties
  <2> QED BY <2>3, <2>4 DEF Range
<1>7. \A i \in 1..k : outq[c][i] \in R /\ \A m \in left : m[1] # outq[c][i]
  <2> SUFFICES ASSUME NEW i \in 1..k
               PROVE  outq[c][i] \in R /\ \A m \in left : m[1] # outq[c][i]
    OBVIOUS
  <2>1. outq[c][i] \in R
    BY <1>4
  <2>2. \A m \in left : m[2] > 0 \/ m[2] = 0
    BY <1>3, MsgFacts, SMTT(30)
  <2> QED BY <2>1, <2>2
<1>8. first \in Seq(Req)
  BY <1>3, <1>4, SubSeqProperties, SMTT(30)
<1>9. \A n \in R : req_done(n, done, nfrag_done)
  BY <1>1
<1>10. V = {n \in R : kind[n] \in Vector /\ n \notin fdone}
  BY <1>9 DEF Completed
<1>11. \A m \in live \ left : \/ m[2] > 0 /\ m[1] \in R
                              \/ \E i \in 1..k : m[1] = outq[c][i]
  OBVIOUS
<1>12. \A m \in Msg : peer'[m] = IF m[2] = 0 /\ m[1] \in F THEN {ErrRsp}
                                 ELSE IF m[2] = 0 /\ m[1] \in V
                                 THEN UNION {peer[f] : f \in Frags(m[1])} ELSE peer[m]
  BY <1>1 DEF Coalesce
<1>r. F = {n \in R : req_error(n)}
  OBVIOUS
<1> HIDE DEF R, V, F, left, rest, first
<1>13. /\ live' \subseteq left /\ left \subseteq live
       /\ \A d \in Client : Range(outq'[d]) \subseteq Range(outq[d])
       /\ \A d \in Client : d # c => outq'[d] = outq[d]
       /\ Range(outq'[c]) \subseteq Range(rest)
       /\ live' = left \/ Range(outq'[c]) = {}
       /\ \A m \in left \ live' : m[1] \in Range(outq[c])
  <2>1. Range(<<>>) = {}
    BY EmptyHolds
  <2>2. CASE client_close(c, rest, left)
    <3>1. live' = left \ (Queued(rest, left) \cap done) /\ outq' = [outq EXCEPT ![c] = <<>>]
      BY <2>2 DEF client_close
    <3>2. left \subseteq live /\ Range(rest) \subseteq Range(outq[c])
      BY <1>2 DEF Shrunk
    <3>3. \A m \in left \ live' : m[1] \in Range(outq[c])
      BY <3>1, <3>2 DEF Queued
    <3> QED BY <1>3, <2>1, <3>1, <3>2, <3>3
  <2>3. CASE live' = left /\ outq' = [outq EXCEPT ![c] = rest]
    BY <1>2, <1>3, <2>3 DEF Shrunk
  <2> QED BY <1>1, <2>2, <2>3
<1>14. \A m \in live \ live' :
          (\E d \in Client : m[1] \in Range(outq'[d])) => m[1] \in R /\ m[2] > 0
  <2> SUFFICES ASSUME NEW m \in live \ live', NEW d \in Client, m[1] \in Range(outq'[d])
               PROVE  m[1] \in R /\ m[2] > 0
    OBVIOUS
  <2>1. m[1] \in Range(outq[c])
    BY <1>2, <1>7, <1>11, <1>13
  <2>2. d = c
    <3>1. m[1] \in Range(outq[d])
      BY <1>13
    <3>2. owner[m[1]] = c /\ owner[m[1]] = d
      BY <2>1, <3>1 DEF OwnInv, ClientQueues
    <3> QED BY <3>2
  <2>3. m \in live \ left /\ m[1] \in Range(rest)
    BY <1>13, <2>2
  <2> QED BY <1>5, <1>11, <2>3
<1>15. \A d \in Client : \A n \in Range(got'[d]) :
          n \in Range(got[d]) \/ (n \in R /\ \A m \in live' : m[1] # n)
  <2>1. got'[c] = got[c] \o first /\ \A d \in Client : d # c => got'[d] = got[d]
    BY <1>1, <1>3
  <2>2. Range(got'[c]) = Range(got[c]) \cup Range(first)
    BY <1>3, <1>8, <2>1, RangeConcatenation, SMTT(30)
  <2>3. \A n \in Range(first) : n \in R /\ \A m \in live' : m[1] # n
    BY <1>6, <1>7, <1>13, SMTT(30)
  <2> SUFFICES ASSUME NEW d \in Client, NEW n \in Range(got'[d])
               PROVE  n \in Range(got[d]) \/ (n \in R /\ \A m \in live' : m[1] # n)
    OBVIOUS
  <2>4. CASE d = c
    BY <2>2, <2>3, <2>4
  <2>5. CASE d # c
    BY <2>1, <2>5
  <2> QED BY <2>4, <2>5
<1>16. Offered(c, R, V, F)
  BY <1>1, <1>2, <1>9, <1>10, <1>12, <1>13, <1>14, <1>15, <1>r DEF Offered
<1>17. WireInv'
  BY <1>1 DEF ReplyInv, WireInv
<1> QED BY <1>16, <1>17, OfferedKeeps

LEMMA ClientRecvReply ==
    ASSUME OrderInv, OwnInv, ReplyInv, NEW c \in Client, NEW k \in ReqKind,
           NEW nf \in 0..MaxFrag, ClientRecv(c, k, nf)
    PROVE  ReplyInv'
<1> PICK new : new = nreq + 1
  OBVIOUS
<1> PICK msgs : msgs = {Top(new)} \cup {<<new, i>> : i \in 1..nf}
  OBVIOUS
<1>0. new \in Req /\ nreq \in Nat
  <2>1. nreq \in 0..MaxReq /\ nreq < MaxReq
    BY DEF ClientRecv, OrderInv, TypeInv, Types
  <2> QED BY <2>1, ConstAssumption, SMTT(30) DEF Req
<1>1. /\ nreq' = new /\ kind' = [kind EXCEPT ![new] = k] /\ nfrag' = [nfrag EXCEPT ![new] = nf]
      /\ live' = live \cup msgs
      /\ done' = IF k \in Vector \cup {"local"} THEN done \cup {Top(new)} ELSE done
      /\ peer' = IF k = "local" THEN [peer EXCEPT ![Top(new)] = {LocalRsp}] ELSE peer
      /\ outq' = IF k = "noreply" THEN outq ELSE [outq EXCEPT ![c] = Append(@, new)]
      /\ nf > 0 <=> k \in Vector
      /\ error' = error /\ fdone' = fdone /\ ferror' = ferror /\ got' = got
      /\ svq' = svq /\ backend' = backend
  BY DEF ClientRecv, enqueue, srvVars
<1>2. /\ outq \in [Client -> Seq(Req)] /\ kind \in [Req -> Kind]
      /\ nfrag \in [Req -> 0..MaxFrag] /\ peer \in [Msg -> Response] /\ k \in Kind
      /\ live \subseteq Msg /\ done \subseteq Msg /\ error \subseteq Msg
      /\ fdone \subseteq Req /\ ferror \subseteq Req
  BY ConstAssumption DEF OrderInv, TypeInv, Types
<1>3. \A n \in Req : n <= nreq => n # new /\ n <= nreq'
  BY <1>0, <1>1, SMTT(30) DEF Req
<1>4. /\ \A m \in live \cup done \cup error : m[1] # new
      /\ new \notin fdone /\ new \notin ferror
  BY <1>2, <1>3, MsgFacts DEF OwnInv, KnownInv, ReplyInv, FragInv
<1>5. /\ \A n \in Req : n # new => kind'[n] = kind[n] /\ nfrag'[n] = nfrag[n]
      /\ kind'[new] = k /\ nfrag'[new] = nf
  BY <1>0, <1>1, <1>2
<1>6. \A n \in Req : n # new => Parts(n)' = Parts(n) /\ (Failed(n)' <=> Failed(n))
  BY <1>1, <1>5 DEF Parts, Failed
<1>7. Parts(new)' = (IF k \in Vector THEN {<<new, i>> : i \in 1..nf} ELSE {Top(new)})
      /\ Parts(new)' \subseteq msgs
  BY <1>5 DEF Parts, Top
<1>8. /\ \A m \in msgs : m[1] = new
      /\ \A m \in msgs : m[2] > 0 => m \in Parts(new)'
      /\ \A m \in msgs : m[2] > 0 \/ m = Top(new)
      /\ Top(new) \in msgs /\ Top(new)[2] = 0 /\ Top(new)[1] = new /\ Top(new) \in Msg
  <2>1. /\ \A i \in 1..nf : i > 0 /\ k \in Vector
        /\ ~(0 > 0)
    BY <1>1, SMTT(30)
  <2> QED BY <1>0, <1>7, <2>1, MsgFacts, SMTT(30) DEF Top
<1>9. ~Failed(new)'
  BY <1>1, <1>4, <1>7, <1>8 DEF Failed
<1>10. \A m \in Msg : m # Top(new) => peer'[m] = peer[m]
  BY <1>1, <1>2
<1>11. FragInv'
  <2>1. \A m \in live : m[2] > 0 => m \in Parts(m[1])'
    BY <1>2, <1>4, <1>6, MsgFacts DEF ReplyInv, FragInv
  <2>2. \A m \in msgs : m[2] > 0 => m \in Parts(m[1])'
    BY <1>8
  <2>3. \A n \in ferror' : n <= nreq'
    BY <1>1, <1>2, <1>3 DEF ReplyInv, FragInv
  <2> QED BY <1>1, <2>1, <2>2, <2>3 DEF FragInv
<1>12. ASSUME NEW n \in Req, n # new, Whole(n) PROVE Whole(n)'
  <2>1. Top(n) # Top(new) /\ Top(n) \in Msg
    BY <1>12, MsgFacts DEF Top
  <2>2. peer'[Top(n)] = peer[Top(n)]
    BY <1>10, <2>1
  <2>3. Top(n) \in live => Top(n) \in live'
    BY <1>1
  <2>4. Top(n) \in done => Top(n) \in done'
    BY <1>1
  <2> QED BY <1>1, <1>5, <1>6, <1>12, <2>2, <2>3, <2>4 DEF Whole, Top
<1>13. k # "noreply" => Whole(new)'
  <2>1. Top(new) \in live' /\ Parts(new)' \subseteq live'
    BY <1>1, <1>7, <1>8
  <2>2. k \in Vector \cup {"local"} => Top(new) \in done' /\ Top(new) \notin error'
    BY <1>1, <1>4, <1>8
  <2>3. k = "local" => peer'[Top(new)] = {LocalRsp}
    BY <1>1, <1>2, <1>8
  <2>4. new \notin fdone' /\ new \notin ferror'
    BY <1>1, <1>4
  <2> QED BY <1>5, <2>1, <2>2, <2>3, <2>4 DEF Whole, Top
<1>14. WholeInv'
  <2> SUFFICES ASSUME NEW d \in Client, NEW n \in Range(outq'[d]) PROVE Whole(n)'
    BY DEF WholeInv
  <2>1. n \in Range(outq[d]) \/ (n = new /\ k # "noreply")
    <3>1. Range(Append(outq[c], new)) = Range(outq[c]) \cup {new}
      BY <1>0, <1>2, AppendHolds, SMTT(30)
    <3> QED BY <1>1, <1>2, <3>1
  <2>2. CASE n \in Range(outq[d])
    BY <1>3, <1>12, <2>2, QueuedFacts
  <2> QED BY <1>13, <2>1, <2>2
<1>15. AnswerInv'
  <2> SUFFICES ASSUME NEW m \in live', Answered(m)', m \in done', m \notin error'
               PROVE  peer'[m] = {m}
    BY DEF AnswerInv
  <2>1. CASE m \in live
    <3>1. m \in Msg /\ m[1] \in Req /\ m[1] # new /\ m # Top(new)
      BY <1>2, <1>4, <1>8, <2>1, MsgFacts
    <3>2. m \in done /\ Answered(m)
      BY <1>1, <1>5, <3>1 DEF Answered
    <3> QED BY <1>1, <1>10, <2>1, <3>1, <3>2 DEF ReplyInv, AnswerInv
  <2>2. CASE m \in msgs
    <3>1. m[1] = new /\ m \notin done
      BY <1>4, <1>8, <2>2
    <3>2. m = Top(new) /\ k \in Vector \cup {"local"}
      BY <1>1, <3>1
    <3>3. k # "single"
      BY <3>2 DEF Vector
    <3> QED BY <1>5, <1>8, <3>1, <3>2, <3>3, SMTT(30) DEF Answered
  <2> QED BY <1>1, <2>1, <2>2
<1>16. GotInv'
  <2> SUFFICES ASSUME NEW d \in Client, NEW n \in Range(got[d])
               PROVE  n <= nreq' /\ \A m \in live' : m[1] # n
    BY <1>1 DEF GotInv
  <2>1. n \in Req /\ n <= nreq /\ \A m \in live : m[1] # n
    BY GotFacts
  <2> QED BY <1>1, <1>3, <1>8, <2>1
<1>17. RightReply'
  <2> SUFFICES ASSUME NEW d \in Client, NEW n \in Range(got[d])
               PROVE  peer'[Top(n)] = IF Failed(n)' THEN {ErrRsp}
                                      ELSE IF kind'[n] = "local" THEN {LocalRsp} ELSE Parts(n)'
    BY <1>1 DEF RightReply, Failed, Top
  <2>1. n \in Req /\ n # new
    BY <1>3, GotFacts
  <2>2. Top(n) # Top(new) /\ Top(n) \in Msg
    BY <2>1, MsgFacts DEF Top
  <2>3. peer'[Top(n)] = peer[Top(n)]
    BY <1>10, <2>2
  <2> QED BY <1>5, <1>6, <2>1, <2>3 DEF ReplyInv, RightReply, Failed
<1>18. WireInv'
  BY <1>1 DEF ReplyInv, WireInv
<1> QED BY <1>11, <1>14, <1>15, <1>16, <1>17, <1>18 DEF ReplyInv

LEMMA ReplyStep == OrderInv /\ OwnInv /\ ReplyInv /\ [Next]_vars => ReplyInv'
<1> SUFFICES ASSUME OrderInv, OwnInv, ReplyInv, [Next]_vars PROVE ReplyInv'
  OBVIOUS
<1>0. ASSUME nreq' = nreq, kind' = kind, nfrag' = nfrag, live' = live, done' = done,
             error' = error, fdone' = fdone, ferror' = ferror, peer' = peer,
             outq' = outq, svq' = svq, backend' = backend,
             \A c \in Client : Range(got'[c]) \subseteq Range(got[c])
      PROVE  ReplyInv'
  <2>1. /\ \A n : Parts(n)' = Parts(n) /\ (Failed(n)' <=> Failed(n))
        /\ \A m : Answered(m)' <=> Answered(m)
    BY <1>0 DEF Parts, Failed, Answered
  <2>2. FragInv' /\ AnswerInv' /\ WireInv'
    BY <1>0, <2>1 DEF ReplyInv, FragInv, AnswerInv, WireInv
  <2>3. WholeInv'
    BY <1>0, <2>1 DEF ReplyInv, WholeInv, Whole, Top
  <2>4. GotInv'
    BY <1>0 DEF ReplyInv, GotInv
  <2>5. RightReply'
    <3> SUFFICES ASSUME NEW d \in Client, NEW n \in Range(got'[d])
                 PROVE  peer[Top(n)] = IF Failed(n) THEN {ErrRsp}
                                       ELSE IF kind[n] = "local" THEN {LocalRsp} ELSE Parts(n)
      BY <1>0, <2>1 DEF RightReply, Failed, Top
    <3>1. n \in Range(got[d])
      BY <1>0
    <3> QED BY <3>1 DEF ReplyInv, RightReply, Failed
  <2> QED BY <2>2, <2>3, <2>4, <2>5 DEF ReplyInv
<1>1. ASSUME NEW c \in Client, Accept(c) PROVE ReplyInv'
  <2>1. Range(<<>>) = {} /\ got \in [Client -> Seq(Req)]
    BY SMTT(30) DEF Range, OrderInv, TypeInv, Types
  <2>2. \A d \in Client : Range(got'[d]) \subseteq Range(got[d])
    BY <1>1, <2>1 DEF Accept
  <2> QED BY <1>0, <1>1, <2>2 DEF Accept, msgVars, srvVars
<1>3. ASSUME NEW c \in Client, ClientEof(c) PROVE ReplyInv'
  <2>1. CASE outq[c] = <<>> \/ c \in cerr
    BY <1>3, <2>1, ClientCloseReply DEF ClientEof
  <2>2. CASE ~(outq[c] = <<>> \/ c \in cerr)
    BY <1>0, <1>3, <2>2 DEF ClientEof
  <2> QED BY <2>1, <2>2
<1>4. ASSUME NEW c \in Client, ClientError(c) PROVE ReplyInv'
  BY <1>4, ClientCloseReply DEF ClientError
<1>5. ASSUME NEW c \in Client, NEW k \in ReqKind, NEW nf \in 0..MaxFrag,
             ClientRecv(c, k, nf)
      PROVE  ReplyInv'
  BY <1>5, ClientRecvReply
<1>6. ASSUME NEW c \in Client, NEW r \in 0..Len(outq[c]), NEW k \in 0..r,
             NEW p \in BOOLEAN, ClientSend(c, r, k, p)
      PROVE  ReplyInv'
  BY <1>6, ClientSendReply
<1>7. ASSUME NEW s \in SConn, Forward(s) PROVE ReplyInv'
  BY <1>0, <1>7 DEF Forward, cliVars, hisVars
<1>8. ASSUME ForwardError PROVE ReplyInv'
  BY <1>8, ForwardErrorReply
<1>9. ASSUME NEW s \in SConn, ServerSend(s) PROVE ReplyInv'
  BY <1>9, ServerSendReply
<1>10. ASSUME NEW s \in SConn, NEW bad \in BOOLEAN, ServerRecv(s, bad) PROVE ReplyInv'
  BY <1>10, ServerRecvReply
<1>11. ASSUME NEW s \in SConn, ServerError(s) PROVE ReplyInv'
  BY <1>11, ServerCloseReply DEF ServerError
<1>12. ASSUME NEW m \in Msg, NEW s \in SConn, CoreTimeout(m, s) PROVE ReplyInv'
  <2>1. CASE m \in done \cup error
    BY <1>0, <1>12, <2>1 DEF CoreTimeout, msgVars, cliVars, hisVars
  <2>2. CASE m \notin done \cup error
    BY <1>12, <2>2, ServerCloseReply DEF CoreTimeout
  <2> QED BY <2>1, <2>2
<1>13. CASE UNCHANGED vars
  BY <1>0, <1>13 DEF vars, msgVars, cliVars, srvVars, hisVars
<1> QED
  BY <1>1, <1>3, <1>4, <1>5, <1>6, <1>7, <1>8, <1>9, <1>10, <1>11, <1>12, <1>13
     DEF Next, Callback

(* Whatever is written to a client as the reply to a request is made of    *)
(* the backends' answers to exactly the parts of that request, or is an    *)
(* error if one of them failed, for any number of clients, servers,        *)
(* requests and fragments, and whoever closes, times out or is refused     *)
(* (rsp_filter, rsp_forward, req_done, req_error, rsp_send_next).          *)
THEOREM RepliesAreRight == Spec => []RightReply
<1>1. ReplyInv => RightReply
  BY DEF ReplyInv
<1> QED
  BY <1>1, OrderInvInit, OrderStep, OwnInit, OwnStep, ReplyInit, ReplyStep, PTL DEF Spec

-----------------------------------------------------------------------------
(* The reply at the head of a client's queue can be written.               *)
Ready(c) == outq[c] # <<>> /\ req_done(outq[c][1], done, nfrag_done)

ReadyKnown == \A c \in open : Ready(c) => c \in cact

WritersKnown == \A s \in SConn : inq[s] # <<>> => s \in sact

HalfClosed == \A c \in open \cap eof : outq[c] # <<>>

LEMMA WakeupParts == NoLostWakeup <=> ReadyKnown /\ WritersKnown /\ HalfClosed
BY DEF NoLostWakeup, ReadyKnown, WritersKnown, HalfClosed, Ready

(* A head that a step does not touch was ready before.                     *)
LEMMA ReadyBefore ==
    ASSUME NEW n, req_done(n, done, nfrag_done)',
           kind'[n] = kind[n], nfrag'[n] = nfrag[n], nfrag_done'[n] = nfrag_done[n],
           n \in fdone' => n \in fdone,
           \A m \in live \ live' : m[1] # n,
           \A m \in done' : m[1] = n => m \in done
    PROVE  req_done(n, done, nfrag_done)
<1>1. Top(n) \in done
  BY DEF req_done, Top
<1>2. Frags(n) \subseteq Frags(n)'
  BY DEF Frags
<1>3. Frags(n)' \subseteq done' => Frags(n) \subseteq done
  BY <1>2 DEF Frags
<1> QED BY <1>1, <1>3 DEF req_done

(* Heads are requests that their client holds.                             *)
LEMMA HeadFacts ==
    ASSUME OrderInv, OwnInv, NEW c \in Client, outq[c] # <<>>
    PROVE  /\ outq[c][1] \in Req /\ owner[outq[c][1]] = c /\ Held(outq[c][1])
           /\ kind[outq[c][1]] # "noreply" /\ outq[c][1] <= nreq
           /\ outq[c][1] \in Range(outq[c])
BY HeadHeld DEF OwnInv, ClientQueues, Held

(* Whoever completes a message notifies its client.                        *)
LEMMA NotifyReady ==
    ASSUME OrderInv, OwnInv, ReadyKnown, NEW C, C \subseteq Client,
           NEW dn, NEW nd, NEW pr, Notify(C, dn, nd, pr),
           done' = dn, nfrag_done' = nd, outq' = outq, open' = open,
           kind' = kind, nfrag' = nfrag,
           \A m \in dn \ done : owner[m[1]] \in C,
           \A n \in Req : owner[n] \notin C => nd[n] = nfrag_done[n],
           \A m \in live \ live' : ~Held(m[1])
    PROVE  ReadyKnown'
<1> SUFFICES ASSUME NEW c \in open, outq[c] # <<>>, req_done(outq[c][1], done, nfrag_done)'
             PROVE  c \in cact'
  BY DEF ReadyKnown, Ready
<1> PICK n : n = outq[c][1]
  OBVIOUS
<1>0. req_done(n, done, nfrag_done)'
  OBVIOUS
<1>1. c \in Client /\ n \in Req /\ owner[n] = c /\ Held(n)
  BY HeadFacts DEF OrderInv, TypeInv, Types
<1>2. \A m \in live \ live' : m[1] # n
  BY <1>1
<1>3. /\ fdone' = fdone \cup Completed(Heads(C), dn, nd)
      /\ cact' = cact \cup WriteReady(C, dn, nd)
  BY DEF Notify
<1>4. CASE c \in C
  <2>1. CASE n \in Completed(Heads(C), dn, nd)
    BY <1>3, <1>4, <2>1 DEF Completed, WriteReady
  <2>2. CASE n \notin Completed(Heads(C), dn, nd)
    <3>1. n \in fdone' => n \in fdone
      BY <1>3, <2>2
    <3>2. Frags(n) \subseteq {m \in live' : m[1] = n /\ m[2] > 0}
      BY <1>2 DEF Frags
    <3>3. /\ Top(n) \in done'
          /\ kind'[n] \in Vector =>
                \/ n \in fdone'
                \/ /\ nfrag_done'[n] >= nfrag'[n]
                   /\ {m \in live' : m[1] = n /\ m[2] > 0} \subseteq done'
      BY <1>0 DEF req_done, Frags, Top
    <3>4. req_done(n, dn, nd)
      BY <3>1, <3>2, <3>3 DEF req_done
    <3> QED BY <1>3, <1>4, <3>4 DEF WriteReady
  <2> QED BY <2>1, <2>2
<1>5. CASE c \notin C
  <2>1. n \notin Completed(Heads(C), dn, nd)
    <3>1. \A x \in Heads(C) : owner[x] \in C
      BY HeadFacts, SMTT(30) DEF Heads
    <3> QED BY <1>1, <1>5, <3>1 DEF Completed
  <2>2. /\ n \in fdone' => n \in fdone
        /\ nfrag_done'[n] = nfrag_done[n]
        /\ \A m \in done' : m[1] = n => m \in done
    BY <1>1, <1>3, <1>5, <2>1, SMTT(30)
  <2>3. kind'[n] = kind[n] /\ nfrag'[n] = nfrag[n]
    OBVIOUS
  <2>4. req_done(n, done, nfrag_done)
    BY <1>0, <1>2, <2>2, <2>3, ReadyBefore
  <2>5. c \in cact
    BY <2>4 DEF ReadyKnown, Ready
  <2> QED BY <1>3, <2>5
<1> QED BY <1>4, <1>5

(* Steps on client c do not touch what others wait for.                    *)
LEMMA OthersReady ==
    ASSUME OrderInv, OwnInv, ReadyKnown, NEW c \in Client, NEW d \in open, d # c,
           Ready(d)', outq'[d] = outq[d],
           kind' = kind, nfrag' = nfrag, nfrag_done' = nfrag_done, done' = done,
           \A n \in fdone' \ fdone : n \in Range(outq[c]),
           \A m \in live \ live' : m[1] \in Range(outq[c])
    PROVE  d \in cact
<1> PICK n : n = outq[d][1]
  OBVIOUS
<1>1. outq[d] # <<>> /\ req_done(n, done, nfrag_done)'
  BY DEF Ready
<1>2. n \in Req /\ owner[n] = d
  BY <1>1, HeadFacts DEF OrderInv, TypeInv, Types
<1>3. \A x \in Range(outq[c]) : owner[x] = c
  BY DEF OwnInv, ClientQueues
<1>4. /\ n \in fdone' => n \in fdone
      /\ \A m \in live \ live' : m[1] # n
  BY <1>2, <1>3
<1>5. req_done(n, done, nfrag_done)
  <2>1. /\ kind'[n] = kind[n] /\ nfrag'[n] = nfrag[n] /\ nfrag_done'[n] = nfrag_done[n]
        /\ \A m \in done' : m[1] = n => m \in done
    OBVIOUS
  <2> QED BY <1>1, <1>4, <2>1, ReadyBefore
<1> QED BY <1>1, <1>5 DEF ReadyKnown, Ready

LEMMA CloseWakes ==
    ASSUME OrderInv, OwnInv, NoLostWakeup, NEW c \in Client, NEW q, NEW lv,
           client_close(c, q, lv), lv \subseteq live, Range(q) \subseteq Range(outq[c]),
           \A m \in live \ lv : m[1] \in Range(outq[c]),
           kind' = kind, nfrag' = nfrag, nfrag_done' = nfrag_done, done' = done,
           inq' = inq, sact' = sact,
           \A n \in fdone' \ fdone : n \in Range(outq[c])
    PROVE  NoLostWakeup'
<1>1. /\ live' = lv \ (Queued(q, lv) \cap done) /\ open' = open \ {c} /\ eof' = eof \ {c}
      /\ cact' = cact \ {c} /\ outq' = [outq EXCEPT ![c] = <<>>]
  BY DEF client_close
<1>2. \A m \in live \ live' : m[1] \in Range(outq[c])
  BY <1>1 DEF Queued
<1>3. \A d \in Client : d # c => outq'[d] = outq[d]
  BY <1>1 DEF OrderInv, TypeInv, Types
<1>4. open \subseteq Client
  BY DEF OrderInv, TypeInv, Types
<1>5. ReadyKnown'
  <2> SUFFICES ASSUME NEW d \in open', Ready(d)' PROVE d \in cact'
    BY DEF ReadyKnown
  <2>1. d \in open /\ d # c /\ outq'[d] = outq[d]
    BY <1>1, <1>3, <1>4
  <2>2. d \in cact
    BY <1>2, <2>1, WakeupParts, OthersReady
  <2> QED BY <1>1, <2>1, <2>2
<1>6. WritersKnown' /\ HalfClosed'
  BY <1>1, <1>3, <1>4, WakeupParts DEF WritersKnown, HalfClosed
<1> QED BY <1>5, <1>6 DEF NoLostWakeup, ReadyKnown, WritersKnown, HalfClosed, Ready

(* What no client waits for may go without a word.                         *)
LEMMA QuietReady ==
    ASSUME OrderInv, OwnInv, ReadyKnown, outq' = outq, kind' = kind, nfrag' = nfrag,
           fdone' = fdone, nfrag_done' = nfrag_done, cact \subseteq cact',
           \A m \in live \ live' : ~Held(m[1]), \A m \in done' \ done : ~Held(m[1]),
           open' \subseteq Client, \A c \in open' : c \in open \/ c \in cact'
    PROVE  ReadyKnown'
<1> SUFFICES ASSUME NEW c \in open', c \in open, Ready(c)' PROVE c \in cact
  BY DEF ReadyKnown
<1> PICK n : n = outq[c][1]
  OBVIOUS
<1>1. outq[c] # <<>> /\ req_done(n, done, nfrag_done)'
  BY DEF Ready
<1>2. Held(n)
  BY <1>1, HeadFacts
<1>3. /\ \A m \in live \ live' : m[1] # n
      /\ \A m \in done' : m[1] = n => m \in done
      /\ kind'[n] = kind[n] /\ nfrag'[n] = nfrag[n] /\ nfrag_done'[n] = nfrag_done[n]
      /\ n \in fdone' => n \in fdone
  BY <1>2
<1>4. req_done(n, done, nfrag_done)
  BY <1>1, <1>3, ReadyBefore
<1> QED BY <1>1, <1>4 DEF ReadyKnown, Ready

LEMMA ForwardErrorWakes ==
    ASSUME OrderInv, OwnInv, NoLostWakeup, ForwardError
    PROVE  NoLostWakeup'
<1>1. /\ done' = done \cup {fwd} /\ outq' = outq /\ open' = open /\ kind' = kind
      /\ nfrag' = nfrag /\ nfrag_done' = nfrag_done /\ inq' = inq /\ sact' = sact
      /\ eof' = eof /\ fwd # NullMsg
  BY DEF ForwardError, srvVars
<1>2. fwd \in live /\ owner[fwd[1]] \in Client
  BY <1>1, PendingFacts DEF OwnInv, FwdInv
<1>3. open \subseteq Client
  BY DEF OrderInv, TypeInv, Types
<1>4. ReadyKnown'
  <2>1. CASE kind[fwd[1]] = "noreply"
    <3>1. live' = live \ {fwd} /\ fdone' = fdone /\ cact' = cact
      BY <2>1 DEF ForwardError
    <3>2. ~Held(fwd[1])
      BY <1>2, <2>1, NoReplyNotHeld
    <3> QED BY <1>1, <1>3, <3>1, <3>2, WakeupParts, QuietReady
  <2>2. CASE kind[fwd[1]] # "noreply"
    <3>1. Notify({owner[fwd[1]]}, done', nfrag_done', peer) /\ live' = live
      BY <1>1, <2>2 DEF ForwardError
    <3>2. {owner[fwd[1]]} \subseteq Client
      BY <1>2
    <3> HIDE DEF ForwardError
    <3> QED BY <1>1, <3>1, <3>2, WakeupParts, NotifyReady, SMTT(30)
  <2> QED BY <2>1, <2>2
<1>5. WritersKnown' /\ HalfClosed'
  BY <1>1, WakeupParts DEF WritersKnown, HalfClosed
<1> QED BY <1>4, <1>5 DEF NoLostWakeup, ReadyKnown, WritersKnown, HalfClosed, Ready

LEMMA ServerSendWakes ==
    ASSUME OrderInv, OwnInv, NoLostWakeup, NEW s \in SConn, ServerSend(s)
    PROVE  NoLostWakeup'
<1>1. /\ done' = done /\ fdone' = fdone /\ outq' = outq /\ open' = open /\ kind' = kind
      /\ nfrag' = nfrag /\ nfrag_done' = nfrag_done /\ cact' = cact /\ eof' = eof
  BY DEF ServerSend, cliVars
<1>2. open \subseteq Client
  BY DEF OrderInv, TypeInv, Types
<1>3. inq \in [SConn -> Seq(Msg)]
  BY DEF OrderInv, TypeInv, Types
<1>4. CASE inq[s] = <<>>
  <2>1. live' = live /\ inq' = inq /\ sact' = sact \ {s}
    BY <1>4 DEF ServerSend
  <2>2. ReadyKnown'
    BY <1>1, <1>2, <2>1, WakeupParts, QuietReady
  <2>3. WritersKnown' /\ HalfClosed'
    BY <1>1, <1>4, <2>1, WakeupParts DEF WritersKnown, HalfClosed
  <2> QED BY <2>2, <2>3 DEF NoLostWakeup, ReadyKnown, WritersKnown, HalfClosed, Ready
<1>5. CASE inq[s] # <<>>
  <2> DEFINE m == Head(inq[s])
  <2>1. /\ inq' = [inq EXCEPT ![s] = Tail(inq[s])]
        /\ sact' = IF Tail(inq[s]) = <<>> THEN sact \ {s} ELSE sact
        /\ IF kind[m[1]] = "noreply" THEN live' = live \ {m} ELSE live' = live
        /\ s \in sact
    BY <1>5 DEF ServerSend
  <2>2. m \in live
    <3>1. m \in Waiting(s)
      <4>1. inq[s] \in Seq(Msg) /\ Distinct(inq[s])
        BY <1>3 DEF OwnInv, ServerQueues
      <4> QED BY <1>5, <4>1, TailHolds DEF Waiting
    <3> QED BY <3>1, PendingFacts
  <2> HIDE DEF m
  <2>3. \A x \in live \ live' : ~Held(x[1])
    BY <2>1, <2>2, NoReplyNotHeld
  <2>4. ReadyKnown'
    BY <1>1, <1>2, <2>3, WakeupParts, QuietReady
  <2>5. WritersKnown' /\ HalfClosed'
    BY <1>1, <1>3, <2>1, WakeupParts DEF WritersKnown, HalfClosed
  <2> QED BY <2>4, <2>5 DEF NoLostWakeup, ReadyKnown, WritersKnown, HalfClosed, Ready
<1> QED BY <1>4, <1>5

LEMMA ServerRecvWakes ==
    ASSUME OrderInv, OwnInv, NoLostWakeup, NEW s \in SConn, NEW bad, ServerRecv(s, bad)
    PROVE  NoLostWakeup'
<1> DEFINE m == Head(svq[s])
           nd == IF m[2] > 0 THEN [nfrag_done EXCEPT ![m[1]] = @ + 1] ELSE nfrag_done
           pr == [peer EXCEPT ![m] = {Head(backend[s])}]
<1>1. /\ done' = done \cup {m} /\ outq' = outq /\ open' = open /\ kind' = kind
      /\ nfrag' = nfrag /\ inq' = inq /\ sact' = sact /\ eof' = eof /\ svq[s] # <<>>
      /\ IF m \in swallow
         THEN live' = live \ {m} /\ nfrag_done' = nfrag_done /\ fdone' = fdone /\ cact' = cact
         ELSE live' = live /\ nfrag_done' = nd /\ Notify({owner[m[1]]}, done', nd, pr)
  BY DEF ServerRecv, Swallowed
<1>2. m \in live /\ owner[m[1]] \in Client
  <2>1. svq[s] \in Seq(Msg) /\ Distinct(svq[s])
    BY DEF OrderInv, TypeInv, Types, OwnInv, ServerQueues
  <2>2. m \in Waiting(s)
    BY <1>1, <2>1, TailHolds DEF Waiting
  <2> QED BY <2>2, PendingFacts
<1>3. open \subseteq Client /\ nfrag_done = [n \in Req |-> nfrag_done[n]]
  BY DEF OrderInv, TypeInv, Types
<1>4. \A n \in Req : owner[n] \notin {owner[m[1]]} => nd[n] = nfrag_done[n]
  BY <1>3
<1> HIDE DEF m, nd, pr
<1>5. ReadyKnown'
  <2>1. CASE m \in swallow
    <3>1. ~Held(m[1])
      BY <1>2, <2>1, NoReplyNotHeld
    <3> QED BY <1>1, <1>3, <2>1, <3>1, WakeupParts, QuietReady
  <2>2. CASE m \notin swallow
    <3>1. Notify({owner[m[1]]}, done', nfrag_done', pr) /\ live' = live
      BY <1>1, <2>2
    <3>2. {owner[m[1]]} \subseteq Client
      BY <1>2
    <3>3. \A n \in Req : owner[n] \notin {owner[m[1]]} => nfrag_done'[n] = nfrag_done[n]
      BY <1>1, <1>4, <2>2
    <3>4. \A x \in done' \ done : owner[x[1]] \in {owner[m[1]]}
      BY <1>1
    <3> HIDE DEF ServerRecv
    <3> QED BY <1>1, <3>1, <3>2, <3>3, <3>4, WakeupParts, NotifyReady, SMTT(30)
  <2> QED BY <2>1, <2>2
<1>6. WritersKnown' /\ HalfClosed'
  BY <1>1, WakeupParts DEF WritersKnown, HalfClosed
<1> QED BY <1>5, <1>6 DEF NoLostWakeup, ReadyKnown, WritersKnown, HalfClosed, Ready

(* A vector with no fragment among the failed keeps its counter.           *)
NoneCounted == \A n \in Req : nfrag_done[n] + Cardinality({}) = nfrag_done[n]

LEMMA ServerCloseWakes ==
    ASSUME NoneCounted, OrderInv, OwnInv, NoLostWakeup, NEW s \in SConn, NEW tm, server_close(s, tm)
    PROVE  NoLostWakeup'
<1> DEFINE gone == {m \in Waiting(s) : m \in swallow \/ kind[m[1]] = "noreply"}
           failed == Waiting(s) \ gone
           nd == [n \in Req |-> nfrag_done[n] + Cardinality(FragsIn(n, failed))]
           C == {owner[m[1]] : m \in failed}
<1>1. /\ live' = live \ gone /\ done' = done \cup failed /\ outq' = outq /\ open' = open
      /\ kind' = kind /\ nfrag' = nfrag /\ eof' = eof /\ nfrag_done' = nd
      /\ inq' = [inq EXCEPT ![s] = <<>>] /\ sact' = sact \ {s}
      /\ Notify(C, done', nd, peer)
  BY DEF server_close, Swallowed, Waiting
<1>2. \A m \in Waiting(s) : m \in live /\ m \in Msg /\ owner[m[1]] \in Client
  BY PendingFacts
<1>3. C \subseteq Client
  BY <1>2
<1>4. \A m \in live \ live' : ~Held(m[1])
  BY <1>1, <1>2, NoReplyNotHeld
<1>5. \A n \in Req : owner[n] \notin C => nd[n] = nfrag_done[n]
  <2> SUFFICES ASSUME NEW n \in Req, owner[n] \notin C PROVE nd[n] = nfrag_done[n]
    OBVIOUS
  <2>1. FragsIn(n, failed) = {}
    BY DEF FragsIn
  <2> HIDE DEF failed, C
  <2> QED BY <2>1 DEF NoneCounted
<1>6. \A x \in done' \ done : owner[x[1]] \in C
  BY <1>1
<1>7. inq \in [SConn -> Seq(Msg)]
  BY DEF OrderInv, TypeInv, Types
<1> HIDE DEF gone, failed, nd, C
<1>8. ReadyKnown'
  BY <1>1, <1>3, <1>4, <1>5, <1>6, WakeupParts, NotifyReady, ZenonT(30)
<1>9. WritersKnown' /\ HalfClosed'
  BY <1>1, <1>7, WakeupParts DEF WritersKnown, HalfClosed
<1> QED BY <1>8, <1>9 DEF NoLostWakeup, ReadyKnown, WritersKnown, HalfClosed, Ready

LEMMA ClientRecvWakes ==
    ASSUME OrderInv, OwnInv, NoLostWakeup, NEW c \in Client, NEW k \in ReqKind,
           NEW nf \in 0..MaxFrag, ClientRecv(c, k, nf)
    PROVE  NoLostWakeup'
<1> PICK new : new = nreq + 1
  OBVIOUS
<1>0. new \in Req /\ nreq \in Nat
  <2>1. nreq \in 0..MaxReq /\ nreq < MaxReq
    BY DEF ClientRecv, OrderInv, TypeInv, Types
  <2> QED BY <2>1, ConstAssumption, SMTT(30) DEF Req
<1>1. /\ kind' = [kind EXCEPT ![new] = k] /\ nfrag' = [nfrag EXCEPT ![new] = nf]
      /\ live' = live \cup {Top(new)} \cup {<<new, i>> : i \in 1..nf}
      /\ done' = IF k \in Vector \cup {"local"} THEN done \cup {Top(new)} ELSE done
      /\ cact' = IF k = "local" THEN cact \cup {c} ELSE cact
      /\ outq' = IF k = "noreply" THEN outq ELSE [outq EXCEPT ![c] = Append(@, new)]
      /\ nf > 0 <=> k \in Vector
      /\ fdone' = fdone /\ nfrag_done' = nfrag_done /\ open' = open /\ eof' = eof
      /\ inq' = inq /\ sact' = sact
  BY DEF ClientRecv, enqueue, srvVars
<1>2. /\ open \subseteq Client /\ outq \in [Client -> Seq(Req)] /\ kind \in [Req -> Kind]
      /\ nfrag \in [Req -> 0..MaxFrag] /\ k \in Kind
  BY ConstAssumption DEF OrderInv, TypeInv, Types
<1>3. /\ \A m \in live \cup done : m[1] # new
      /\ new \notin fdone
  <2>1. live \cup done \subseteq Msg /\ fdone \subseteq Req
    BY DEF OrderInv, TypeInv, Types
  <2>2. \A n \in Req : n <= nreq => n # new
    BY <1>0, SMTT(30) DEF Req
  <2> QED BY <2>1, <2>2, MsgFacts DEF OwnInv, KnownInv
<1>4. ASSUME NEW d \in open, outq[d] # <<>>, outq'[d][1] = outq[d][1], Ready(d)'
      PROVE  d \in cact
  <2> PICK n : n = outq[d][1]
    OBVIOUS
  <2>1. req_done(n, done, nfrag_done)'
    BY <1>4 DEF Ready
  <2>2. n \in Req /\ n <= nreq
    BY <1>2, <1>4, HeadFacts
  <2>3. n # new
    BY <2>2, SMTT(30) DEF Req, OrderInv, TypeInv, Types
  <2>4. Top(new)[1] = new
    BY DEF Top
  <2>5. /\ kind'[n] = kind[n] /\ nfrag'[n] = nfrag[n] /\ nfrag_done'[n] = nfrag_done[n]
        /\ n \in fdone' => n \in fdone
        /\ \A m \in live \ live' : m[1] # n
        /\ \A m \in done' : m[1] = n => m \in done
    BY <1>1, <1>2, <2>2, <2>3, <2>4
  <2>6. req_done(n, done, nfrag_done)
    BY <2>1, <2>5, ReadyBefore
  <2> QED BY <1>4, <2>6, WakeupParts DEF ReadyKnown, Ready
<1>5. ASSUME NEW d \in open, d = c, outq[d] = <<>>, k # "noreply", Ready(d)'
      PROVE  k = "local"
  <2>1. outq'[d] = Append(<<>>, new)
    BY <1>1, <1>2, <1>5
  <2>2. outq'[d][1] = new
    BY <2>1, SMTT(30)
  <2>3. req_done(new, done, nfrag_done)' => k = "local"
    <3> SUFFICES ASSUME k # "local", req_done(new, done, nfrag_done)' PROVE FALSE
      OBVIOUS
    <3>1. kind'[new] = k
      BY <1>0, <1>1, <1>2
    <3>2. CASE k \in Vector
      <4>1. 1 \in 1..nf
        BY <1>1, <3>2, SMTT(30)
      <4>2. <<new, 1>> \in live' /\ <<new, 1>>[1] = new /\ <<new, 1>>[2] > 0
        BY <1>1, <4>1, SMTT(30)
      <4>3. <<new, 1>> \notin done'
        BY <1>1, <1>3, SMTT(30) DEF Top
      <4> QED BY <1>1, <1>3, <3>1, <3>2, <4>2, <4>3 DEF req_done, Frags
    <3>3. CASE k \notin Vector
      <4>1. Top(new) \notin done'
        BY <1>1, <1>3, <3>3, SMTT(30) DEF Top
      <4> QED BY <1>1, <4>1 DEF req_done, Top
    <3> QED BY <3>2, <3>3
  <2> QED BY <1>1, <1>5, <2>2, <2>3 DEF Ready
<1>6. ReadyKnown'
  <2> SUFFICES ASSUME NEW d \in open, Ready(d)' PROVE d \in cact'
    BY <1>1 DEF ReadyKnown
  <2>1. CASE outq'[d] = outq[d]
    <3>1. outq[d] # <<>>
      BY <2>1 DEF Ready
    <3> QED BY <1>1, <1>4, <2>1, <3>1
  <2>2. CASE outq'[d] # outq[d]
    <3>1. d = c /\ k # "noreply" /\ outq'[d] = Append(outq[d], new) /\ outq[d] \in Seq(Req)
      BY <1>1, <1>2, <2>2
    <3>2. outq[d] # <<>> => outq'[d][1] = outq[d][1]
      BY <1>0, <3>1, AppendHolds, SMTT(30)
    <3> QED BY <1>1, <1>4, <1>5, <3>1, <3>2
  <2> QED BY <2>1, <2>2
<1>7. WritersKnown'
  BY <1>1, WakeupParts DEF WritersKnown
<1>8. HalfClosed'
  <2> SUFFICES ASSUME NEW d \in open \cap eof PROVE outq'[d] # <<>>
    BY <1>1 DEF HalfClosed
  <2>1. outq[d] # <<>> /\ outq[d] \in Seq(Req)
    BY <1>2, WakeupParts DEF HalfClosed
  <2>2. Append(outq[d], new) # <<>>
    BY <1>0, <2>1, AppendHolds, SMTT(30)
  <2> QED BY <1>1, <1>2, <2>1, <2>2
<1> QED BY <1>6, <1>7, <1>8 DEF NoLostWakeup, ReadyKnown, WritersKnown, HalfClosed, Ready

(* A write that ends before the first reply that is not ready gives up the *)
(* write event; one that ends earlier keeps it.                            *)
LEMMA ClientSendWakes ==
    ASSUME OrderInv, OwnInv, NoLostWakeup, NEW c \in Client, NEW r \in 0..Len(outq[c]),
           NEW k \in 0..r, NEW p \in BOOLEAN, ClientSend(c, r, k, p)
    PROVE  NoLostWakeup'
<1> PICK ready : ready = {outq[c][i] : i \in 1..r}
  OBVIOUS
<1> PICK left : left = {m \in live : IF m[2] > 0 THEN m[1] \notin ready
                                     ELSE \A i \in 1..k : m[1] # outq[c][i]}
  OBVIOUS
<1> PICK rest : rest = SubSeq(outq[c], k + 1, Len(outq[c]))
  OBVIOUS
<1>1. /\ \A i \in 1..r : req_done(outq[c][i], done, nfrag_done)
      /\ r < Len(outq[c]) => ~req_done(outq[c][r + 1], done, nfrag_done)
      /\ fdone' = fdone \cup Completed(ready, done, nfrag_done)
      /\ kind' = kind /\ nfrag' = nfrag /\ nfrag_done' = nfrag_done /\ done' = done
      /\ inq' = inq /\ sact' = sact /\ c \in open \cap cact
      /\ \/ client_close(c, rest, left)
         \/ /\ ~Finished(c, rest) /\ live' = left /\ outq' = [outq EXCEPT ![c] = rest]
            /\ cact' = (IF k = r THEN cact \ {c} ELSE cact) /\ open' = open /\ eof' = eof
  BY DEF ClientSend
<1>2. /\ Shrunk(c, rest, left)
      /\ ready \subseteq Req /\ ready \subseteq Range(outq[c])
      /\ \A m \in live : m[1] \in ready => m \in done
  <2> DEFINE R == {outq[c][i] : i \in 1..r}
             L == {m \in live : IF m[2] > 0 THEN m[1] \notin R
                                ELSE \A i \in 1..k : m[1] # outq[c][i]}
             Q == SubSeq(outq[c], k + 1, Len(outq[c]))
  <2>0. \A i \in 1..r : req_done(outq[c][i], done, nfrag_done)
    BY <1>1
  <2>1. /\ Shrunk(c, Q, L)
        /\ R \subseteq Req /\ R \subseteq Range(outq[c])
        /\ \A m \in live : m[1] \in R => m \in done
    BY <2>0, SendShrinks
  <2>2. ready = R /\ left = L /\ rest = Q
    OBVIOUS
  <2> QED BY <2>1, <2>2
<1>3. /\ outq[c] \in Seq(Req) /\ Distinct(outq[c]) /\ outq \in [Client -> Seq(Req)]
      /\ open \subseteq Client /\ live \subseteq Msg
  BY DEF OrderInv, TypeInv, Types, OwnInv, ClientQueues
<1>4. /\ Len(outq[c]) \in Nat /\ DOMAIN outq[c] = 1..Len(outq[c])
      /\ k \in 0..Len(outq[c]) /\ r \in Nat /\ k \in Nat
      /\ \A i \in 1..k : i \in 1..r /\ i \in 1..Len(outq[c])
      /\ \A i \in 1..r : i \in 1..Len(outq[c])
  BY <1>3, LenProperties, SMTT(30)
<1>5. \A m \in live \ left : m[1] \in ready
  <2> SUFFICES ASSUME NEW m \in live \ left, m[1] \notin ready PROVE FALSE
    OBVIOUS
  <2>1. PICK i \in 1..k : m[1] = outq[c][i]
    OBVIOUS
  <2> QED BY <1>4, <2>1
<1>6. \A n \in fdone' \ fdone : n \in ready
  BY <1>1 DEF Completed
<1>7. CASE client_close(c, rest, left)
  BY <1>1, <1>2, <1>5, <1>6, <1>7, CloseWakes DEF Shrunk
<1>8. CASE /\ ~Finished(c, rest) /\ live' = left /\ outq' = [outq EXCEPT ![c] = rest]
           /\ cact' = (IF k = r THEN cact \ {c} ELSE cact) /\ open' = open /\ eof' = eof
  <2>1. ASSUME k = r, Ready(c)' PROVE FALSE
    <3>1. outq'[c] = rest /\ rest = Rest(outq[c], k)
      BY <1>3, <1>8 DEF Rest
    <3>2. rest # <<>> /\ req_done(rest[1], done, nfrag_done)'
      BY <2>1, <3>1 DEF Ready
    <3>3. k < Len(outq[c]) /\ rest[1] = outq[c][k + 1]
      BY <1>3, <1>4, <3>1, <3>2, RestHolds
    <3>4. PICK n : n = rest[1]
      OBVIOUS
    <3>5. n \notin ready
      <4> SUFFICES ASSUME NEW i \in 1..r, n = outq[c][i] PROVE FALSE
        OBVIOUS
      <4>1. r + 1 \in 1..Len(outq[c]) /\ i \in 1..Len(outq[c]) /\ i # r + 1
        BY <1>4, <2>1, <3>3, SMTT(30)
      <4> QED BY <1>3, <1>4, <2>1, <3>3, <3>4, <4>1 DEF Distinct
    <3>6. req_done(n, done, nfrag_done)'
      BY <3>1, <3>2, <3>4 DEF Ready
    <3>7. /\ \A m \in live \ live' : m[1] # n
          /\ n \in fdone' => n \in fdone
          /\ \A m \in done' : m[1] = n => m \in done
          /\ kind'[n] = kind[n] /\ nfrag'[n] = nfrag[n] /\ nfrag_done'[n] = nfrag_done[n]
      BY <1>1, <1>5, <1>6, <1>8, <3>5
    <3>8. req_done(n, done, nfrag_done)
      BY <3>6, <3>7, ReadyBefore
    <3> QED BY <1>1, <2>1, <3>3, <3>4, <3>8
  <2>2. ReadyKnown'
    <3> SUFFICES ASSUME NEW d \in open, Ready(d)' PROVE d \in cact'
      BY <1>8 DEF ReadyKnown
    <3>1. CASE d = c
      BY <1>1, <1>8, <2>1, <3>1
    <3>2. CASE d # c
      <4>1. outq'[d] = outq[d]
        BY <1>3, <1>8, <3>2
      <4>2. d \in cact
        BY <1>1, <1>2, <1>5, <1>6, <1>8, <3>2, <4>1, WakeupParts, OthersReady
      <4> QED BY <1>8, <3>2, <4>2
    <3> QED BY <3>1, <3>2
  <2>3. WritersKnown'
    BY <1>1, WakeupParts DEF WritersKnown
  <2>4. HalfClosed'
    BY <1>3, <1>8, WakeupParts DEF HalfClosed, Finished
  <2> QED BY <2>2, <2>3, <2>4 DEF NoLostWakeup, ReadyKnown, WritersKnown, HalfClosed, Ready
<1> QED BY <1>1, <1>7, <1>8

LEMMA WakeStep ==
    NoneCounted /\ OrderInv /\ OwnInv /\ NoLostWakeup /\ [Next]_vars => NoLostWakeup'
<1> SUFFICES ASSUME NoneCounted, OrderInv, OwnInv, NoLostWakeup, [Next]_vars
             PROVE  NoLostWakeup'
  OBVIOUS
<1>t. open \subseteq Client /\ inq \in [SConn -> Seq(Msg)]
  BY DEF OrderInv, TypeInv, Types
<1>0. ASSUME kind' = kind, nfrag' = nfrag, live' = live, done' = done, fdone' = fdone,
             nfrag_done' = nfrag_done, open' \subseteq Client, outq' = outq,
             cact \subseteq cact', \A c \in open' : c \in open \/ c \in cact',
             WritersKnown', HalfClosed'
      PROVE  NoLostWakeup'
  <2>1. ReadyKnown'
    BY <1>0, WakeupParts, QuietReady
  <2> QED BY <1>0, <2>1 DEF NoLostWakeup, ReadyKnown, WritersKnown, HalfClosed, Ready
<1>1. ASSUME NEW c \in Client, Accept(c) PROVE NoLostWakeup'
  <2>1. WritersKnown'
    BY <1>1, WakeupParts DEF WritersKnown, Accept, srvVars
  <2>2. HalfClosed'
    BY <1>1, WakeupParts DEF HalfClosed, Accept, OwnInv, KnownInv
  <2> QED BY <1>t, <1>0, <1>1, <2>1, <2>2 DEF Accept, msgVars, srvVars
<1>2. ASSUME NEW c \in Client, client_close(c, outq[c], live), done' = done,
             kind' = kind, nfrag' = nfrag, nfrag_done' = nfrag_done, fdone' = fdone,
             inq' = inq, sact' = sact
      PROVE  NoLostWakeup'
  BY <1>2, CloseWakes
<1>3. ASSUME NEW c \in Client, ClientEof(c) PROVE NoLostWakeup'
  <2>1. CASE outq[c] = <<>> \/ c \in cerr
    BY <1>2, <1>3, <2>1 DEF ClientEof
  <2>2. CASE ~(outq[c] = <<>> \/ c \in cerr)
    <3>1. /\ kind' = kind /\ nfrag' = nfrag /\ live' = live /\ done' = done
          /\ fdone' = fdone /\ nfrag_done' = nfrag_done /\ open' = open
          /\ outq' = outq /\ cact' = cact /\ inq' = inq /\ sact' = sact
          /\ eof' = eof \cup {c}
      BY <1>3, <2>2 DEF ClientEof
    <3>2. WritersKnown' /\ HalfClosed'
      BY <2>2, <3>1, WakeupParts DEF WritersKnown, HalfClosed
    <3> QED BY <1>t, <1>0, <3>1, <3>2
  <2> QED BY <2>1, <2>2
<1>4. ASSUME NEW c \in Client, ClientError(c) PROVE NoLostWakeup'
  BY <1>2, <1>4 DEF ClientError
<1>5. ASSUME NEW c \in Client, NEW k \in ReqKind, NEW nf \in 0..MaxFrag,
             ClientRecv(c, k, nf)
      PROVE  NoLostWakeup'
  BY <1>5, ClientRecvWakes
<1>6. ASSUME NEW c \in Client, NEW r \in 0..Len(outq[c]), NEW k \in 0..r,
             NEW p \in BOOLEAN, ClientSend(c, r, k, p)
      PROVE  NoLostWakeup'
  BY <1>6, ClientSendWakes
<1>7. ASSUME NEW s \in SConn, Forward(s) PROVE NoLostWakeup'
  <2>1. /\ sact' = (IF inq[s] = <<>> THEN sact \cup {s} ELSE sact)
        /\ \A t \in SConn : t # s => inq'[t] = inq[t]
    BY <1>t, <1>7 DEF Forward
  <2>2. WritersKnown'
    BY <2>1, WakeupParts DEF WritersKnown
  <2>3. HalfClosed'
    BY <1>7, WakeupParts DEF HalfClosed, Forward, cliVars
  <2> QED BY <1>t, <1>0, <1>7, <2>2, <2>3 DEF Forward, cliVars
<1>8. ASSUME ForwardError PROVE NoLostWakeup'
  BY <1>8, ForwardErrorWakes
<1>9. ASSUME NEW s \in SConn, ServerSend(s) PROVE NoLostWakeup'
  BY <1>9, ServerSendWakes
<1>10. ASSUME NEW s \in SConn, NEW bad \in BOOLEAN, ServerRecv(s, bad) PROVE NoLostWakeup'
  BY <1>10, ServerRecvWakes
<1>11. ASSUME NEW s \in SConn, ServerError(s) PROVE NoLostWakeup'
  BY <1>11, ServerCloseWakes DEF ServerError
<1>12. ASSUME NEW m \in Msg, NEW s \in SConn, CoreTimeout(m, s) PROVE NoLostWakeup'
  <2>1. CASE m \in done \cup error
    <3>1. WritersKnown' /\ HalfClosed'
      BY <1>12, <2>1, WakeupParts DEF WritersKnown, HalfClosed, CoreTimeout, cliVars
    <3> QED BY <1>t, <1>0, <1>12, <2>1, <3>1 DEF CoreTimeout, msgVars, cliVars
  <2>2. CASE m \notin done \cup error
    BY <1>12, <2>2, ServerCloseWakes DEF CoreTimeout
  <2> QED BY <2>1, <2>2
<1>13. CASE UNCHANGED vars
  BY <1>13 DEF vars, msgVars, cliVars, srvVars, NoLostWakeup, req_done, Frags
<1> QED BY <1>1, <1>3, <1>4, <1>5, <1>6, <1>7, <1>8, <1>9, <1>10, <1>11, <1>12, <1>13
        DEF Next, Callback

LEMMA WakeInit == Init => NoLostWakeup
BY DEF Init, NoLostWakeup
=============================================================================
