--------------------------- MODULE PipelineProofs ---------------------------
(***************************************************************************)
(* Theorems about Pipeline, for any number of clients, server connections, *)
(* requests and fragments: its types, the order of its replies, and who    *)
(* holds a message.                                                        *)
(***************************************************************************)
EXTENDS Pipeline, SequenceTheorems, TLAPS

\* Zenon is tried where a step names no prover; the steps with arithmetic,
\* sequences or records name the SMT solver.
USE Zenon

(* A message is a request and an index.                                    *)
LEMMA MsgFacts ==
    /\ \A m \in Msg : m = <<m[1], m[2]>> /\ m[1] \in Req /\ m[2] \in 0..MaxFrag
    /\ \A n \in Req : Top(n) \in Msg
<1>1. \A n \in Req : Top(n) \in Msg
  BY ConstAssumption, SMT DEF Msg, Top, Req
<1>2. \A m \in Msg : m = <<m[1], m[2]>> /\ m[1] \in Req /\ m[2] \in 0..MaxFrag
  BY SMT DEF Msg
<1> QED BY <1>1, <1>2

(* The elements of a queue are of the queue's type.                        *)
LEMMA RangeType ==
    ASSUME NEW S, NEW q \in Seq(S)
    PROVE  Range(q) \subseteq S /\ \A i \in 1..Len(q) : q[i] \in S
BY SMT DEF Range

(* A queue cut in two is two queues.                                       *)
LEMMA SplitType ==
    \A q \in Seq(Req) : \A k \in 0..Len(q) :
        SubSeq(q, 1, k) \in Seq(Req) /\ SubSeq(q, k + 1, Len(q)) \in Seq(Req)
<1> TAKE q \in Seq(Req)
<1> TAKE k \in 0..Len(q)
<1>1. Len(q) \in Nat /\ \A i \in 1..Len(q) : q[i] \in Req
  BY SMT
<1>2. SubSeq(q, 1, k) \in Seq(Req)
  BY <1>1, SubSeqProperties, SMT
<1>3. SubSeq(q, k + 1, Len(q)) \in Seq(Req)
  BY <1>1, SubSeqProperties, SMT
<1> QED BY <1>2, <1>3

(* Coalescing and notifying preserve types.                                *)
LEMMA CoalesceType ==
    ASSUME Types, NEW V \in SUBSET Req, NEW pr \in [Msg -> Response]
    PROVE  Coalesce(V, pr) \in [Msg -> Response]
<1> SUFFICES ASSUME NEW m \in Msg, m[2] = 0, m[1] \in V
             PROVE  UNION {pr[f] : f \in Frags(m[1])} \in Response
  BY DEF Coalesce
<1>1. Frags(m[1]) \subseteq Msg
  BY DEF Frags, Types
<1>2. \A f \in Msg : pr[f] \subseteq Msg \cup {ErrRsp, LocalRsp}
  BY DEF Response
<1> QED BY <1>1, <1>2 DEF Response

LEMMA NotifyType ==
    ASSUME Types, NEW C, NEW dn, NEW nd, NEW pr \in [Msg -> Response],
           \A c \in C : c \in Client,
           Notify(C, dn, nd, pr)
    PROVE  /\ fdone' \subseteq Req
           /\ peer' \in [Msg -> Response]
           /\ cerr' \subseteq Client
           /\ cact' \subseteq Client
<1> DEFINE new == Completed(Heads(C), dn, nd)
<1>1. Heads(C) \subseteq Req
  <2> SUFFICES ASSUME NEW c \in C, outq[c] # <<>>
               PROVE  outq[c][1] \in Req
    BY DEF Heads
  <2>1. outq[c] \in Seq(Req)
    BY DEF Types
  <2> QED BY <2>1, SMT
<1>2. new \in SUBSET Req
  BY <1>1 DEF Completed
<1>3. peer' \in [Msg -> Response]
  BY <1>2, CoalesceType DEF Notify
<1>4. fdone' \subseteq Req
  BY <1>2 DEF Notify, Types
<1>5. cerr' \subseteq Client
  BY DEF Notify, Types, CoalesceErr
<1>6. cact' \subseteq Client
  BY DEF Notify, Types, WriteReady
<1> QED BY <1>3, <1>4, <1>5, <1>6

(* Closing a client connection preserves types.                            *)
LEMMA ClientCloseType ==
    ASSUME Types, NEW c \in Client, NEW q, NEW lv \in SUBSET Msg,
           client_close(c, q, lv)
    PROVE  /\ live' \subseteq Msg /\ swallow' \subseteq Msg
           /\ tmo' \subseteq Msg \X SConn
           /\ open' \subseteq Client /\ eof' \subseteq Client
           /\ cact' \subseteq Client /\ half' \subseteq Client
           /\ cerr' \subseteq Client
           /\ outq' \in [Client -> Seq(Req)]
BY SMTT(30) DEF client_close, Types, Queued, TmoOf

(***************************************************************************)
(* A type invariant alone is not inductive: registering write interest for *)
(* the owner of a message needs that owner to be a client connection.      *)
(***************************************************************************)
OwnedMsg == {m \in Msg : owner[m[1]] \in Client}

OwnedInv ==
    /\ inq \in [SConn -> Seq(OwnedMsg)]
    /\ svq \in [SConn -> Seq(OwnedMsg)]
    /\ fwd \in OwnedMsg \cup {NullMsg}

TypeInv == Types /\ OwnedInv

(* Closing a server connection preserves types.                            *)
LEMMA ServerCloseType ==
    ASSUME TypeInv, NEW s \in SConn, NEW tm \in SUBSET (Msg \X SConn),
           server_close(s, tm)
    PROVE  TypeInv'
<1> DEFINE pending == Range(inq[s]) \cup Range(svq[s])
           gone == {m \in pending : Swallowed(m) \/ kind[m[1]] = "noreply"}
           failed == pending \ gone
           nd == [n \in Req |-> nfrag_done[n] + Cardinality(FragsIn(n, failed))]
<1>1. pending \subseteq OwnedMsg
  <2>1. inq[s] \in Seq(OwnedMsg) /\ svq[s] \in Seq(OwnedMsg)
    BY DEF TypeInv, OwnedInv
  <2> QED BY <2>1, RangeType
<1>3. /\ fdone' \subseteq Req
      /\ peer' \in [Msg -> Response]
      /\ cerr' \subseteq Client
      /\ cact' \subseteq Client
  <2>1. Notify({owner[m[1]] : m \in failed}, done', nd, peer)
    BY DEF server_close
  <2>2. peer \in [Msg -> Response]
    BY DEF TypeInv, Types
  <2>3. \A c \in {owner[m[1]] : m \in failed} : c \in Client
    BY <1>1 DEF OwnedMsg
  <2> QED BY <2>1, <2>2, <2>3, NotifyType DEF TypeInv
<1>4. crashed' \in BOOLEAN
  BY DEF server_close, req_log
<1>5. /\ inq' \in [SConn -> Seq(OwnedMsg)] /\ svq' \in [SConn -> Seq(OwnedMsg)]
      /\ inq' \in [SConn -> Seq(Msg)] /\ svq' \in [SConn -> Seq(Msg)]
      /\ backend' \in [SConn -> Seq(Msg)]
  <2>1. /\ inq' = [inq EXCEPT ![s] = <<>>] /\ svq' = [svq EXCEPT ![s] = <<>>]
        /\ backend' = [backend EXCEPT ![s] = <<>>]
    BY DEF server_close
  <2>2. <<>> \in Seq(OwnedMsg) /\ <<>> \in Seq(Msg)
    BY SMT
  <2> QED BY <2>1, <2>2 DEF TypeInv, Types, OwnedInv
<1>6. OwnedMsg' = OwnedMsg /\ fwd' = fwd
  BY DEF server_close, OwnedMsg
<1>7. /\ done' \subseteq Msg /\ error' \subseteq Msg /\ live' \subseteq Msg
      /\ tmo' \subseteq Msg \X SConn
      /\ sstate' \in [SConn -> {"closed", "connecting", "connected"}]
      /\ sact' \subseteq SConn
  BY <1>1 DEF server_close, TypeInv, Types, OwnedMsg
<1>8. nfrag_done' = [n \in Req |-> nfrag_done'[n]]
  BY DEF server_close
<1>9. UNCHANGED <<nreq, kind, nfrag, owner, swallow, ferror, fwd,
                  open, outq, eof, half, asked, got, torn>>
  BY DEF server_close
<1> QED BY <1>3, <1>4, <1>5, <1>6, <1>7, <1>8, <1>9 DEF TypeInv, Types, OwnedInv

LEMMA TypeInvInit == Init => TypeInv
<1> SUFFICES ASSUME Init PROVE TypeInv
  OBVIOUS
<1>1. Types
  <2>1. peer \in [Msg -> Response] /\ kind \in [Req -> Kind]
    BY DEF Init, Response, Kind
  <2>2. nfrag \in [Req -> 0..MaxFrag] /\ nreq \in 0..MaxReq
    BY ConstAssumption, SMT DEF Init
  <2>3. sstate \in [SConn -> {"closed", "connecting", "connected"}]
    BY DEF Init
  <2>4. /\ outq \in [Client -> Seq(Req)]
        /\ asked \in [Client -> Seq(Req)] /\ got \in [Client -> Seq(Req)]
        /\ inq \in [SConn -> Seq(Msg)] /\ svq \in [SConn -> Seq(Msg)]
        /\ backend \in [SConn -> Seq(Msg)]
    BY SMT DEF Init
  <2>5. owner \in [Req -> Client \cup {NoConn}] /\ nfrag_done = [n \in Req |-> nfrag_done[n]]
    BY DEF Init
  <2>6. /\ live \subseteq Msg /\ done \subseteq Msg /\ error \subseteq Msg
        /\ swallow \subseteq Msg /\ fdone \subseteq Req /\ ferror \subseteq Req
        /\ open \subseteq Client /\ eof \subseteq Client /\ cerr \subseteq Client
        /\ cact \subseteq Client /\ half \subseteq Client /\ torn \subseteq Client
        /\ sact \subseteq SConn /\ tmo \subseteq Msg \X SConn
        /\ crashed \in BOOLEAN /\ fwd \in Msg \cup {NullMsg}
    BY DEF Init
  <2> QED BY <2>1, <2>2, <2>3, <2>4, <2>5, <2>6 DEF Types
<1>2. OwnedInv
  BY SMT DEF Init, OwnedInv
<1> QED BY <1>1, <1>2 DEF TypeInv

(* A message is never NullMsg: requests are numbered from 1.               *)
LEMMA NullIsNoMsg == NullMsg \notin Msg
BY SMT DEF NullMsg, Msg, Req

(* The next message of the forwarding loop is another fragment of the same *)
(* vector.                                                                 *)
LEMMA NextFwdType ==
    ASSUME TypeInv, fwd # NullMsg
    PROVE  NextFwd \in OwnedMsg \cup {NullMsg}
<1>1. fwd \in OwnedMsg /\ fwd \in Msg
  BY DEF TypeInv, OwnedInv, OwnedMsg
<1>2. nfrag[fwd[1]] \in 0..MaxFrag
  BY <1>1, MsgFacts DEF TypeInv, Types
<1>3. fwd[2] > 0 /\ fwd[2] < nfrag[fwd[1]] => <<fwd[1], fwd[2] + 1>> \in Msg
  BY <1>1, <1>2, MsgFacts, ConstAssumption, SMT DEF Msg
<1> QED BY <1>1, <1>3 DEF NextFwd, OwnedMsg

LEMMA TypeInvStep == TypeInv /\ [Next]_vars => TypeInv'
<1> SUFFICES ASSUME TypeInv, [Next]_vars PROVE TypeInv'
  OBVIOUS
<1> USE DEF TypeInv
<1>1. ASSUME NEW c \in Client, Accept(c) PROVE TypeInv'
  BY <1>1, SMTT(30) DEF Accept, Types, OwnedInv, OwnedMsg, msgVars, srvVars
<1>2. ASSUME NEW c \in Client, ClientEof(c) PROVE TypeInv'
  <2>1. CASE outq[c] = <<>> \/ c \in cerr
    <3>1. client_close(c, outq[c], live) /\ crashed' \in BOOLEAN
      BY <1>2, <2>1 DEF ClientEof, req_log
    <3>2. live \in SUBSET Msg
      BY DEF Types
    <3> QED BY <1>2, <3>1, <3>2, ClientCloseType
            DEF ClientEof, Types, OwnedInv, OwnedMsg
  <2>2. CASE ~(outq[c] = <<>> \/ c \in cerr)
    BY <1>2, <2>2 DEF ClientEof, Types, OwnedInv, OwnedMsg
  <2> QED BY <2>1, <2>2
<1>3. ASSUME NEW c \in Client, ClientError(c) PROVE TypeInv'
  <2>1. client_close(c, outq[c], live) /\ crashed' \in BOOLEAN
    BY <1>3 DEF ClientError, req_log
  <2>2. live \in SUBSET Msg
    BY DEF Types
  <2> QED BY <1>3, <2>1, <2>2, ClientCloseType
          DEF ClientError, Types, OwnedInv, OwnedMsg
<1>4. ASSUME NEW c \in Client, NEW k \in ReqKind, NEW nf \in 0..MaxFrag,
             ClientRecv(c, k, nf)
      PROVE  TypeInv'
  <2> DEFINE n == nreq + 1
  <2>1. n \in Req /\ k \in Kind
    BY <1>4, ConstAssumption, SMTT(30) DEF ClientRecv, Types, Req
  <2>2. Top(n) \in Msg /\ \A i \in 1..nf : <<n, i>> \in Msg
    BY <2>1, MsgFacts, ConstAssumption, SMT DEF Msg
  <2>3. owner' = [owner EXCEPT ![n] = c]
    BY <1>4 DEF ClientRecv
  <2>4. OwnedMsg \subseteq OwnedMsg'
    BY <2>1, <2>3, MsgFacts DEF OwnedMsg, Types
  <2>5. fwd' \in OwnedMsg' \cup {NullMsg}
    <3>1. \A m \in Msg : m[1] = n => m \in OwnedMsg'
      BY <2>1, <2>3, SMTT(30) DEF OwnedMsg, Types
    <3>2. nf > 0 => <<n, 1>> \in Msg
      BY <2>2, SMT
    <3>3. CASE k = "local"
      BY <1>4, <3>3 DEF ClientRecv, Vector
    <3>4. CASE k \in Vector
      <4>1. fwd' = <<n, 1>> /\ nf > 0
        BY <1>4, <3>4 DEF ClientRecv, Vector
      <4> QED BY <4>1, <3>1, <3>2
    <3>5. CASE k # "local" /\ k \notin Vector
      BY <1>4, <2>2, <3>1, <3>5 DEF ClientRecv, Top
    <3> QED BY <3>3, <3>4, <3>5
  <2>6. OwnedInv'
    <3>1. inq' = inq /\ svq' = svq
      BY <1>4 DEF ClientRecv, srvVars
    <3>2. Seq(OwnedMsg) \subseteq Seq(OwnedMsg')
      BY <2>4, SeqMonotonic
    <3> QED BY <3>1, <3>2, <2>5 DEF OwnedInv
  <2>7. peer' \in [Msg -> Response]
    BY <1>4, <2>2 DEF ClientRecv, Types, Response
  <2>8. /\ outq' \in [Client -> Seq(Req)] /\ asked' \in [Client -> Seq(Req)]
        /\ got' \in [Client -> Seq(Req)]
    BY <1>4, <2>1, SMTT(30) DEF ClientRecv, Types, enqueue
  <2>9. live' \subseteq Msg /\ done' \subseteq Msg /\ cact' \subseteq Client
    BY <1>4, <2>2, SMTT(30) DEF ClientRecv, Types
  <2>10. fwd' \in Msg \cup {NullMsg}
    BY <2>5 DEF OwnedMsg
  <2>11. /\ nreq' \in 0..MaxReq
         /\ kind' \in [Req -> Kind]
         /\ nfrag' \in [Req -> 0..MaxFrag]
         /\ owner' \in [Req -> Client \cup {NoConn}]
    BY <1>4, <2>1, ConstAssumption, SMTT(30) DEF ClientRecv, Types
  <2> QED BY <1>4, <2>6, <2>7, <2>8, <2>9, <2>10, <2>11
          DEF ClientRecv, Types, srvVars
<1>5. ASSUME NEW c \in Client, NEW r \in 0..Len(outq[c]), NEW k \in 0..r,
             NEW p \in BOOLEAN, ClientSend(c, r, k, p)
      PROVE  TypeInv'
  <2> DEFINE ready == {outq[c][i] : i \in 1..r}
             new == Completed(ready, done, nfrag_done)
             failed == {n \in ready : req_error(n)}
             left == {m \in live : IF m[2] > 0 THEN m[1] \notin ready
                                   ELSE \A i \in 1..k : m[1] # outq[c][i]}
             rest == SubSeq(outq[c], k + 1, Len(outq[c]))
  <2>1. outq[c] \in Seq(Req) /\ got[c] \in Seq(Req) /\ Len(outq[c]) \in Nat
    BY SMTT(30) DEF Types
  <2>2. ready \subseteq Req /\ new \in SUBSET Req /\ failed \subseteq Req
    <3>1. ready \subseteq Req
      <4>1. \A i \in 1..Len(outq[c]) : outq[c][i] \in Req
        BY <2>1, SMT
      <4>2. 1..r \subseteq 1..Len(outq[c])
        BY <2>1, SMT
      <4> QED BY <4>1, <4>2
    <3> QED BY <3>1 DEF Completed
  <2>3. left \in SUBSET Msg
    BY DEF Types
  <2>4. rest \in Seq(Req) /\ SubSeq(outq[c], 1, k) \in Seq(Req)
    <3> DEFINE q == outq[c]
    <3> HIDE DEF q
    <3>1. q \in Seq(Req) /\ k \in 0..Len(q)
      BY <2>1, SMT DEF q
    <3>2. SubSeq(q, 1, k) \in Seq(Req) /\ SubSeq(q, k + 1, Len(q)) \in Seq(Req)
      BY <3>1, SplitType
    <3> QED BY <3>2 DEF q
  <2>5. got' \in [Client -> Seq(Req)]
    BY <1>5, <2>1, <2>4, ConcatProperties DEF ClientSend, Types
  <2>6. peer' \in [Msg -> Response]
    <3>1. Coalesce(new, peer) \in [Msg -> Response]
      BY <2>2, CoalesceType DEF Types
    <3>2. peer' = [m \in Msg |-> IF m[2] = 0 /\ m[1] \in failed
                                 THEN {ErrRsp} ELSE Coalesce(new, peer)[m]]
      BY <1>5 DEF ClientSend
    <3> QED BY <3>1, <3>2 DEF Response
  <2>7. /\ fdone' \subseteq Req /\ ferror' \subseteq Req
        /\ torn' \subseteq Client /\ crashed' \in BOOLEAN
    BY <1>5, <2>2 DEF ClientSend, Types, req_log
  <2>8. /\ live' \subseteq Msg /\ swallow' \subseteq Msg
        /\ tmo' \subseteq Msg \X SConn
        /\ open' \subseteq Client /\ eof' \subseteq Client
        /\ cact' \subseteq Client /\ half' \subseteq Client
        /\ cerr' \subseteq Client
        /\ outq' \in [Client -> Seq(Req)]
    <3>1. CASE client_close(c, rest, left)
      BY <2>3, <3>1, ClientCloseType
    <3>2. CASE ~client_close(c, rest, left)
      <4>1. /\ live' = left
            /\ tmo' = tmo \ TmoOf(live \ left)
            /\ outq' = [outq EXCEPT ![c] = rest]
            /\ cact' = IF k = r THEN cact \ {c} ELSE cact
            /\ half' = IF p \/ (c \in half /\ k = 0)
                       THEN half \cup {c} ELSE half \ {c}
            /\ UNCHANGED <<swallow, open, eof, cerr>>
        BY <1>5, <3>2 DEF ClientSend
      <4> QED BY <4>1, <2>3, <2>4 DEF Types
    <3> QED BY <3>1, <3>2
  <2>9. UNCHANGED <<nreq, kind, nfrag, owner, done, error, nfrag_done, fwd,
                    sstate, inq, svq, sact, backend, asked>>
    BY <1>5 DEF ClientSend
  <2> HIDE DEF ready, new, failed, left, rest
  <2> QED BY <2>5, <2>6, <2>7, <2>8, <2>9 DEF Types, OwnedInv, OwnedMsg
<1>6. ASSUME NEW s \in SConn, Forward(s) PROVE TypeInv'
  <2>1. fwd \in OwnedMsg /\ fwd \in Msg
    BY <1>6 DEF Forward, OwnedInv, OwnedMsg
  <2>2. NextFwd \in OwnedMsg \cup {NullMsg} /\ NextFwd \in Msg \cup {NullMsg}
    BY <1>6, NextFwdType DEF Forward, OwnedMsg
  <2>3. inq' \in [SConn -> Seq(OwnedMsg)] /\ inq' \in [SConn -> Seq(Msg)]
    BY <1>6, <2>1, SMTT(30) DEF Forward, OwnedInv, Types, enqueue
  <2>4. tmo' \subseteq Msg \X SConn
    BY <1>6, <2>1, SMTT(30) DEF Forward, Types, msg_tmo_insert
  <2>5. /\ sstate' \in [SConn -> {"closed", "connecting", "connected"}]
        /\ sact' \subseteq SConn
    BY <1>6 DEF Forward, Types
  <2> QED BY <1>6, <2>2, <2>3, <2>4, <2>5
          DEF Forward, Types, OwnedInv, OwnedMsg, cliVars, hisVars
<1>7. ASSUME ForwardError PROVE TypeInv'
  <2>1. fwd \in OwnedMsg /\ fwd \in Msg
    BY <1>7 DEF ForwardError, OwnedInv, OwnedMsg
  <2>2. NextFwd \in OwnedMsg \cup {NullMsg} /\ NextFwd \in Msg \cup {NullMsg}
    BY <1>7, NextFwdType DEF ForwardError, OwnedMsg
  <2>3. /\ fdone' \subseteq Req /\ peer' \in [Msg -> Response]
        /\ cerr' \subseteq Client /\ cact' \subseteq Client
    <3>1. CASE kind[fwd[1]] = "noreply"
      BY <1>7, <3>1 DEF ForwardError, Types
    <3>2. CASE kind[fwd[1]] # "noreply"
      <4>1. Notify({owner[fwd[1]]}, done', nfrag_done, peer)
        BY <1>7, <3>2 DEF ForwardError
      <4>2. \A c \in {owner[fwd[1]]} : c \in Client
        BY <2>1 DEF OwnedMsg
      <4>3. peer \in [Msg -> Response]
        BY DEF Types
      <4> QED BY <4>1, <4>2, <4>3, NotifyType
    <3> QED BY <3>1, <3>2
  <2>4. live' \subseteq Msg /\ crashed' \in BOOLEAN
    BY <1>7 DEF ForwardError, Types, req_log
  <2>5. done' \subseteq Msg /\ error' \subseteq Msg
    BY <1>7, <2>1 DEF ForwardError, Types
  <2> QED BY <1>7, <2>2, <2>3, <2>4, <2>5
          DEF ForwardError, Types, OwnedInv, OwnedMsg, srvVars
<1>8. ASSUME NEW s \in SConn, ServerSend(s) PROVE TypeInv'
  <2>1. CASE inq[s] = <<>>
    BY <1>8, <2>1 DEF ServerSend, Types, OwnedInv, OwnedMsg, cliVars
  <2>2. CASE inq[s] # <<>>
    <3> DEFINE m == Head(inq[s])
    <3>1. /\ m \in OwnedMsg /\ m \in Msg
          /\ Tail(inq[s]) \in Seq(OwnedMsg) /\ Tail(inq[s]) \in Seq(Msg)
      <4>1. inq[s] \in Seq(OwnedMsg) /\ inq[s] \in Seq(Msg)
        BY DEF OwnedInv, Types
      <4> QED BY <4>1, <2>2, HeadTailProperties
    <3>2. inq' \in [SConn -> Seq(OwnedMsg)] /\ inq' \in [SConn -> Seq(Msg)]
      BY <1>8, <2>2, <3>1 DEF ServerSend, OwnedInv, Types
    <3>3. /\ svq' \in [SConn -> Seq(OwnedMsg)] /\ svq' \in [SConn -> Seq(Msg)]
          /\ backend' \in [SConn -> Seq(Msg)]
      <4>1. CASE kind[m[1]] = "noreply"
        BY <1>8, <2>2, <4>1 DEF ServerSend, OwnedInv, Types
      <4>2. CASE kind[m[1]] # "noreply"
        <5>1. /\ svq' = [svq EXCEPT ![s] = Append(svq[s], m)]
              /\ backend' = [backend EXCEPT ![s] = Append(backend[s], m)]
          BY <1>8, <2>2, <4>2 DEF ServerSend, enqueue
        <5>2. /\ Append(svq[s], m) \in Seq(OwnedMsg)
              /\ Append(svq[s], m) \in Seq(Msg)
              /\ Append(backend[s], m) \in Seq(Msg)
          BY <3>1, AppendProperties DEF OwnedInv, Types
        <5> HIDE DEF m
        <5> QED BY <5>1, <5>2 DEF OwnedInv, Types
      <4> QED BY <4>1, <4>2
    <3>4. /\ live' \subseteq Msg /\ tmo' \subseteq Msg \X SConn
          /\ crashed' \in BOOLEAN
      BY <1>8, <2>2 DEF ServerSend, Types, TmoOf, req_log
    <3>5. /\ sstate' \in [SConn -> {"closed", "connecting", "connected"}]
          /\ sact' \subseteq SConn
      BY <1>8, <2>2 DEF ServerSend, Types
    <3> QED BY <1>8, <3>2, <3>3, <3>4, <3>5
            DEF ServerSend, Types, OwnedInv, OwnedMsg, cliVars
  <2> QED BY <2>1, <2>2
<1>9. ASSUME NEW s \in SConn, NEW bad \in BOOLEAN, ServerRecv(s, bad)
      PROVE  TypeInv'
  <2> DEFINE m == Head(svq[s])
             nd == IF m[2] > 0 THEN [nfrag_done EXCEPT ![m[1]] = @ + 1]
                   ELSE nfrag_done
             pr == [peer EXCEPT ![m] = {Head(backend[s])}]
  <2>1. /\ m \in OwnedMsg /\ m \in Msg
        /\ Tail(svq[s]) \in Seq(OwnedMsg) /\ Tail(svq[s]) \in Seq(Msg)
        /\ Head(backend[s]) \in Msg /\ Tail(backend[s]) \in Seq(Msg)
    <3>1. svq[s] \in Seq(OwnedMsg) /\ svq[s] \in Seq(Msg) /\ backend[s] \in Seq(Msg)
      BY DEF OwnedInv, Types
    <3>2. svq[s] # <<>> /\ backend[s] # <<>>
      BY <1>9 DEF ServerRecv
    <3> QED BY <3>1, <3>2, HeadTailProperties
  <2>2. /\ svq' \in [SConn -> Seq(OwnedMsg)] /\ svq' \in [SConn -> Seq(Msg)]
        /\ backend' \in [SConn -> Seq(Msg)]
    BY <1>9, <2>1 DEF ServerRecv, OwnedInv, Types
  <2>3. m[1] \in Req
    BY <2>1, MsgFacts
  <2>4. nd = [n \in Req |-> nd[n]]
    <3> HIDE DEF m
    <3>1. nfrag_done = [n \in Req |-> nfrag_done[n]]
      BY DEF Types
    <3> QED BY <3>1
  <2>5. pr \in [Msg -> Response]
    BY <2>1 DEF Types, Response
  <2>6. /\ fdone' \subseteq Req /\ peer' \in [Msg -> Response]
        /\ cerr' \subseteq Client /\ cact' \subseteq Client
        /\ nfrag_done' = [n \in Req |-> nfrag_done'[n]]
    <3>1. CASE Swallowed(m)
      BY <1>9, <3>1 DEF ServerRecv, Types
    <3>2. CASE ~Swallowed(m)
      <4>1. Notify({owner[m[1]]}, done', nd, pr) /\ nfrag_done' = nd
        BY <1>9, <3>2 DEF ServerRecv
      <4>2. \A c \in {owner[m[1]]} : c \in Client
        BY <2>1 DEF OwnedMsg
      <4> HIDE DEF nd, pr, m
      <4>3. /\ fdone' \subseteq Req /\ peer' \in [Msg -> Response]
            /\ cerr' \subseteq Client /\ cact' \subseteq Client
        BY <4>1, <4>2, <2>5, NotifyType, ZenonT(30)
      <4> QED BY <4>1, <4>3, <2>4
    <3> QED BY <3>1, <3>2
  <2>7. /\ live' \subseteq Msg /\ tmo' \subseteq Msg \X SConn
        /\ crashed' \in BOOLEAN /\ done' \subseteq Msg /\ error' \subseteq Msg
    BY <1>9, <2>1 DEF ServerRecv, Types, TmoOf, req_log
  <2> QED BY <1>9, <2>2, <2>6, <2>7 DEF ServerRecv, Types, OwnedInv, OwnedMsg
<1>10. ASSUME NEW s \in SConn, ServerError(s) PROVE TypeInv'
  BY <1>10, ServerCloseType DEF ServerError, Types
<1>11. ASSUME NEW m \in Msg, NEW s \in SConn, CoreTimeout(m, s) PROVE TypeInv'
  <2>1. CASE m \in done \cup error
    BY <1>11, <2>1 DEF CoreTimeout, Types, OwnedInv, OwnedMsg, msgVars, cliVars, hisVars
  <2>2. CASE m \notin done \cup error
    BY <1>11, <2>2, ServerCloseType DEF CoreTimeout, Types
  <2> QED BY <2>1, <2>2
<1>12. CASE UNCHANGED vars
  BY <1>12 DEF Types, OwnedInv, OwnedMsg, vars, msgVars, cliVars, srvVars, hisVars
<1> QED
  BY <1>1, <1>2, <1>3, <1>4, <1>5, <1>6, <1>7, <1>8, <1>9, <1>10, <1>11, <1>12
     DEF Next, Callback

-----------------------------------------------------------------------------
(***************************************************************************)
(* Replies come in the order of the requests: Pipeline implements          *)
(* ReplyService, for any number of clients, server connections, requests   *)
(* and fragments.  Beside the type invariant the argument needs that a     *)
(* connection slot is empty while it is closed, so that a new connection   *)
(* does not inherit requests, and that every number asked was handed out.  *)
(***************************************************************************)

ClosedEmpty == \A c \in Client \ open : outq[c] = <<>>

AskedReceived == \A c \in Client : Range(asked[c]) \subseteq 1..nreq

OrderInv == TypeInv /\ ReplyOrder /\ ClosedEmpty /\ AskedReceived

(* What is in front of a queue is a prefix of the whole.                   *)
LEMMA PrefixOfConcat ==
    ASSUME NEW S, NEW s \in Seq(S), NEW t \in Seq(S)
    PROVE  SubSeq(s \o t, 1, Len(s)) = s
<1>1. CASE s = <<>>
  BY <1>1, SubSeqEmpty, SMT
<1>2. CASE s # <<>>
  <2>1. Len(s) \in Nat \ {0}
    BY <1>2, EmptySeq
  <2>2. SubSeq(s \o t, 1, Len(s)) = SubSeq(s, 1, Len(s))
    BY <2>1, SubSeqOfConcat1, SMT
  <2> QED BY <2>2, SubSeqFull
<1> QED BY <1>1, <1>2

(* Concatenation is associative, as a quantified fact.                     *)
LEMMA ConcatAll ==
    ASSUME NEW S
    PROVE  \A x, y, z \in Seq(S) : (x \o y) \o z = x \o (y \o z)
BY SMTT(30)

(* Moving the first k elements of a queue to the end of a log keeps their  *)
(* concatenation.                                                          *)
LEMMA MovePrefix ==
    ASSUME NEW S, NEW s \in Seq(S), NEW t \in Seq(S), NEW k \in 0..Len(t)
    PROVE  /\ SubSeq(t, 1, k) \in Seq(S) /\ SubSeq(t, k + 1, Len(t)) \in Seq(S)
           /\ s \o t = (s \o SubSeq(t, 1, k)) \o SubSeq(t, k + 1, Len(t))
<1>1. Len(t) \in Nat /\ \A i \in 1..Len(t) : t[i] \in S
  BY RangeType, LenProperties
<1>2. SubSeq(t, 1, k) \in Seq(S)
  BY <1>1, SubSeqProperties, SMT
<1>3. SubSeq(t, k + 1, Len(t)) \in Seq(S)
  BY <1>1, SubSeqProperties, SMT
<1>4. SubSeq(t, 1, k) \o SubSeq(t, k + 1, Len(t)) = t
  <2>1. /\ 1 \in 1..Len(t)+1 /\ k \in 1-1..Len(t) /\ Len(t) \in k..Len(t)
    BY <1>1, SMT
  <2>2. SubSeq(t, 1, k) \o SubSeq(t, k + 1, Len(t)) = SubSeq(t, 1, Len(t))
    BY <2>1, ConcatAdjacentSubSeq
  <2> QED BY <2>2, SubSeqFull
<1> DEFINE a == SubSeq(t, 1, k)
           b == SubSeq(t, k + 1, Len(t))
<1> HIDE DEF a, b
<1>5. (s \o a) \o b = s \o (a \o b)
  <2>1. a \in Seq(S) /\ b \in Seq(S)
    BY <1>2, <1>3 DEF a, b
  <2> QED BY <2>1, ConcatAll, SMTT(30)
<1> QED BY <1>2, <1>3, <1>4, <1>5 DEF a, b

(* The number of a new request.                                            *)
LEMMA NextReq ==
    ASSUME nreq \in 0..MaxReq, nreq < MaxReq
    PROVE  nreq + 1 \in Req /\ nreq \in Nat
BY ConstAssumption, SMT DEF Req

(* Appending a new request to a client's queue appends it to the whole.    *)
LEMMA AppendToConcat ==
    \A s, t \in Seq(Req) : \A n \in Req : Append(s \o t, n) = s \o Append(t, n)
BY SMTT(30)

LEMMA OrderInvInit == Init => OrderInv
<1> SUFFICES ASSUME Init PROVE OrderInv
  OBVIOUS
<1>1. ReplyOrder /\ ClosedEmpty
  BY DEF Init, ReplyOrder, ClosedEmpty
<1>2. AskedReceived
  BY SMT DEF Init, AskedReceived, Range
<1> QED BY <1>1, <1>2, TypeInvInit DEF OrderInv

(* The steps a client can see: each keeps the order, and is a step that    *)
(* ReplyService allows.  All others leave what a client sees alone.        *)
Seen == <<open, outq, asked, got, nreq>>

Allowed == Service!Next \/ UNCHANGED Service!vars

LEMMA AcceptOrder ==
    ASSUME OrderInv, NEW c \in Client, Accept(c)
    PROVE  ReplyOrder' /\ ClosedEmpty' /\ AskedReceived' /\ Service!Next
<1> USE DEF OrderInv, TypeInv
<1>1. /\ outq' = outq /\ nreq' = nreq /\ open' = open \cup {c}
      /\ asked' = [asked EXCEPT ![c] = <<>>] /\ got' = [got EXCEPT ![c] = <<>>]
  BY DEF Accept, msgVars
<1>2. outq[c] = <<>>
  BY DEF Accept, ClosedEmpty
<1>3. ReplyOrder'
  <2>1. <<>> \o <<>> = <<>>
    BY SMT
  <2>2. asked \in [Client -> Seq(Req)] /\ got \in [Client -> Seq(Req)]
    BY DEF Types
  <2>3. asked'[c] = got'[c] \o outq'[c]
    BY <1>1, <1>2, <2>1, <2>2
  <2>4. \A d \in open : d # c => asked'[d] = got'[d] \o outq'[d]
    BY <1>1, <2>2 DEF ReplyOrder, Types
  <2> QED BY <1>1, <2>3, <2>4 DEF ReplyOrder
<1>4. ClosedEmpty'
  BY <1>1 DEF ClosedEmpty
<1>5. AskedReceived'
  <2>1. Range(<<>>) = {}
    BY SMT DEF Range
  <2> QED BY <1>1, <2>1 DEF AskedReceived, Types
<1>6. Service!Next
  BY <1>1 DEF Accept, Service!Next, Service!Connect
<1> QED BY <1>3, <1>4, <1>5, <1>6

LEMMA RecvOrder ==
    ASSUME OrderInv, NEW c \in Client, NEW k \in ReqKind, NEW nf \in 0..MaxFrag,
           ClientRecv(c, k, nf)
    PROVE  ReplyOrder' /\ ClosedEmpty' /\ AskedReceived' /\ Allowed
<1> USE DEF OrderInv, TypeInv
<1> DEFINE n == nreq + 1
<1>1. /\ c \in open /\ n \in Req /\ nreq' = n /\ nreq \in Nat
      /\ open' = open /\ got' = got
  <2>1. /\ c \in open /\ nreq < MaxReq /\ nreq' = n /\ open' = open /\ got' = got
    BY DEF ClientRecv
  <2> QED BY <2>1, NextReq DEF Types
<1>2. \A d \in Client : Range(asked[d]) \subseteq 1..n /\ n \notin Range(asked[d])
  BY <1>1, SMT DEF AskedReceived
<1>3. CASE k = "noreply"
  <2>1. outq' = outq /\ asked' = asked
    BY <1>3 DEF ClientRecv
  <2> QED BY <1>1, <1>2, <2>1
          DEF ReplyOrder, ClosedEmpty, AskedReceived, Allowed, Service!vars
<1>4. CASE k # "noreply"
  <2>1. /\ outq' = [outq EXCEPT ![c] = Append(outq[c], n)]
        /\ asked' = [asked EXCEPT ![c] = Append(asked[c], n)]
    BY <1>4 DEF ClientRecv, enqueue
  <2>2. asked[c] \in Seq(Req) /\ got[c] \in Seq(Req) /\ outq[c] \in Seq(Req)
    BY DEF Types
  <2>3. Append(asked[c], n) = got[c] \o Append(outq[c], n)
    <3>1. asked[c] = got[c] \o outq[c]
      BY <1>1 DEF ReplyOrder
    <3> HIDE DEF n
    <3>2. Append(got[c] \o outq[c], n) = got[c] \o Append(outq[c], n)
      <4> DEFINE g == got[c]
                 q == outq[c]
      <4> HIDE DEF g, q
      <4>1. g \in Seq(Req) /\ q \in Seq(Req) /\ n \in Req
        BY <1>1, <2>2 DEF g, q
      <4>2. Append(g \o q, n) = g \o Append(q, n)
        BY <4>1, AppendToConcat
      <4> QED BY <4>2 DEF g, q
    <3> QED BY <3>1, <3>2
  <2>4. ReplyOrder'
    BY <1>1, <2>1, <2>3 DEF ReplyOrder, Types
  <2>5. ClosedEmpty'
    BY <1>1, <2>1 DEF ClosedEmpty, Types
  <2>6. AskedReceived'
    <3> HIDE DEF n
    <3>1. Range(Append(asked[c], n)) \subseteq Range(asked[c]) \cup {n}
      <4> DEFINE q == asked[c]
      <4> HIDE DEF q
      <4>1. q \in Seq(Req)
        BY <2>2 DEF q
      <4>2. /\ Append(q, n) \in Seq(Req)
            /\ Len(Append(q, n)) = Len(q) + 1
            /\ \A i \in 1..Len(q) : Append(q, n)[i] = q[i]
            /\ Append(q, n)[Len(q) + 1] = n
        BY <4>1, <1>1, AppendProperties, SMT
      <4>3. Len(q) \in Nat /\ DOMAIN q = 1..Len(q)
        BY <4>1, LenProperties
      <4>4. DOMAIN Append(q, n) = 1..(Len(q) + 1)
        BY <4>2, LenProperties
      <4>5. \A i \in 1..(Len(q) + 1) : i \in 1..Len(q) \/ i = Len(q) + 1
        BY <4>3, SMT
      <4> QED BY <4>2, <4>3, <4>4, <4>5 DEF Range, q
    <3>2. Range(Append(asked[c], n)) \subseteq 1..n
      BY <1>1, <1>2, <3>1, SMT DEF n
    <3> QED BY <1>1, <1>2, <2>1, <3>2 DEF AskedReceived, Types
  <2>7. Service!Next
    <3>1. Service!Ask(c, n)
      BY <1>1, <1>2, <2>1 DEF Service!Ask, Service!Range, Range
    <3> HIDE DEF n
    <3> QED BY <1>1, <3>1 DEF Service!Next
  <2> QED BY <2>4, <2>5, <2>6, <2>7 DEF Allowed
<1> QED BY <1>3, <1>4

(* A connection that is closed, after k more replies, leaves an empty slot.*)
LEMMA SendOrder ==
    ASSUME OrderInv, NEW c \in open, NEW k \in 0..Len(outq[c]),
           nreq' = nreq, asked' = asked,
           got' = [got EXCEPT ![c] = got[c] \o SubSeq(outq[c], 1, k)],
           \/ /\ open' = open \ {c}
              /\ outq' = [outq EXCEPT ![c] = <<>>]
           \/ /\ open' = open
              /\ outq' = [outq EXCEPT ![c] = SubSeq(outq[c], k + 1, Len(outq[c]))]
    PROVE  ReplyOrder' /\ ClosedEmpty' /\ AskedReceived' /\ Service!Next
<1> USE DEF OrderInv, TypeInv
<1> DEFINE sent == SubSeq(outq[c], 1, k)
           rest == SubSeq(outq[c], k + 1, Len(outq[c]))
<1>1. /\ c \in Client /\ outq[c] \in Seq(Req) /\ got[c] \in Seq(Req)
      /\ Len(got[c]) \in Nat /\ asked[c] = got[c] \o outq[c]
  BY LenProperties DEF Types, ReplyOrder
<1>2. sent \in Seq(Req) /\ rest \in Seq(Req) /\ asked[c] = (got[c] \o sent) \o rest
  <2> DEFINE g == got[c]
             q == outq[c]
  <2> HIDE DEF g, q
  <2>1. g \in Seq(Req) /\ q \in Seq(Req) /\ k \in 0..Len(q)
    BY <1>1 DEF g, q
  <2>2. /\ SubSeq(q, 1, k) \in Seq(Req) /\ SubSeq(q, k + 1, Len(q)) \in Seq(Req)
        /\ g \o q = (g \o SubSeq(q, 1, k)) \o SubSeq(q, k + 1, Len(q))
    <3>1. \A x, y \in Seq(Req) : \A i \in 0..Len(y) :
              /\ SubSeq(y, 1, i) \in Seq(Req) /\ SubSeq(y, i + 1, Len(y)) \in Seq(Req)
              /\ x \o y = (x \o SubSeq(y, 1, i)) \o SubSeq(y, i + 1, Len(y))
      BY MovePrefix
    <3> QED BY <2>1, <3>1
  <2> QED BY <1>1, <2>2 DEF g, q
<1>3. got[c] \o sent \in Seq(Req) /\ Len(got[c] \o sent) = Len(got[c]) + Len(sent)
  BY <1>1, <1>2, ConcatProperties, SMTT(30)
<1> HIDE DEF sent, rest
<1>4. ReplyOrder'
  BY <1>1, <1>2 DEF ReplyOrder, Types, sent, rest
<1>5. ClosedEmpty'
  <2>1. outq' \in [Client -> Seq(Req)] /\ \A d \in Client \ {c} : outq'[d] = outq[d]
    <3>1. outq \in [Client -> Seq(Req)] /\ <<>> \in Seq(Req)
      BY SMTT(30) DEF Types
    <3>2. outq' = [outq EXCEPT ![c] = <<>>] \/ outq' = [outq EXCEPT ![c] = rest]
      BY DEF rest
    <3> QED BY <1>1, <1>2, <3>1, <3>2
  <2>2. c \in open' \/ outq'[c] = <<>>
    BY <1>1 DEF Types
  <2>3. open \ {c} \subseteq open'
    OBVIOUS
  <2> QED BY <2>1, <2>2, <2>3 DEF ClosedEmpty
<1>6. AskedReceived'
  BY DEF AskedReceived
<1>7. Service!Next
  <2> DEFINE j == Len(got[c] \o sent)
  <2>1. SubSeq(asked[c], 1, j) = got[c] \o sent
    BY <1>2, <1>3, PrefixOfConcat
  <2>2. Len(asked[c]) = j + Len(rest) /\ Len(rest) \in Nat /\ Len(sent) \in Nat
    BY <1>2, <1>3, ConcatProperties, LenProperties, SMTT(30)
  <2>3. j \in 0..Len(asked[c]) /\ j >= Len(got[c])
    BY <1>1, <1>3, <2>2, SMTT(30)
  <2>4. Service!Deliver(c, j)
    BY <2>1, <2>3 DEF Service!Deliver, sent
  <2> QED BY <1>1, <2>3, <2>4 DEF Service!Next
<1> QED BY <1>4, <1>5, <1>6, <1>7

LEMMA CloseOrder ==
    ASSUME OrderInv, NEW c \in open, nreq' = nreq, asked' = asked, got' = got,
           client_close(c, outq[c], live)
    PROVE  ReplyOrder' /\ ClosedEmpty' /\ AskedReceived' /\ Service!Next
<1>1. /\ c \in Client /\ outq[c] \in Seq(Req) /\ got[c] \in Seq(Req)
      /\ got \in [Client -> Seq(Req)]
  BY DEF OrderInv, TypeInv, Types
<1>2. 0 \in 0..Len(outq[c])
  BY <1>1, LenProperties, SMT
<1>3. SubSeq(outq[c], 1, 0) = <<>>
  BY SubSeqEmpty, SMT
<1>4. got[c] \o SubSeq(outq[c], 1, 0) = got[c]
  BY <1>1, <1>3, ConcatEmptySeq
<1>5. got' = [got EXCEPT ![c] = got[c] \o SubSeq(outq[c], 1, 0)]
  BY <1>1, <1>4
<1>6. open' = open \ {c} /\ outq' = [outq EXCEPT ![c] = <<>>]
  BY DEF client_close
<1> QED BY <1>2, <1>5, <1>6, SendOrder

LEMMA OrderStep ==
    OrderInv /\ [Next]_vars => OrderInv' /\ Allowed
<1> SUFFICES ASSUME OrderInv, [Next]_vars
             PROVE  ReplyOrder' /\ ClosedEmpty' /\ AskedReceived' /\ Allowed
  BY TypeInvStep DEF OrderInv
<1>1. ASSUME UNCHANGED Seen
      PROVE  ReplyOrder' /\ ClosedEmpty' /\ AskedReceived' /\ Allowed
  BY <1>1 DEF Seen, OrderInv, ReplyOrder, ClosedEmpty, AskedReceived,
              Allowed, Service!vars
<1>2. ASSUME NEW c \in Client, Accept(c)
      PROVE  ReplyOrder' /\ ClosedEmpty' /\ AskedReceived' /\ Allowed
  BY <1>2, AcceptOrder DEF Allowed
<1>3. ASSUME NEW c \in Client, ClientEof(c)
      PROVE  ReplyOrder' /\ ClosedEmpty' /\ AskedReceived' /\ Allowed
  <2>1. CASE outq[c] = <<>> \/ c \in cerr
    <3>1. /\ c \in open /\ nreq' = nreq /\ asked' = asked /\ got' = got
          /\ client_close(c, outq[c], live)
      BY <1>3, <2>1 DEF ClientEof
    <3> QED BY <3>1, CloseOrder DEF Allowed
  <2>2. CASE ~(outq[c] = <<>> \/ c \in cerr)
    BY <1>1, <1>3, <2>2 DEF ClientEof, Seen
  <2> QED BY <2>1, <2>2
<1>4. ASSUME NEW c \in Client, ClientError(c)
      PROVE  ReplyOrder' /\ ClosedEmpty' /\ AskedReceived' /\ Allowed
  <2>1. /\ c \in open /\ nreq' = nreq /\ asked' = asked /\ got' = got
        /\ client_close(c, outq[c], live)
    BY <1>4 DEF ClientError
  <2> QED BY <2>1, CloseOrder DEF Allowed
<1>5. ASSUME NEW c \in Client, NEW k \in ReqKind, NEW nf \in 0..MaxFrag,
             ClientRecv(c, k, nf)
      PROVE  ReplyOrder' /\ ClosedEmpty' /\ AskedReceived' /\ Allowed
  BY <1>5, RecvOrder
<1>6. ASSUME NEW c \in Client, NEW r \in 0..Len(outq[c]), NEW k \in 0..r,
             NEW p \in BOOLEAN, ClientSend(c, r, k, p)
      PROVE  ReplyOrder' /\ ClosedEmpty' /\ AskedReceived' /\ Allowed
  <2>1. /\ c \in open /\ nreq' = nreq /\ asked' = asked
        /\ got' = [got EXCEPT ![c] = got[c] \o SubSeq(outq[c], 1, k)]
    BY <1>6 DEF ClientSend
  <2>2. k \in 0..Len(outq[c])
    BY LenProperties, SMTT(30) DEF OrderInv, TypeInv, Types
  <2>3. \/ /\ open' = open \ {c}
           /\ outq' = [outq EXCEPT ![c] = <<>>]
        \/ /\ open' = open
           /\ outq' = [outq EXCEPT ![c] = SubSeq(outq[c], k + 1, Len(outq[c]))]
    BY <1>6 DEF ClientSend, client_close
  <2> QED BY <2>1, <2>2, <2>3, SendOrder DEF Allowed
<1>7. ASSUME NEW s \in SConn, Forward(s) \/ ServerSend(s) PROVE UNCHANGED Seen
  BY <1>7 DEF Forward, ServerSend, Seen, cliVars, hisVars
<1>8. ForwardError => UNCHANGED Seen
  BY DEF ForwardError, Seen
<1>9. ASSUME NEW s \in SConn, NEW bad \in BOOLEAN, ServerRecv(s, bad)
      PROVE  UNCHANGED Seen
  BY <1>9 DEF ServerRecv, Seen
<1>10. ASSUME NEW s \in SConn, ServerError(s) PROVE UNCHANGED Seen
  BY <1>10 DEF ServerError, server_close, Seen
<1>11. ASSUME NEW m \in Msg, NEW s \in SConn, CoreTimeout(m, s)
       PROVE  UNCHANGED Seen
  BY <1>11 DEF CoreTimeout, server_close, Seen, msgVars, cliVars, hisVars
<1>12. CASE UNCHANGED vars
  BY <1>12 DEF vars, Seen, msgVars, cliVars, hisVars, Allowed, Service!vars, OrderInv,
               ReplyOrder, ClosedEmpty, AskedReceived
<1> QED
  BY <1>1, <1>2, <1>3, <1>4, <1>5, <1>6, <1>7, <1>8, <1>9, <1>10, <1>11, <1>12
     DEF Next, Callback

(* In every reachable state the replies a client has received, followed by *)
(* the requests it still waits for, are what it asked, in order.           *)
THEOREM RepliesInOrder == Spec => []ReplyOrder
<1>1. OrderInv => ReplyOrder
  BY DEF OrderInv
<1> QED BY <1>1, OrderInvInit, OrderStep, PTL DEF Spec

(* The pipeline implements the reply service: whatever the servers, the    *)
(* timeouts and the other clients do, a client sees replies in order, one  *)
(* for each request, until its connection is closed.                       *)
THEOREM PipelineImplementsService == Spec => ServiceSpec
<1>1. Init => Service!Init
  BY DEF Init, Service!Init
<1> QED BY <1>1, OrderInvInit, OrderStep, PTL
        DEF Spec, ServiceSpec, Service!Spec, Allowed

-----------------------------------------------------------------------------
(***************************************************************************)
(* Who holds a message: no message of Pipeline is used after it was freed, *)
(* and none is lost.  It rests on one equation: the allocated messages     *)
(* that are not done are those that wait on a server connection, each in   *)
(* one place, or are still to be forwarded.                                *)
(***************************************************************************)

(* Queues that hold nothing twice.                                         *)
Distinct(q) == \A i, j \in DOMAIN q : q[i] = q[j] => i = j

(* The empty queue.                                                        *)
LEMMA EmptyHolds ==
    ASSUME NEW S
    PROVE  <<>> \in Seq(S) /\ Range(<<>>) = {} /\ Distinct(<<>>)
BY SMT DEF Range, Distinct

(* Taking the head of a queue takes it out of the queue.                   *)
LEMMA TailHolds ==
    ASSUME NEW S, NEW q \in Seq(S), q # <<>>, Distinct(q)
    PROVE  /\ Head(q) \in Range(q)
           /\ Range(Tail(q)) = Range(q) \ {Head(q)}
           /\ Distinct(Tail(q))
<1>1. /\ Len(q) \in Nat /\ DOMAIN q = 1..Len(q) /\ Len(q) # 0
  BY LenProperties, EmptySeq
<1>2. /\ Head(q) = q[1] /\ Tail(q) \in Seq(S)
      /\ Len(Tail(q)) = Len(q) - 1 /\ \A i \in 1..Len(Tail(q)) : Tail(q)[i] = q[i + 1]
  BY HeadTailProperties, SMT
<1>3. DOMAIN Tail(q) = 1..(Len(q) - 1)
  BY <1>2, LenProperties
<1> DEFINE L == Len(q)
           t == Tail(q)
<1> HIDE DEF L, t
<1>4. /\ L \in Nat /\ L # 0 /\ DOMAIN q = 1..L /\ DOMAIN t = 1..(L - 1)
      /\ \A i \in 1..(L - 1) : t[i] = q[i + 1]
  BY <1>1, <1>2, <1>3 DEF L, t
<1>5. \A i \in 1..(L - 1) : i + 1 \in 1..L /\ i + 1 # 1
  BY <1>4, SMT
<1>6. \A i \in 1..L : i # 1 => i - 1 \in 1..(L - 1) /\ i = (i - 1) + 1
  BY <1>4, SMT
<1>7. 1 \in 1..L
  BY <1>4, SMT
<1>8. Distinct(t)
  <2> SUFFICES ASSUME NEW i \in 1..(L - 1), NEW j \in 1..(L - 1), t[i] = t[j]
               PROVE  i = j
    BY <1>4 DEF Distinct
  <2>1. i + 1 = j + 1
    BY <1>4, <1>5 DEF Distinct
  <2> QED BY <2>1, SMT
<1>9. \A x \in Range(t) : x \in Range(q) /\ x # q[1]
  BY <1>4, <1>5, <1>7, SMT DEF Range, Distinct
<1>10. \A x \in Range(q) : x # q[1] => x \in Range(t)
  <2> SUFFICES ASSUME NEW i \in 1..L, q[i] # q[1] PROVE q[i] \in Range(t)
    BY <1>4 DEF Range
  <2>1. t[i - 1] = q[i] /\ i - 1 \in DOMAIN t
    BY <1>4, <1>6
  <2> QED BY <2>1 DEF Range
<1>11. q[1] \in Range(q)
  BY <1>4, <1>7 DEF Range
<1> QED BY <1>2, <1>8, <1>9, <1>10, <1>11 DEF t

(* What is put into a queue is in it, behind what was there.               *)
LEMMA AppendHolds ==
    ASSUME NEW S, NEW q \in Seq(S), NEW x \in S
    PROVE  /\ Range(Append(q, x)) = Range(q) \cup {x}
           /\ Append(q, x) # <<>>
           /\ q # <<>> => Append(q, x)[1] = q[1]
           /\ q = <<>> => Append(q, x)[1] = x
           /\ Distinct(q) /\ x \notin Range(q) => Distinct(Append(q, x))
<1> DEFINE L == Len(q)
           t == Append(q, x)
<1>1. /\ L \in Nat /\ DOMAIN q = 1..L /\ (q # <<>> => L # 0) /\ (q = <<>> => L = 0)
  BY LenProperties, EmptySeq
<1>2. /\ t \in Seq(S) /\ Len(t) = L + 1 /\ t[L + 1] = x
      /\ \A i \in 1..L : t[i] = q[i]
  BY AppendProperties, SMT
<1>3. DOMAIN t = 1..(L + 1) /\ t # <<>>
  BY <1>1, <1>2, LenProperties, EmptySeq, SMT
<1> HIDE DEF L, t
<1>4. \A i \in 1..(L + 1) : i \in 1..L \/ i = L + 1
  BY <1>1, SMT
<1>5. \A i \in 1..L : i \in 1..(L + 1) /\ i # L + 1
  BY <1>1, SMT
<1>6. L + 1 \in 1..(L + 1)
  BY <1>1, SMT
<1>7. Range(t) = Range(q) \cup {x}
  BY <1>1, <1>2, <1>3, <1>4, <1>5, <1>6 DEF Range
<1>8. ASSUME Distinct(q), x \notin Range(q) PROVE Distinct(t)
  BY <1>1, <1>2, <1>3, <1>4, <1>8 DEF Range, Distinct
<1>9. (q # <<>> => t[1] = q[1]) /\ (q = <<>> => t[1] = x)
  BY <1>1, <1>2, SMT
<1> QED BY <1>3, <1>7, <1>8, <1>9 DEF t

(* What is left of a queue when the first k are taken.                     *)
Rest(q, k) == SubSeq(q, k + 1, Len(q))

LEMMA RestHolds ==
    ASSUME NEW q \in Seq(Req), NEW k \in 0..Len(q), Distinct(q)
    PROVE  /\ Rest(q, k) \in Seq(Req)
           /\ Range(Rest(q, k)) = Range(q) \ {q[i] : i \in 1..k}
           /\ Distinct(Rest(q, k))
           /\ Rest(q, k) # <<>> => k < Len(q) /\ Rest(q, k)[1] = q[k + 1]
<1> DEFINE u == Rest(q, k)
           S == Req
<1>0. u = SubSeq(q, k + 1, Len(q))
  BY DEF Rest
<1> HIDE DEF u
<1> DEFINE L == Len(q)
<1>1. L \in Nat /\ DOMAIN q = 1..L /\ k \in 0..L
  BY LenProperties
<1>2. \A i \in 1..L : q[i] \in S
  BY SMT
<1>3. \A i \in k + 1 .. L : q[i] \in S
  BY <1>1, <1>2, SMT
<1>4. /\ u \in Seq(S)
      /\ Len(u) = IF k + 1 <= L THEN L - (k + 1) + 1 ELSE 0
      /\ \A i \in 1 .. L - (k + 1) + 1 : u[i] = q[k + 1 + i - 1]
  BY <1>0, <1>1, <1>3, SubSeqProperties, SMTT(30)
<1>5. Len(u) = L - k /\ \A i \in 1..(L - k) : u[i] = q[k + i]
  <2> HIDE DEF L
  <2>1. L - (k + 1) + 1 = L - k /\ \A i \in Int : k + 1 + i - 1 = k + i
    BY <1>1, SMT
  <2>2. (IF k + 1 <= L THEN L - (k + 1) + 1 ELSE 0) = L - k
    BY <1>1, SMT
  <2> QED BY <1>4, <2>1, <2>2, SMT
<1>6. DOMAIN u = 1..(L - k)
  BY <1>4, <1>5, LenProperties
<1> HIDE DEF L
<1>7. \A i \in 1..(L - k) : k + i \in 1..L /\ k + i \notin 1..k
  BY <1>1, SMT
<1>8. \A i \in 1..L : i \notin 1..k => i - k \in 1..(L - k) /\ k + (i - k) = i
  BY <1>1, SMT
<1>9. 1..k \subseteq 1..L
  BY <1>1, SMT
<1>10. Distinct(u)
  <2> SUFFICES ASSUME NEW i \in 1..(L - k), NEW j \in 1..(L - k), u[i] = u[j]
               PROVE  i = j
    BY <1>6 DEF Distinct
  <2>1. k + i = k + j
    BY <1>1, <1>5, <1>7 DEF Distinct
  <2> QED BY <1>1, <2>1, SMT
<1>11. \A x \in Range(u) : x \in Range(q) /\ x \notin {q[i] : i \in 1..k}
  <2> SUFFICES ASSUME NEW i \in 1..(L - k)
               PROVE  u[i] \in Range(q) /\ \A j \in 1..k : u[i] # q[j]
    BY <1>6 DEF Range
  <2>1. u[i] = q[k + i] /\ k + i \in DOMAIN q /\ k + i \notin 1..k
    BY <1>1, <1>5, <1>7
  <2>2. \A j \in 1..k : j \in DOMAIN q /\ j # k + i
    BY <1>1, <1>9, <2>1
  <2> QED BY <2>1, <2>2 DEF Range, Distinct
<1>12. \A x \in Range(q) : x \notin {q[i] : i \in 1..k} => x \in Range(u)
  <2> SUFFICES ASSUME NEW i \in 1..L, i \notin 1..k PROVE q[i] \in Range(u)
    BY <1>1 DEF Range
  <2>1. i - k \in DOMAIN u /\ u[i - k] = q[i]
    BY <1>5, <1>6, <1>8
  <2> QED BY <2>1 DEF Range
<1>13. u # <<>> => k < L /\ u[1] = q[k + 1]
  <2> SUFFICES ASSUME u # <<>> PROVE k < L /\ u[1] = q[k + 1]
    OBVIOUS
  <2>1. Len(u) # 0
    BY <1>4, EmptySeq
  <2>2. k < L /\ 1 \in 1..(L - k)
    BY <1>1, <1>5, <2>1, SMT
  <2> QED BY <1>5, <2>2
<1> QED BY <1>4, <1>10, <1>11, <1>12, <1>13 DEF L, u

-----------------------------------------------------------------------------
(* The messages that req_recv_done() has still to forward, those that wait *)
(* for a server, and the requests whose client still queues them.          *)
Coming == {m \in Msg : /\ m[1] = fwd[1]
                       /\ IF fwd[2] = 0 THEN m[2] = 0
                          ELSE m[2] \in fwd[2]..nfrag[fwd[1]]}

Pending == {m \in Msg : m \in Coming \/ \E s \in SConn : m \in Waiting(s)}

Held(n) == n \in Range(outq[owner[n]])

(* Messages belong to requests that were received, and those to a client.  *)
KnownInv ==
    /\ \A m \in live \cup done \cup swallow : m[1] <= nreq
    /\ \A m \in live : m[2] > 0 => kind[m[1]] \in Vector
    /\ \A n \in fdone : n <= nreq
    /\ \A n \in 1..nreq : owner[n] \in Client
    /\ error \subseteq done
    /\ eof \subseteq open

ClientQueues ==
    \A c \in Client :
        /\ Distinct(outq[c])
        /\ \A n \in Range(outq[c]) : n <= nreq /\ owner[n] = c /\ kind[n] # "noreply"

ServerQueues ==
    /\ \A s \in SConn :
          /\ Distinct(inq[s]) /\ Distinct(svq[s])
          /\ Range(inq[s]) \cap Range(svq[s]) = {}
          /\ Waiting(s) \cap Coming = {}
          /\ \A m \in Range(svq[s]) : kind[m[1]] # "noreply"
    /\ \A s, t \in SConn : s # t => Waiting(s) \cap Waiting(t) = {}

(* The message at hand in req_recv_done() is one of those to forward.      *)
FwdInv == fwd = NullMsg \/ fwd \in Coming

(* The equation all else rests on.                                         *)
PendingInv == Pending = live \ done

(* What is done is kept for its client; what is not, for its client, to be *)
(* swallowed, or because it wants no reply.                                *)
HeldInv ==
    /\ \A m \in live : \/ Held(m[1])
                       \/ m \notin done /\ (m \in swallow \/ kind[m[1]] = "noreply")
    /\ \A m \in swallow : ~Held(m[1]) /\ m \notin Coming

FdoneInv == \A m \in live : m[1] \in fdone => m \in done

OwnInv == /\ KnownInv /\ ClientQueues /\ ServerQueues /\ FwdInv
          /\ PendingInv /\ HeldInv /\ FdoneInv

(* A message that is kept belongs to a request, which belongs to a client. *)
LEMMA KnownOwner ==
    ASSUME Types, KnownInv
    PROVE  \A m \in live \cup swallow :
             m \in Msg /\ m[1] \in Req /\ owner[m[1]] \in Client
<1>1. \A m \in live \cup swallow : m \in Msg /\ m[1] <= nreq
  BY DEF Types, KnownInv
<1>2. nreq \in 0..MaxReq /\ \A n \in 1..nreq : owner[n] \in Client
  BY DEF Types, KnownInv
<1>3. \A n \in Req : n <= nreq => n \in 1..nreq
  BY <1>2, ConstAssumption, SMT DEF Req
<1> QED BY <1>1, <1>2, <1>3, MsgFacts

(* The invariant says what the run checks.                                 *)
LEMMA OwnIsOwned ==
    ASSUME OrderInv, OwnInv
    PROVE  MessagesOwned
<1> USE DEF OrderInv, TypeInv, OwnInv
<1>1. \A m \in live : m \in Msg /\ m[1] \in Req /\ owner[m[1]] \in Client
  BY KnownOwner
<1>2. \A n \in Req : owner[n] \in Client /\ Held(n) => owner[n] \in open
  <2>1. Range(<<>>) = {}
    BY SMT DEF Range
  <2> QED BY <2>1 DEF Held, ClosedEmpty
<1>3. \A s \in SConn : \A m \in Waiting(s) : m \in live \ done
  <2> SUFFICES ASSUME NEW s \in SConn, NEW m \in Waiting(s) PROVE m \in Pending
    BY DEF PendingInv
  <2>1. inq[s] \in Seq(Msg) /\ svq[s] \in Seq(Msg)
    BY DEF Types
  <2>2. m \in Msg
    BY <2>1, RangeType DEF Waiting
  <2> QED BY <2>2 DEF Pending
<1>4. WaitingIsOwned
  BY <1>1, <1>2, <1>3 DEF WaitingIsOwned, HeldInv, Held
<1>5. NoLeak
  <2> SUFFICES ASSUME NEW m \in live, ~\E s \in SConn : m \in Waiting(s)
               PROVE  /\ m \notin swallow
                      /\ m[1] = fwd[1] \/ \E c \in open : m[1] \in Range(outq[c])
    BY DEF NoLeak
  <2>1. CASE m \in done
    BY <1>1, <1>2, <2>1 DEF HeldInv, Held
  <2>2. CASE m \notin done
    <3>1. m \in Coming
      BY <2>2 DEF PendingInv, Pending
    <3> QED BY <3>1 DEF HeldInv, Coming
  <2> QED BY <2>1, <2>2
<1> QED BY <1>4, <1>5 DEF MessagesOwned

LEMMA OwnInit == Init => OwnInv
<1> SUFFICES ASSUME Init PROVE OwnInv
  OBVIOUS
<1>1. Range(<<>>) = {} /\ Distinct(<<>>)
  BY SMT DEF Range, Distinct
<1>2. /\ outq = [c \in Client |-> <<>>] /\ inq = [s \in SConn |-> <<>>]
      /\ svq = [s \in SConn |-> <<>>] /\ fwd = NullMsg /\ nreq = 0
      /\ live = {} /\ done = {} /\ swallow = {} /\ fdone = {} /\ error = {}
      /\ eof = {}
  BY DEF Init
<1>3. Coming = {}
  BY <1>2, MsgFacts, SMT DEF Coming, NullMsg, Req
<1>4. \A s \in SConn : Waiting(s) = {}
  BY <1>1, <1>2 DEF Waiting
<1>5. KnownInv /\ ClientQueues
  BY <1>1, <1>2, SMT DEF KnownInv, ClientQueues
<1>6. ServerQueues
  BY <1>1, <1>2, <1>3, <1>4 DEF ServerQueues
<1>7. PendingInv
  BY <1>2, <1>3, <1>4 DEF PendingInv, Pending
<1>8. HeldInv /\ FdoneInv /\ FwdInv
  BY <1>2 DEF HeldInv, FdoneInv, FwdInv
<1> QED BY <1>5, <1>6, <1>7, <1>8 DEF OwnInv

(* Nothing is to be forwarded between two callbacks.                       *)
LEMMA NothingComes ==
    ASSUME fwd = NullMsg PROVE Coming = {}
BY MsgFacts, SMT DEF Coming, NullMsg, Req

(***************************************************************************)
(* A client's queue q shrinks to what is still to be answered, lv is what  *)
(* stays allocated, all of it before the connection is closed: either way  *)
(* the invariant is kept.                                                  *)
(***************************************************************************)
Shrunk(c, q, lv) ==
    /\ q \in Seq(Req) /\ Distinct(q) /\ Range(q) \subseteq Range(outq[c])
    /\ lv \subseteq live /\ live \ lv \subseteq done
    /\ \A m \in lv : m[1] \in Range(outq[c]) => m[1] \in Range(q)

ClientOnly ==
    /\ nreq' = nreq /\ kind' = kind /\ nfrag' = nfrag /\ owner' = owner
    /\ done' = done /\ error' = error /\ fwd' = fwd
    /\ inq' = inq /\ svq' = svq

(* fdone grows by vectors whose fragments are all done.                    *)
FoundDone(dn) ==
    /\ \A m \in live : m[1] \in fdone' => m \in dn
    /\ \A n \in fdone' : n <= nreq

LEMMA CloseOwn ==
    ASSUME OrderInv, OwnInv, NEW c \in Client, NEW q, NEW lv, fwd = NullMsg,
           Shrunk(c, q, lv), client_close(c, q, lv), ClientOnly, FoundDone(done)
    PROVE  OwnInv'
<1> USE DEF OrderInv, TypeInv, OwnInv
<1>0. Coming = {} /\ Coming' = {}
  BY NothingComes DEF Coming, ClientOnly
<1>1. /\ outq' = [outq EXCEPT ![c] = <<>>] /\ eof' = eof \ {c} /\ open' = open \ {c}
      /\ live' = lv \ (Queued(q, lv) \cap done)
      /\ swallow' = swallow \cup (Queued(q, lv) \ done)
  BY DEF client_close
<1>2. /\ outq \in [Client -> Seq(Req)] /\ Range(<<>>) = {} /\ Distinct(<<>>)
      /\ Range(outq'[c]) = {} /\ Distinct(outq'[c])
      /\ \A d \in Client : d # c => outq'[d] = outq[d]
  <2>1. outq \in [Client -> Seq(Req)]
    BY DEF Types
  <2> QED BY <1>1, <2>1, EmptyHolds
<1>3. \A m \in live : m \in Msg /\ m[1] \in Req /\ owner[m[1]] \in Client
  BY KnownOwner
<1>4. KnownInv'
  BY <1>1, <1>3 DEF KnownInv, ClientOnly, FoundDone, Shrunk, Queued
<1>5. ClientQueues'
  BY <1>2 DEF ClientQueues, ClientOnly
<1>6. ServerQueues'
  BY <1>0 DEF ServerQueues, ClientOnly, Waiting
<1>7. PendingInv'
  <2>1. Pending' = Pending
    BY <1>0 DEF Pending, Waiting, ClientOnly
  <2>2. live' \ done = live \ done
    BY <1>1 DEF Shrunk
  <2> QED BY <2>1, <2>2 DEF PendingInv, ClientOnly
<1>8. \A n \in Req : owner[n] \in Client /\ owner[n] # c => (Held(n)' <=> Held(n))
  BY <1>2 DEF Held, ClientOnly
<1>9. \A n \in Req : owner[n] = c => ~Held(n)'
  BY <1>2 DEF Held, ClientOnly
<1>10. HeldInv'
  <2>1. ASSUME NEW m \in live'
        PROVE  \/ Held(m[1])'
               \/ m \notin done /\ (m \in swallow' \/ kind[m[1]] = "noreply")
    <3>1. m \in lv /\ m \in live
      BY <1>1 DEF Shrunk
    <3>2. CASE owner[m[1]] # c
      BY <1>1, <1>3, <1>8, <3>1, <3>2 DEF HeldInv
    <3>3. CASE owner[m[1]] = c /\ Held(m[1])
      <4>1. m \in Queued(q, lv)
        BY <3>1, <3>3 DEF Held, Shrunk, Queued
      <4> QED BY <1>1, <4>1
    <3>4. CASE owner[m[1]] = c /\ ~Held(m[1])
      BY <1>1, <3>1, <3>4 DEF HeldInv
    <3> QED BY <3>2, <3>3, <3>4
  <2>2. ASSUME NEW m \in swallow' PROVE ~Held(m[1])'
    <3>1. CASE m \in swallow
      <4>1. m[1] \in Req /\ owner[m[1]] \in Client
        BY <3>1, KnownOwner
      <4> QED BY <1>8, <1>9, <3>1, <4>1 DEF HeldInv
    <3>2. CASE m \in Queued(q, lv)
      <4>1. m \in live /\ m[1] \in Range(outq[c])
        BY <3>2 DEF Queued, Shrunk
      <4>2. owner[m[1]] = c
        BY <4>1 DEF ClientQueues
      <4> QED BY <1>3, <1>9, <4>1, <4>2
    <3> QED BY <1>1, <3>1, <3>2
  <2> QED BY <1>0, <2>1, <2>2 DEF HeldInv, ClientOnly
<1>11. FdoneInv'
  BY <1>1 DEF FdoneInv, FoundDone, ClientOnly, Shrunk
<1>12. FwdInv'
  BY DEF FwdInv, ClientOnly
<1> QED BY <1>4, <1>5, <1>6, <1>7, <1>10, <1>11, <1>12

LEMMA ShrinkOwn ==
    ASSUME OrderInv, OwnInv, NEW c \in Client, NEW q, NEW lv, fwd = NullMsg,
           Shrunk(c, q, lv), ClientOnly, FoundDone(done),
           live' = lv, swallow' = swallow, eof' = eof, open' = open,
           outq' = [outq EXCEPT ![c] = q]
    PROVE  OwnInv'
<1> USE DEF OrderInv, TypeInv, OwnInv
<1>0. Coming = {} /\ Coming' = {}
  BY NothingComes DEF Coming, ClientOnly
<1>2. /\ outq \in [Client -> Seq(Req)] /\ outq'[c] = q
      /\ \A d \in Client : d # c => outq'[d] = outq[d]
  BY DEF Types
<1>3. \A m \in live : m \in Msg /\ m[1] \in Req /\ owner[m[1]] \in Client
  BY KnownOwner
<1>4. KnownInv'
  BY <1>3 DEF KnownInv, ClientOnly, FoundDone, Shrunk
<1>5. ClientQueues'
  <2> SUFFICES ASSUME NEW d \in Client
               PROVE  /\ Distinct(outq'[d])
                      /\ \A n \in Range(outq'[d]) : n <= nreq /\ owner[n] = d /\ kind[n] # "noreply"
    BY DEF ClientQueues, ClientOnly
  <2> QED BY <1>2 DEF ClientQueues, Shrunk
<1>6. ServerQueues'
  BY <1>0 DEF ServerQueues, ClientOnly, Waiting
<1>7. PendingInv'
  <2>1. Pending' = Pending
    BY <1>0 DEF Pending, Waiting, ClientOnly
  <2>2. live' \ done = live \ done
    BY DEF Shrunk
  <2> QED BY <2>1, <2>2 DEF PendingInv, ClientOnly
<1>8. \A n \in Req : owner[n] \in Client => (Held(n)' => Held(n))
  BY <1>2 DEF Held, ClientOnly, Shrunk
<1>9. \A m \in lv : Held(m[1]) => Held(m[1])'
  BY <1>2, <1>3 DEF Held, ClientOnly, Shrunk
<1>10. HeldInv'
  <2>1. ASSUME NEW m \in lv
        PROVE  \/ Held(m[1])'
               \/ m \notin done /\ (m \in swallow \/ kind[m[1]] = "noreply")
    BY <1>9 DEF HeldInv, Shrunk
  <2>2. ASSUME NEW m \in swallow PROVE ~Held(m[1])'
    <3>1. m[1] \in Req /\ owner[m[1]] \in Client
      BY KnownOwner
    <3> QED BY <1>8, <3>1 DEF HeldInv
  <2> QED BY <1>0, <2>1, <2>2 DEF HeldInv, ClientOnly
<1>11. FdoneInv'
  BY DEF FdoneInv, FoundDone, ClientOnly, Shrunk
<1>12. FwdInv'
  BY DEF FwdInv, ClientOnly
<1> QED BY <1>4, <1>5, <1>6, <1>7, <1>10, <1>11, <1>12

(* A request that is found done has no message left that is not.           *)
LEMMA DoneWhole ==
    ASSUME OrderInv, OwnInv, NEW dn, NEW nd, NEW n \in Req, req_done(n, dn, nd),
           done \subseteq dn, NEW m \in live, m[1] = n
    PROVE  m \in dn
<1>1. m \in Msg
  BY DEF OrderInv, TypeInv, Types
<1>2. m = <<n, m[2]>> /\ m[2] \in 0..MaxFrag /\ m[1] = n
  BY <1>1, MsgFacts
<1>3. CASE m[2] = 0
  BY <1>2, <1>3 DEF req_done, Top
<1>4. CASE m[2] # 0
  <2>1. m[2] > 0
    BY <1>2, <1>4, ConstAssumption, SMTT(30)
  <2>2. kind[n] \in Vector
    BY <2>1 DEF OwnInv, KnownInv
  <2>3. m \in Frags(n)
    BY <2>1 DEF Frags
  <2> QED BY <2>2, <2>3 DEF req_done, OwnInv, FdoneInv
<1> QED BY <1>3, <1>4

(* What is sent is a part of what is done, and that a part of the queue.   *)
LEMMA Subranges ==
    ASSUME NEW l \in Nat, NEW r \in 0..l, NEW k \in 0..r
    PROVE  1..r \subseteq 1..l /\ 1..k \subseteq 1..r /\ k \in 0..l
BY SMT

(* What msg_send() on a client connection builds its chain from.           *)
LEMMA SendShrinks ==
    ASSUME OrderInv, OwnInv, NEW c \in Client, NEW r \in 0..Len(outq[c]), NEW k \in 0..r,
           \A i \in 1..r : req_done(outq[c][i], done, nfrag_done),
           NEW ready, ready = {outq[c][i] : i \in 1..r},
           NEW left, left = {m \in live : IF m[2] > 0 THEN m[1] \notin ready
                                 ELSE \A i \in 1..k : m[1] # outq[c][i]},
           NEW rest, rest = SubSeq(outq[c], k + 1, Len(outq[c]))
    PROVE  /\ Shrunk(c, rest, left)
           /\ ready \subseteq Req /\ ready \subseteq Range(outq[c])
           /\ \A m \in live : m[1] \in ready => m \in done
<1>1. outq[c] \in Seq(Req) /\ Distinct(outq[c])
  BY DEF OrderInv, TypeInv, Types, OwnInv, ClientQueues
<1>2. /\ Len(outq[c]) \in Nat /\ DOMAIN outq[c] = 1..Len(outq[c])
  BY <1>1, LenProperties
<1>3. 1..r \subseteq 1..Len(outq[c]) /\ 1..k \subseteq 1..r /\ k \in 0..Len(outq[c])
  BY <1>2, Subranges
<1>4. ready \subseteq Range(outq[c]) /\ Range(outq[c]) \subseteq Req
  BY <1>1, <1>2, <1>3, RangeType DEF Range
<1>5. \A m \in live : m[1] \in ready => m \in done
  BY <1>4, DoneWhole
<1>6. /\ rest \in Seq(Req) /\ Range(rest) = Range(outq[c]) \ {outq[c][i] : i \in 1..k}
      /\ Distinct(rest)
  <2> DEFINE q == outq[c]
  <2> HIDE DEF q
  <2>1. q \in Seq(Req) /\ k \in 0..Len(q) /\ Distinct(q) /\ rest = SubSeq(q, k + 1, Len(q))
    BY <1>1, <1>3 DEF q
  <2>2. rest = Rest(q, k)
    BY <2>1 DEF Rest
  <2>3. rest \in Seq(Req) /\ Range(rest) = Range(q) \ {q[i] : i \in 1..k} /\ Distinct(rest)
    BY <2>1, <2>2, RestHolds
  <2> QED BY <2>3 DEF q
<1>7. {outq[c][i] : i \in 1..k} \subseteq ready
  BY <1>3
<1>8. live \ left \subseteq done
  BY <1>5, <1>7
<1>9. \A m \in left : m[1] \in Range(outq[c]) => m[1] \in Range(rest)
  BY <1>6, <1>7
<1> QED BY <1>4, <1>5, <1>6, <1>8, <1>9 DEF Shrunk

LEMMA ClientSendOwn ==
    ASSUME OrderInv, OwnInv, NEW c \in Client, NEW r \in 0..Len(outq[c]), NEW k \in 0..r,
           NEW p, ClientSend(c, r, k, p), fwd = NullMsg
    PROVE  OwnInv'
<1> DEFINE ready == {outq[c][i] : i \in 1..r}
           new == Completed(ready, done, nfrag_done)
           left == {m \in live : IF m[2] > 0 THEN m[1] \notin ready
                                 ELSE \A i \in 1..k : m[1] # outq[c][i]}
           rest == SubSeq(outq[c], k + 1, Len(outq[c]))
<1>1. \A i \in 1..r : req_done(outq[c][i], done, nfrag_done)
  BY DEF ClientSend
<1>2. /\ Shrunk(c, rest, left) /\ ready \subseteq Range(outq[c])
      /\ \A m \in live : m[1] \in ready => m \in done
  BY <1>1, SendShrinks
<1>3. ClientOnly
  BY DEF ClientSend, ClientOnly
<1>4. fdone' = fdone \cup new /\ new \subseteq ready
  BY DEF ClientSend, Completed
<1>5. \/ client_close(c, rest, left)
      \/ /\ live' = left /\ outq' = [outq EXCEPT ![c] = rest]
         /\ swallow' = swallow /\ open' = open /\ eof' = eof
  BY DEF ClientSend
<1> HIDE DEF ready, new, left, rest
<1>6. FoundDone(done)
  BY <1>2, <1>4 DEF FoundDone, OwnInv, FdoneInv, KnownInv, ClientQueues
<1> QED BY <1>2, <1>3, <1>5, <1>6, CloseOwn, ShrinkOwn

(* The client closes, or its connection fails: nothing was written.        *)
LEMMA WholeQueue ==
    ASSUME OrderInv, OwnInv, NEW c \in Client
    PROVE  Shrunk(c, outq[c], live)
BY DEF Shrunk, OrderInv, TypeInv, Types, OwnInv, ClientQueues

LEMMA ClientCloseOwn ==
    ASSUME OrderInv, OwnInv, NEW c \in Client, fwd = NullMsg,
           client_close(c, outq[c], live), ClientOnly, fdone' = fdone
    PROVE  OwnInv'
<1>1. FoundDone(done)
  BY DEF FoundDone, OwnInv, FdoneInv, KnownInv
<1> QED BY <1>1, WholeQueue, CloseOwn

(***************************************************************************)
(* The server side: messages F are done, messages G freed, neither of them *)
(* is pending any more, and nothing else changes hands.                    *)
(***************************************************************************)
Settled(F, G) ==
    /\ nreq' = nreq /\ kind' = kind /\ owner' = owner
    /\ swallow' = swallow /\ outq' = outq /\ open' = open /\ eof' = eof
    /\ live' = live \ G
    /\ done \cup F \subseteq done' /\ done' \subseteq done \cup F \cup G
    /\ error' \subseteq error \cup done'
    /\ Coming' \subseteq Coming
    /\ Pending' = Pending \ (F \cup G)
    /\ F \cup G \subseteq Pending
    /\ \A m \in F : m \notin swallow /\ kind[m[1]] # "noreply"

LEMMA SettledOwn ==
    ASSUME OrderInv, OwnInv, NEW F, NEW G, Settled(F, G), FoundDone(done')
    PROVE  KnownInv' /\ ClientQueues' /\ PendingInv' /\ HeldInv' /\ FdoneInv'
<1> USE DEF OrderInv, TypeInv, OwnInv
<1>1. \A m \in F \cup G : m \in live /\ m \notin done
  BY DEF Settled, PendingInv
<1>2. KnownInv'
  <2>1. \A m \in live' \cup done' \cup swallow' : m[1] <= nreq
    BY <1>1 DEF KnownInv, Settled
  <2>2. error' \subseteq done'
    BY DEF KnownInv, Settled
  <2> QED BY <2>1, <2>2 DEF KnownInv, Settled, FoundDone
<1>3. ClientQueues'
  BY DEF ClientQueues, Settled
<1>4. PendingInv'
  BY <1>1 DEF PendingInv, Settled
<1>5. \A n : Held(n)' <=> Held(n)
  BY DEF Held, Settled
<1>6. HeldInv'
  <2>1. ASSUME NEW m \in live'
        PROVE  \/ Held(m[1])'
               \/ m \notin done' /\ (m \in swallow \/ kind[m[1]] = "noreply")
    <3>1. m \in live /\ m \notin G
      BY DEF Settled
    <3>2. CASE m \in F
      BY <1>5, <3>1, <3>2 DEF HeldInv, Settled
    <3>3. CASE m \notin F
      <4>1. m \in done' => m \in done
        BY <3>1, <3>3 DEF Settled
      <4> QED BY <1>5, <3>1, <4>1 DEF HeldInv
    <3> QED BY <3>2, <3>3
  <2>2. \A m \in swallow : ~Held(m[1])' /\ m \notin Coming'
    BY <1>5 DEF HeldInv, Settled
  <2> QED BY <2>1, <2>2 DEF HeldInv, Settled
<1>7. FdoneInv'
  BY DEF FdoneInv, FoundDone, Settled
<1> QED BY <1>2, <1>3, <1>4, <1>6, <1>7

(* A queue's first element is one of its elements.                         *)
LEMMA HeadHeld ==
    ASSUME OrderInv, NEW c \in Client, outq[c] # <<>>
    PROVE  outq[c][1] \in Range(outq[c]) /\ outq[c][1] \in Req
<1>1. outq[c] \in Seq(Req)
  BY DEF OrderInv, TypeInv, Types
<1>2. Len(outq[c]) \in Nat /\ DOMAIN outq[c] = 1..Len(outq[c]) /\ Len(outq[c]) # 0
  BY <1>1, LenProperties, EmptySeq
<1>3. 1 \in DOMAIN outq[c]
  BY <1>2, SMT
<1> QED BY <1>1, <1>3, RangeType DEF Range

(* A vector that is found done when a client is notified is done.          *)
LEMMA NotifyFound ==
    ASSUME OrderInv, OwnInv, NEW C, C \subseteq Client, NEW dn, NEW nd, NEW pr,
           done \subseteq dn, Notify(C, dn, nd, pr)
    PROVE  FoundDone(dn)
<1> DEFINE new == Completed(Heads(C), dn, nd)
<1>1. fdone' = fdone \cup new
  BY DEF Notify
<1>2. \A n \in new : n \in Req /\ n <= nreq /\ req_done(n, dn, nd)
  <2> SUFFICES ASSUME NEW c \in C, outq[c] # <<>> PROVE outq[c][1] \in Req /\ outq[c][1] <= nreq
    BY DEF Completed, Heads
  <2> QED BY HeadHeld DEF OwnInv, ClientQueues
<1> HIDE DEF new
<1>3. \A m \in live : m[1] \in new => m \in dn
  BY <1>2, DoneWhole
<1> QED BY <1>1, <1>2, <1>3 DEF FoundDone, OwnInv, FdoneInv, KnownInv

LEMMA StillFound ==
    ASSUME OwnInv, fdone' = fdone, NEW dn, done \subseteq dn
    PROVE  FoundDone(dn)
BY DEF FoundDone, OwnInv, FdoneInv, KnownInv

(* The forwarding loop goes on to the next fragment.                       *)
LEMMA NextComes ==
    ASSUME OrderInv, OwnInv, fwd # NullMsg, fwd' = NextFwd, nfrag' = nfrag
    PROVE  /\ fwd \in Coming /\ fwd \in Msg /\ Coming' = Coming \ {fwd} /\ FwdInv'
<1>1. fwd \in Coming /\ fwd \in Msg
  BY DEF OwnInv, FwdInv, Coming
<1> DEFINE n == fwd[1]
           i == fwd[2]
           f == nfrag[n]
<1>2. fwd = <<n, i>> /\ n \in Req /\ i \in Nat
  BY <1>1, MsgFacts, ConstAssumption, SMTT(30)
<1>3. f \in Nat
  BY <1>2, ConstAssumption, SMTT(30) DEF OrderInv, TypeInv, Types
<1>4. i = 0 \/ i <= f
  BY <1>1, <1>2, <1>3, SMT DEF Coming
<1>5. \A m \in Msg : m = <<m[1], m[2]>> /\ m[1] \in Req /\ m[2] \in Nat
  BY MsgFacts, ConstAssumption, SMT
<1>6. Coming = {m \in Msg : m[1] = n /\ IF i = 0 THEN m[2] = 0 ELSE m[2] \in i..f}
  BY DEF Coming
<1>7. CASE i > 0 /\ i < f
  <2>1. fwd' = <<n, i + 1>>
    BY <1>7 DEF NextFwd
  <2>2. Coming' = {m \in Msg : m[1] = n /\ m[2] \in (i + 1)..f}
    <3>1. fwd'[1] = n /\ fwd'[2] = i + 1 /\ i + 1 # 0
      BY <1>2, <2>1, SMTT(30)
    <3> HIDE DEF n, i
    <3> QED BY <3>1 DEF Coming
  <2> HIDE DEF n, i, f
  <2>3. Coming' = Coming \ {fwd}
    <3>1. \A m \in Msg : m = fwd <=> m[1] = n /\ m[2] = i
      BY <1>2, <1>5
    <3>2. \A j \in Nat : j \in (i + 1)..f <=> j \in i..f /\ j # i
      BY <1>2, <1>3, <1>7, SMT
    <3>3. i # 0
      BY <1>7, SMT
    <3> QED BY <1>5, <1>6, <2>2, <3>1, <3>2, <3>3
  <2>4. fwd' \in Coming'
    <3>1. <<n, i + 1>> \in Msg
      <4>1. f <= MaxFrag
        BY <1>2, ConstAssumption, SMTT(30) DEF OrderInv, TypeInv, Types, f
      <4> QED BY <1>2, <1>3, <1>7, <4>1, ConstAssumption, SMTT(30) DEF Msg
    <3>2. i + 1 \in (i + 1)..f
      BY <1>2, <1>3, <1>7, SMT
    <3> QED BY <2>1, <2>2, <3>1, <3>2, SMT
  <2> QED BY <1>1, <2>3, <2>4 DEF FwdInv
<1>8. CASE ~(i > 0 /\ i < f)
  <2>1. fwd' = NullMsg
    BY <1>8 DEF NextFwd
  <2>2. Coming' = {}
    BY <2>1, MsgFacts, SMTT(30) DEF Coming, NullMsg, Req
  <2> HIDE DEF n, i, f
  <2>3. i = 0 \/ i = f
    BY <1>2, <1>3, <1>4, <1>8, SMTT(30)
  <2>4. \A m \in Coming : m[1] = n /\ m[2] = i
    BY <1>2, <1>3, <1>5, <1>6, <2>3, SMTT(30)
  <2>5. \A m \in Coming : m \in Msg
    BY <1>6
  <2>6. \A m \in Coming : m = fwd
    BY <1>2, <1>5, <2>4, <2>5
  <2> QED BY <1>1, <2>1, <2>2, <2>6 DEF FwdInv
<1> QED BY <1>7, <1>8

(* What waits is a message, and the pending ones are live and not done.    *)
LEMMA PendingFacts ==
    ASSUME OrderInv, OwnInv
    PROVE  /\ \A s \in SConn : /\ inq[s] \in Seq(Msg) /\ svq[s] \in Seq(Msg)
                               /\ Waiting(s) \subseteq Msg /\ Waiting(s) \subseteq Pending
           /\ Coming \subseteq Pending
           /\ \A m \in Pending : m \in live /\ m \notin done
           /\ \A m \in Pending : m[1] \in Req /\ owner[m[1]] \in Client
<1> USE DEF OrderInv, TypeInv, OwnInv
<1>1. \A s \in SConn : inq[s] \in Seq(Msg) /\ svq[s] \in Seq(Msg)
  BY DEF Types
<1>2. \A s \in SConn : Waiting(s) \subseteq Msg
  BY <1>1, RangeType DEF Waiting
<1>3. (\A s \in SConn : Waiting(s) \subseteq Pending) /\ Coming \subseteq Pending
  BY <1>2 DEF Pending, Coming
<1>4. \A m \in Pending : m \in live /\ m \notin done
  BY DEF PendingInv
<1>5. \A m \in Pending : m[1] \in Req /\ owner[m[1]] \in Client
  BY <1>4, KnownOwner
<1> QED BY <1>1, <1>2, <1>3, <1>4, <1>5

(* Requests without a reply are in no client's queue.                      *)
LEMMA NoReplyNotHeld ==
    ASSUME OrderInv, OwnInv, NEW m \in live, m \in swallow \/ kind[m[1]] = "noreply"
    PROVE  ~Held(m[1])
<1>1. owner[m[1]] \in Client
  BY KnownOwner DEF OrderInv, TypeInv, OwnInv
<1> QED BY <1>1 DEF OwnInv, HeldInv, ClientQueues, Held

(***************************************************************************)
(* The queues of server connection s change and those of the others do     *)
(* not; W is what waits on s afterwards.                                   *)
(***************************************************************************)
LEMMA QueuesKept ==
    ASSUME ServerQueues, NEW s \in SConn, kind' = kind,
           inq \in [SConn -> Seq(Msg)], svq \in [SConn -> Seq(Msg)],
           NEW q \in Seq(Msg), NEW v \in Seq(Msg),
           inq' = [inq EXCEPT ![s] = q], svq' = [svq EXCEPT ![s] = v],
           Distinct(q), Distinct(v), Range(q) \cap Range(v) = {},
           \A m \in Range(v) : kind[m[1]] # "noreply",
           Coming' \subseteq Coming, (Range(q) \cup Range(v)) \cap Coming' = {},
           Range(q) \cup Range(v) \subseteq Waiting(s) \cup Coming
    PROVE  /\ ServerQueues'
           /\ Waiting(s)' = Range(q) \cup Range(v)
           /\ \A t \in SConn : t # s => Waiting(t)' = Waiting(t)
<1>1. /\ inq'[s] = q /\ svq'[s] = v
      /\ \A t \in SConn : t # s => inq'[t] = inq[t] /\ svq'[t] = svq[t]
  OBVIOUS
<1>2. /\ Waiting(s)' = Range(q) \cup Range(v)
      /\ \A t \in SConn : t # s => Waiting(t)' = Waiting(t)
  BY <1>1 DEF Waiting
<1>3. ASSUME NEW t \in SConn
      PROVE  /\ Distinct(inq'[t]) /\ Distinct(svq'[t])
             /\ Range(inq'[t]) \cap Range(svq'[t]) = {}
             /\ Waiting(t)' \cap Coming' = {}
             /\ \A m \in Range(svq'[t]) : kind[m[1]] # "noreply"
  <2>1. CASE t = s
    BY <1>1, <1>2, <2>1
  <2>2. CASE t # s
    <3>1. /\ Distinct(inq[t]) /\ Distinct(svq[t]) /\ Range(inq[t]) \cap Range(svq[t]) = {}
          /\ Waiting(t) \cap Coming = {} /\ \A m \in Range(svq[t]) : kind[m[1]] # "noreply"
      BY DEF ServerQueues
    <3>2. inq'[t] = inq[t] /\ svq'[t] = svq[t] /\ Waiting(t)' = Waiting(t)
      BY <1>1, <1>2, <2>2
    <3> QED BY <3>1, <3>2
  <2> QED BY <2>1, <2>2
<1>4. ASSUME NEW t \in SConn, NEW x \in SConn, t # x
      PROVE  Waiting(t)' \cap Waiting(x)' = {}
  <2>1. \A y \in SConn : y # s => Waiting(y) \cap (Waiting(s) \cup Coming) = {}
    BY DEF ServerQueues
  <2>2. Waiting(s)' \subseteq Waiting(s) \cup Coming
    BY <1>2
  <2>3. CASE t = s
    BY <1>2, <1>4, <2>1, <2>2, <2>3
  <2>4. CASE x = s
    BY <1>2, <1>4, <2>1, <2>2, <2>4
  <2>5. CASE t # s /\ x # s
    <3>1. Waiting(t) \cap Waiting(x) = {}
      BY <1>4 DEF ServerQueues
    <3> QED BY <1>2, <2>5, <3>1
  <2> QED BY <2>3, <2>4, <2>5
<1>5. \A t \in SConn :
          /\ Distinct(inq'[t]) /\ Distinct(svq'[t])
          /\ Range(inq'[t]) \cap Range(svq'[t]) = {}
          /\ Waiting(t)' \cap Coming' = {}
          /\ \A m \in Range(svq'[t]) : kind'[m[1]] # "noreply"
  BY <1>3
<1>6. \A t, x \in SConn : t # x => Waiting(t)' \cap Waiting(x)' = {}
  BY <1>4
<1>7. ServerQueues'
  BY <1>5, <1>6 DEF ServerQueues
<1> QED BY <1>2, <1>7

(* One of the pending messages leaves; no other place changes.             *)
LEMMA PendingMoves ==
    ASSUME NEW s \in SConn, NEW X, NEW W,
           Waiting(s)' = W, \A t \in SConn : t # s => Waiting(t)' = Waiting(t),
           \A t \in SConn : t # s => Waiting(t) \cap X = {},
           (Coming' \cup W) = (Coming \cup Waiting(s)) \ X,
           \A t \in SConn : t # s => Waiting(t) \cap (Coming \cup Waiting(s)) = {}
    PROVE  Pending' = Pending \ X
<1>1. \A m \in Msg : (\E t \in SConn : m \in Waiting(t)') <=>
                     (m \in W \/ \E t \in SConn : t # s /\ m \in Waiting(t))
  OBVIOUS
<1>2. \A m \in Msg : (\E t \in SConn : m \in Waiting(t)) <=>
                     (m \in Waiting(s) \/ \E t \in SConn : t # s /\ m \in Waiting(t))
  OBVIOUS
<1>3. Pending' = {m \in Msg : m \in Coming' \/ \E t \in SConn : m \in Waiting(t)'}
  BY DEF Pending
<1> QED BY <1>1, <1>2, <1>3 DEF Pending

LEMMA ForwardOwn ==
    ASSUME OrderInv, OwnInv, NEW s \in SConn, Forward(s)
    PROVE  OwnInv'
<1>1. /\ fwd # NullMsg /\ fwd' = NextFwd
      /\ inq' = [inq EXCEPT ![s] = Append(inq[s], fwd)] /\ svq' = svq
      /\ nreq' = nreq /\ kind' = kind /\ nfrag' = nfrag /\ owner' = owner
      /\ live' = live /\ done' = done /\ error' = error /\ swallow' = swallow
      /\ fdone' = fdone /\ outq' = outq /\ open' = open /\ eof' = eof
  BY DEF Forward, enqueue, cliVars
<1>2. /\ fwd \in Coming /\ fwd \in Msg /\ Coming' = Coming \ {fwd} /\ FwdInv'
  BY <1>1, NextComes
<1>3. /\ inq \in [SConn -> Seq(Msg)] /\ svq \in [SConn -> Seq(Msg)]
      /\ inq[s] \in Seq(Msg) /\ svq[s] \in Seq(Msg)
  BY DEF OrderInv, TypeInv, Types
<1>4. /\ ServerQueues /\ Distinct(inq[s]) /\ Distinct(svq[s])
      /\ Range(inq[s]) \cap Range(svq[s]) = {} /\ Waiting(s) \cap Coming = {}
      /\ \A m \in Range(svq[s]) : kind[m[1]] # "noreply"
      /\ \A t \in SConn : t # s => Waiting(t) \cap (Coming \cup Waiting(s)) = {}
  BY DEF OwnInv, ServerQueues
<1> DEFINE q == Append(inq[s], fwd)
           v == svq[s]
<1>5. /\ Range(q) = Range(inq[s]) \cup {fwd} /\ q \in Seq(Msg)
      /\ fwd \notin Range(inq[s]) /\ fwd \notin Range(svq[s]) /\ Distinct(q)
  BY <1>2, <1>3, <1>4, AppendHolds, AppendProperties, SMTT(30) DEF Waiting
<1>6. svq' = [svq EXCEPT ![s] = v]
  BY <1>1, <1>3
<1> HIDE DEF q, v
<1>7. inq' = [inq EXCEPT ![s] = q] /\ v = svq[s]
  BY <1>1 DEF q, v
<1>8. Waiting(s) = Range(inq[s]) \cup Range(v)
  BY <1>7 DEF Waiting
<1>9. /\ Range(q) \cap Range(v) = {} /\ Coming' \subseteq Coming
      /\ (Range(q) \cup Range(v)) \cap Coming' = {}
      /\ Range(q) \cup Range(v) \subseteq Waiting(s) \cup Coming
  BY <1>2, <1>4, <1>5, <1>7, <1>8
<1>10. /\ ServerQueues' /\ Waiting(s)' = Range(q) \cup Range(v)
       /\ \A t \in SConn : t # s => Waiting(t)' = Waiting(t)
  BY <1>1, <1>3, <1>4, <1>5, <1>6, <1>7, <1>9, QueuesKept
<1>11. Pending' = Pending
  <2>1. Coming' \cup (Range(q) \cup Range(v)) = (Coming \cup Waiting(s)) \ {}
    BY <1>2, <1>5, <1>8
  <2>2. \A t \in SConn : t # s => Waiting(t) \cap {} = {}
    OBVIOUS
  <2>3. Pending' = Pending \ {}
    BY <1>4, <1>10, <2>1, <2>2, PendingMoves
  <2> QED BY <2>3
<1>12. Settled({}, {})
  BY <1>1, <1>9, <1>11 DEF Settled
<1>13. FoundDone(done')
  BY <1>1, StillFound
<1> QED BY <1>2, <1>10, <1>12, <1>13, SettledOwn DEF OwnInv

LEMMA ForwardErrorOwn ==
    ASSUME OrderInv, OwnInv, ForwardError
    PROVE  OwnInv'
<1>1. /\ fwd # NullMsg /\ fwd' = NextFwd /\ inq' = inq /\ svq' = svq
      /\ nreq' = nreq /\ kind' = kind /\ nfrag' = nfrag /\ owner' = owner
      /\ done' = done \cup {fwd} /\ error' = error \cup {fwd} /\ swallow' = swallow
      /\ outq' = outq /\ open' = open /\ eof' = eof
  BY DEF ForwardError, srvVars
<1>2. /\ fwd \in Coming /\ fwd \in Msg /\ Coming' = Coming \ {fwd} /\ FwdInv'
  BY <1>1, NextComes
<1>3. \A s \in SConn : Waiting(s)' = Waiting(s) /\ fwd \notin Waiting(s)
  BY <1>1, <1>2 DEF Waiting, OwnInv, ServerQueues
<1>4. ServerQueues'
  BY <1>1, <1>2, <1>3 DEF OwnInv, ServerQueues
<1>5. Pending' = Pending \ {fwd} /\ fwd \in Pending
  BY <1>2, <1>3 DEF Pending
<1>6. fwd \notin swallow /\ owner[fwd[1]] \in Client
  BY <1>2, <1>5, PendingFacts DEF OwnInv, HeldInv
<1>7. CASE kind[fwd[1]] = "noreply"
  <2>1. live' = live \ {fwd} /\ fdone' = fdone
    BY <1>7 DEF ForwardError
  <2>2. Settled({}, {fwd})
    BY <1>1, <1>2, <1>5, <2>1 DEF Settled
  <2>3. FoundDone(done')
    BY <1>1, <2>1, StillFound
  <2> QED BY <1>2, <1>4, <2>2, <2>3, SettledOwn DEF OwnInv
<1>8. CASE kind[fwd[1]] # "noreply"
  <2>1. live' = live /\ Notify({owner[fwd[1]]}, done', nfrag_done, peer)
    BY <1>8 DEF ForwardError
  <2>2. Settled({fwd}, {})
    BY <1>1, <1>2, <1>5, <1>6, <1>8, <2>1 DEF Settled
  <2>3. FoundDone(done')
    BY <1>1, <1>6, <2>1, NotifyFound
  <2> QED BY <1>2, <1>4, <2>2, <2>3, SettledOwn DEF OwnInv
<1> QED BY <1>7, <1>8

LEMMA ServerSendOwn ==
    ASSUME OrderInv, OwnInv, NEW s \in SConn, ServerSend(s), fwd = NullMsg
    PROVE  OwnInv'
<1>1. /\ nreq' = nreq /\ kind' = kind /\ nfrag' = nfrag /\ owner' = owner
      /\ done' = done /\ error' = error /\ swallow' = swallow /\ fwd' = fwd
      /\ fdone' = fdone /\ outq' = outq /\ open' = open /\ eof' = eof
  BY DEF ServerSend, cliVars
<1>2. Coming = {} /\ Coming' = {} /\ FwdInv'
  BY <1>1, NothingComes DEF Coming, FwdInv
<1>3. /\ inq \in [SConn -> Seq(Msg)] /\ svq \in [SConn -> Seq(Msg)]
      /\ inq[s] \in Seq(Msg) /\ svq[s] \in Seq(Msg)
  BY DEF OrderInv, TypeInv, Types
<1>4. /\ ServerQueues /\ Distinct(inq[s]) /\ Distinct(svq[s])
      /\ Range(inq[s]) \cap Range(svq[s]) = {}
      /\ \A m \in Range(svq[s]) : kind[m[1]] # "noreply"
      /\ \A t \in SConn : t # s => Waiting(t) \cap (Coming \cup Waiting(s)) = {}
  BY DEF OwnInv, ServerQueues
<1>5. Waiting(s) = Range(inq[s]) \cup Range(svq[s])
  BY DEF Waiting
<1>6. FoundDone(done')
  BY <1>1, StillFound
<1>7. CASE inq[s] = <<>>
  <2>1. inq' = inq /\ svq' = svq /\ live' = live
    BY <1>7 DEF ServerSend
  <2>2. \A t \in SConn : Waiting(t)' = Waiting(t)
    BY <2>1 DEF Waiting
  <2>3. Pending' = Pending /\ ServerQueues'
    BY <1>1, <1>2, <1>4, <2>1, <2>2, SMTT(30) DEF Pending, ServerQueues
  <2>4. Settled({}, {})
    BY <1>1, <1>2, <2>1, <2>3 DEF Settled
  <2> QED BY <1>2, <1>6, <2>3, <2>4, SettledOwn DEF OwnInv
<1>8. CASE inq[s] # <<>>
  <2> DEFINE m == Head(inq[s])
             q == Tail(inq[s])
  <2>1. /\ m \in Range(inq[s]) /\ Range(q) = Range(inq[s]) \ {m} /\ Distinct(q)
        /\ q \in Seq(Msg) /\ m \in Msg
    BY <1>3, <1>4, <1>8, TailHolds, HeadTailProperties
  <2>2. inq' = [inq EXCEPT ![s] = q]
    BY <1>8 DEF ServerSend
  <2>3. m \in Pending /\ m \in Waiting(s) /\ m \notin Range(svq[s])
    BY <1>4, <1>5, <2>1, PendingFacts
  <2>4. CASE kind[m[1]] = "noreply"
    <3>1. live' = live \ {m} /\ svq' = svq
      BY <1>8, <2>4 DEF ServerSend
    <3> DEFINE v == svq[s]
    <3>2. svq' = [svq EXCEPT ![s] = v]
      BY <1>3, <3>1
    <3> HIDE DEF m, q
    <3>3. /\ Range(q) \cap Range(v) = {} /\ Range(q) \cup Range(v) \subseteq Waiting(s) \cup Coming
          /\ v \in Seq(Msg) /\ (Range(q) \cup Range(v)) \cap Coming' = {} /\ Coming' \subseteq Coming
          /\ Distinct(v) /\ \A x \in Range(v) : kind[x[1]] # "noreply"
      BY <1>2, <1>3, <1>4, <1>5, <2>1
    <3> HIDE DEF v
    <3>4. /\ ServerQueues' /\ Waiting(s)' = Range(q) \cup Range(v)
          /\ \A t \in SConn : t # s => Waiting(t)' = Waiting(t)
      BY <1>1, <1>3, <1>4, <2>1, <2>2, <3>2, <3>3, QueuesKept
    <3>5. Pending' = Pending \ {m}
      <4>1. Coming' \cup (Range(q) \cup Range(v)) = (Coming \cup Waiting(s)) \ {m}
        BY <1>2, <1>5, <2>1, <2>3 DEF v
      <4>2. \A t \in SConn : t # s => Waiting(t) \cap {m} = {}
        BY <1>4, <2>3
      <4> QED BY <1>4, <3>4, <4>1, <4>2, PendingMoves
    <3>6. Settled({}, {m})
      BY <1>1, <1>2, <2>3, <3>1, <3>5 DEF Settled
    <3> QED BY <1>2, <1>6, <3>4, <3>6, SettledOwn DEF OwnInv
  <2>5. CASE kind[m[1]] # "noreply"
    <3> DEFINE v == Append(svq[s], m)
    <3>1. live' = live /\ svq' = [svq EXCEPT ![s] = v]
      BY <1>8, <2>5 DEF ServerSend, enqueue
    <3>2. Range(v) = Range(svq[s]) \cup {m} /\ v \in Seq(Msg) /\ Distinct(v)
      <4>1. svq[s] \in Seq(Msg) /\ m \in Msg /\ Distinct(svq[s]) /\ m \notin Range(svq[s])
        BY <1>3, <1>4, <2>1, <2>3
      <4> HIDE DEF m
      <4>2. v \in Seq(Msg)
        BY <4>1, AppendProperties
      <4>3. Range(v) = Range(svq[s]) \cup {m} /\ Distinct(v)
        BY <4>1, AppendHolds, SMTT(30)
      <4> QED BY <4>2, <4>3
    <3> HIDE DEF m, q, v
    <3>3. /\ Range(q) \cap Range(v) = {} /\ Range(q) \cup Range(v) \subseteq Waiting(s) \cup Coming
          /\ (Range(q) \cup Range(v)) \cap Coming' = {} /\ Coming' \subseteq Coming
          /\ \A x \in Range(v) : kind[x[1]] # "noreply"
      BY <1>2, <1>4, <1>5, <2>1, <2>3, <2>5, <3>2
    <3>4. /\ ServerQueues' /\ Waiting(s)' = Range(q) \cup Range(v)
          /\ \A t \in SConn : t # s => Waiting(t)' = Waiting(t)
      BY <1>1, <1>3, <1>4, <2>1, <2>2, <3>1, <3>2, <3>3, QueuesKept
    <3>5. Pending' = Pending
      <4>1. Coming' \cup (Range(q) \cup Range(v)) = (Coming \cup Waiting(s)) \ {}
        BY <1>2, <1>5, <2>1, <2>3, <3>2
      <4>2. \A t \in SConn : t # s => Waiting(t) \cap {} = {}
        OBVIOUS
      <4>3. Pending' = Pending \ {}
        BY <1>4, <3>4, <4>1, <4>2, PendingMoves
      <4> QED BY <4>3
    <3>6. Settled({}, {})
      BY <1>1, <1>2, <3>1, <3>5 DEF Settled
    <3> QED BY <1>2, <1>6, <3>4, <3>6, SettledOwn DEF OwnInv
  <2> QED BY <2>4, <2>5
<1> QED BY <1>7, <1>8

LEMMA ServerRecvOwn ==
    ASSUME OrderInv, OwnInv, NEW s \in SConn, NEW bad, ServerRecv(s, bad), fwd = NullMsg
    PROVE  OwnInv'
<1> DEFINE m == Head(svq[s])
           v == Tail(svq[s])
           q == inq[s]
           nd == IF m[2] > 0 THEN [nfrag_done EXCEPT ![m[1]] = @ + 1] ELSE nfrag_done
           pr == [peer EXCEPT ![m] = {Head(backend[s])}]
<1>1. /\ nreq' = nreq /\ kind' = kind /\ nfrag' = nfrag /\ owner' = owner
      /\ done' = done \cup {m} /\ swallow' = swallow /\ fwd' = fwd /\ inq' = inq
      /\ outq' = outq /\ open' = open /\ eof' = eof
      /\ svq[s] # <<>> /\ svq' = [svq EXCEPT ![s] = v]
      /\ error' \subseteq error \cup {m}
  BY DEF ServerRecv
<1>2. Coming = {} /\ Coming' = {} /\ FwdInv'
  BY <1>1, NothingComes DEF Coming, FwdInv
<1>3. /\ inq \in [SConn -> Seq(Msg)] /\ svq \in [SConn -> Seq(Msg)]
      /\ inq[s] \in Seq(Msg) /\ svq[s] \in Seq(Msg)
  BY DEF OrderInv, TypeInv, Types
<1>4. /\ ServerQueues /\ Distinct(inq[s]) /\ Distinct(svq[s])
      /\ Range(inq[s]) \cap Range(svq[s]) = {}
      /\ \A x \in Range(svq[s]) : kind[x[1]] # "noreply"
      /\ \A t \in SConn : t # s => Waiting(t) \cap (Coming \cup Waiting(s)) = {}
  BY DEF OwnInv, ServerQueues
<1>5. Waiting(s) = Range(inq[s]) \cup Range(svq[s])
  BY DEF Waiting
<1>6. /\ m \in Range(svq[s]) /\ Range(v) = Range(svq[s]) \ {m} /\ Distinct(v)
      /\ v \in Seq(Msg) /\ m \in Msg
  BY <1>1, <1>3, <1>4, TailHolds, HeadTailProperties
<1>7. m \in Pending /\ m \in Waiting(s) /\ owner[m[1]] \in Client /\ kind[m[1]] # "noreply"
  BY <1>4, <1>5, <1>6, PendingFacts
<1>8. inq' = [inq EXCEPT ![s] = q]
  BY <1>1, <1>3
<1>9. \/ m \in swallow /\ live' = live \ {m} /\ fdone' = fdone
      \/ m \notin swallow /\ live' = live /\ Notify({owner[m[1]]}, done', nd, pr)
  BY DEF ServerRecv, Swallowed
<1> HIDE DEF m, v, nd, pr
<1>10. /\ Range(q) \cap Range(v) = {} /\ Range(q) \cup Range(v) \subseteq Waiting(s) \cup Coming
       /\ q \in Seq(Msg) /\ (Range(q) \cup Range(v)) \cap Coming' = {} /\ Coming' \subseteq Coming
       /\ Distinct(q) /\ \A x \in Range(v) : kind[x[1]] # "noreply"
  BY <1>2, <1>3, <1>4, <1>5, <1>6
<1>11. Coming' \cup (Range(q) \cup Range(v)) = (Coming \cup Waiting(s)) \ {m}
  BY <1>2, <1>4, <1>5, <1>6
<1> HIDE DEF q
<1>12. /\ ServerQueues' /\ Waiting(s)' = Range(q) \cup Range(v)
       /\ \A t \in SConn : t # s => Waiting(t)' = Waiting(t)
  BY <1>1, <1>3, <1>4, <1>6, <1>8, <1>10, QueuesKept
<1>13. Pending' = Pending \ {m}
  <2>1. \A t \in SConn : t # s => Waiting(t) \cap {m} = {}
    BY <1>4, <1>7
  <2> QED BY <1>4, <1>11, <1>12, <2>1, PendingMoves
<1>14. CASE m \in swallow
  <2>1. Settled({}, {m})
    BY <1>1, <1>2, <1>7, <1>9, <1>13, <1>14 DEF Settled
  <2>2. FoundDone(done')
    BY <1>1, <1>9, <1>14, StillFound
  <2> QED BY <1>2, <1>12, <2>1, <2>2, SettledOwn DEF OwnInv
<1>15. CASE m \notin swallow
  <2>1. Settled({m}, {})
    BY <1>1, <1>2, <1>7, <1>9, <1>13, <1>15 DEF Settled
  <2>2. FoundDone(done')
    BY <1>1, <1>7, <1>9, <1>15, NotifyFound
  <2> QED BY <1>2, <1>12, <2>1, <2>2, SettledOwn DEF OwnInv
<1> QED BY <1>14, <1>15

LEMMA ServerCloseOwn ==
    ASSUME OrderInv, OwnInv, NEW s \in SConn, NEW tm, server_close(s, tm), fwd = NullMsg
    PROVE  OwnInv'
<1> DEFINE pending == Range(inq[s]) \cup Range(svq[s])
           gone == {m \in pending : Swallowed(m) \/ kind[m[1]] = "noreply"}
           failed == pending \ gone
           nd == [n \in Req |-> nfrag_done[n] + Cardinality(FragsIn(n, failed))]
           C == {owner[m[1]] : m \in failed}
<1>1. /\ nreq' = nreq /\ kind' = kind /\ nfrag' = nfrag /\ owner' = owner
      /\ done' = done \cup failed /\ error' = error \cup failed
      /\ swallow' = swallow /\ fwd' = fwd /\ live' = live \ gone
      /\ outq' = outq /\ open' = open /\ eof' = eof
      /\ inq' = [inq EXCEPT ![s] = <<>>] /\ svq' = [svq EXCEPT ![s] = <<>>]
      /\ Notify(C, done', nd, peer)
  BY DEF server_close
<1>2. Coming = {} /\ Coming' = {} /\ FwdInv'
  BY <1>1, NothingComes DEF Coming, FwdInv
<1>3. inq \in [SConn -> Seq(Msg)] /\ svq \in [SConn -> Seq(Msg)]
  BY DEF OrderInv, TypeInv, Types
<1>4. ServerQueues /\ \A t \in SConn : t # s => Waiting(t) \cap (Coming \cup Waiting(s)) = {}
  BY DEF OwnInv, ServerQueues
<1>5. pending = Waiting(s)
  BY DEF Waiting
<1>6. pending \subseteq Pending /\ C \subseteq Client
  BY <1>5, PendingFacts
<1>7. \A m \in failed : m \notin swallow /\ kind[m[1]] # "noreply"
  BY DEF Swallowed
<1>8. failed \cup gone = pending
  OBVIOUS
<1> HIDE DEF pending, gone, failed, nd, C
<1>9. <<>> \in Seq(Msg) /\ Range(<<>>) = {} /\ Distinct(<<>>)
  BY EmptyHolds
<1>10. /\ ServerQueues' /\ Waiting(s)' = {}
       /\ \A t \in SConn : t # s => Waiting(t)' = Waiting(t)
  <2> DEFINE e == <<>>
  <2>1. /\ e \in Seq(Msg) /\ Range(e) = {} /\ Distinct(e)
        /\ inq' = [inq EXCEPT ![s] = e] /\ svq' = [svq EXCEPT ![s] = e]
    BY <1>1, <1>9
  <2> HIDE DEF e
  <2>2. /\ Range(e) \cap Range(e) = {} /\ Coming' \subseteq Coming
        /\ (Range(e) \cup Range(e)) \cap Coming' = {}
        /\ Range(e) \cup Range(e) \subseteq Waiting(s) \cup Coming
        /\ \A m \in Range(e) : kind[m[1]] # "noreply"
    BY <1>2, <2>1
  <2>3. /\ ServerQueues' /\ Waiting(s)' = Range(e) \cup Range(e)
        /\ \A t \in SConn : t # s => Waiting(t)' = Waiting(t)
    BY <1>1, <1>3, <1>4, <2>1, <2>2, QueuesKept
  <2> QED BY <2>1, <2>3
<1>11. Pending' = Pending \ (failed \cup gone)
  <2>1. Coming' \cup {} = (Coming \cup Waiting(s)) \ (failed \cup gone)
    BY <1>2, <1>5, <1>8
  <2>2. \A t \in SConn : t # s => Waiting(t) \cap (failed \cup gone) = {}
    BY <1>4, <1>5, <1>8
  <2> QED BY <1>4, <1>10, <2>1, <2>2, PendingMoves
<1>12. Settled(failed, gone)
  BY <1>1, <1>2, <1>6, <1>7, <1>8, <1>11 DEF Settled
<1>13. FoundDone(done')
  BY <1>1, <1>6, NotifyFound
<1> QED BY <1>2, <1>10, <1>12, <1>13, SettledOwn DEF OwnInv

(* The number of parts of a request.                                       *)
LEMMA PartIndex ==
    ASSUME NEW f \in 0..MaxFrag
    PROVE  f \in Nat /\ f <= MaxFrag
BY ConstAssumption, SMT

(* The messages of a new request.                                          *)
LEMMA NewParts ==
    ASSUME NEW n \in Req, NEW f \in Nat, f <= MaxFrag
    PROVE  LET new == {Top(n)} \cup {<<n, i>> : i \in 1..f}
           IN  new \subseteq Msg /\ \A m \in new : m[1] = n /\ m[2] \in 0..f
BY ConstAssumption, SMT DEF Msg, Top

(* A request that is received is new: nobody held a message of it before.  *)
LEMMA ClientRecvOwn ==
    ASSUME OrderInv, OwnInv, NEW c \in Client, NEW k \in ReqKind, NEW nf \in 0..MaxFrag,
           ClientRecv(c, k, nf), fwd = NullMsg
    PROVE  OwnInv'
<1> USE DEF OrderInv, TypeInv, OwnInv
<1> DEFINE n == nreq + 1
           new == {Top(n)} \cup {<<n, i>> : i \in 1..nf}
           q == Append(outq[c], n)
<1>1. /\ c \in open /\ nreq' = n /\ kind' = [kind EXCEPT ![n] = k]
      /\ nfrag' = [nfrag EXCEPT ![n] = nf] /\ owner' = [owner EXCEPT ![n] = c]
      /\ live' = live \cup new /\ (nf > 0 <=> k \in Vector)
      /\ error' = error /\ swallow' = swallow /\ fdone' = fdone
      /\ open' = open /\ eof' = eof /\ inq' = inq /\ svq' = svq
  BY DEF ClientRecv, srvVars
<1>2. /\ done' = IF k \in Vector \cup {"local"} THEN done \cup {Top(n)} ELSE done
      /\ outq' = IF k = "noreply" THEN outq ELSE [outq EXCEPT ![c] = q]
      /\ fwd' = CASE k = "local" -> NullMsg
                  [] k \in Vector -> <<n, 1>>
                  [] OTHER -> Top(n)
  BY DEF ClientRecv, enqueue
<1>3. n \in Req /\ nreq \in Nat /\ k \in Kind /\ nf \in Nat /\ nf <= MaxFrag
  <2>1. nreq < MaxReq
    BY DEF ClientRecv
  <2>2. k \in Kind
    BY ConstAssumption
  <2> QED BY <2>1, <2>2, NextReq, PartIndex DEF Types
<1>4. new \subseteq Msg /\ \A m \in new : m[1] = n /\ m[2] \in 0..nf
  BY <1>3, NewParts
<1>5. Coming = {}
  BY NothingComes
<1>6. /\ \A x \in Req : x <= nreq => x # n /\ x \in 1..nreq
      /\ \A x \in 1..n : x \in Req /\ (x \in 1..nreq \/ x = n)
      /\ n <= n
  BY <1>3, ConstAssumption, SMTT(30) DEF Req
<1>7. /\ outq \in [Client -> Seq(Req)] /\ owner \in [Req -> Client \cup {NoConn}]
      /\ kind \in [Req -> Kind] /\ nfrag \in [Req -> 0..MaxFrag]
      /\ live \subseteq Msg /\ done \subseteq Msg /\ swallow \subseteq Msg
      /\ error \subseteq Msg /\ fdone \subseteq Req
      /\ \A m \in Msg : m[1] \in Req
  BY MsgFacts DEF Types
<1>8. \A m \in live \cup done \cup swallow : m[1] \in Req /\ m[1] # n /\ m[1] \in 1..nreq
  BY <1>6, <1>7 DEF KnownInv
<1>9. /\ owner'[n] = c /\ kind'[n] = k /\ nfrag'[n] = nf
      /\ \A x \in Req : x # n => owner'[x] = owner[x] /\ kind'[x] = kind[x]
  BY <1>1, <1>3, <1>7
<1>10. Top(n) \in Msg /\ Top(n)[1] = n /\ Top(n)[2] = 0
  BY <1>3, MsgFacts DEF Top
<1> HIDE DEF n, new, q
<1>11. KnownInv'
  <2>1. \A m \in live' \cup done' \cup swallow' : m[1] <= n
    <3>1. \A m \in live' \cup done' \cup swallow' :
              m \in live \cup done \cup swallow \/ m[1] = n
      BY <1>1, <1>2, <1>4, <1>10
    <3>2. n \in Nat /\ \A x \in 1..nreq : x <= n
      BY <1>3, SMTT(30) DEF n
    <3> QED BY <1>6, <1>8, <3>1, <3>2
  <2>2. \A m \in live' : m[2] > 0 => kind'[m[1]] \in Vector
    <3> SUFFICES ASSUME NEW m \in live', m[2] > 0 PROVE kind'[m[1]] \in Vector
      OBVIOUS
    <3>1. CASE m \in live
      BY <1>8, <1>9, <3>1 DEF KnownInv
    <3>2. CASE m \in new
      <4>1. m[1] = n /\ nf > 0
        BY <1>3, <1>4, <3>2, SMTT(30)
      <4> QED BY <1>1, <1>9, <4>1
    <3> QED BY <1>1, <3>1, <3>2
  <2>3. \A x \in fdone : x <= n
    BY <1>3, <1>7, SMTT(30) DEF KnownInv, Req, n
  <2>4. \A x \in 1..n : owner'[x] \in Client
    BY <1>6, <1>9 DEF KnownInv
  <2>5. error' \subseteq done' /\ eof' \subseteq open'
    BY <1>1, <1>2 DEF KnownInv
  <2> QED BY <1>1, <2>1, <2>2, <2>3, <2>4, <2>5 DEF KnownInv
<1>12. \A d \in Client : outq[d] \in Seq(Req) /\ n \notin Range(outq[d]) /\ Range(outq[d]) \subseteq Req
  BY <1>6, <1>7, RangeType DEF ClientQueues
<1>13. /\ Range(q) = Range(outq[c]) \cup {n} /\ Distinct(q)
  BY <1>3, <1>12, AppendHolds, SMTT(30) DEF q, ClientQueues
<1>14. /\ \A d \in Client : d # c => outq'[d] = outq[d]
       /\ k = "noreply" => outq' = outq
       /\ k # "noreply" => outq'[c] = q
  BY <1>2, <1>7
<1>15. \A x \in Req : x <= nreq => x <= n
  BY <1>3, SMTT(30) DEF Req, n
<1>16. ClientQueues'
  <2> SUFFICES ASSUME NEW d \in Client
               PROVE  /\ Distinct(outq'[d])
                      /\ \A x \in Range(outq'[d]) : x <= n /\ owner'[x] = d /\ kind'[x] # "noreply"
    BY <1>1 DEF ClientQueues
  <2>1. \A x \in Range(outq[d]) : x \in Req /\ x # n /\ x <= n /\ owner'[x] = d /\ kind'[x] # "noreply"
    BY <1>9, <1>12, <1>15 DEF ClientQueues
  <2>2. Distinct(outq[d])
    BY DEF ClientQueues
  <2>3. CASE outq'[d] = outq[d]
    BY <2>1, <2>2, <2>3
  <2>4. CASE d = c /\ k # "noreply" /\ outq'[d] = q
    BY <1>6, <1>9, <1>13, <2>1, <2>4
  <2> QED BY <1>14, <2>3, <2>4
<1>17. /\ Coming' \subseteq new /\ (fwd' = NullMsg \/ fwd' \in Coming')
       /\ new \ done' = Coming'
  <2>1. Coming' = {m \in Msg : /\ m[1] = fwd'[1]
                                /\ IF fwd'[2] = 0 THEN m[2] = 0
                                   ELSE m[2] \in fwd'[2]..nfrag'[fwd'[1]]}
    BY DEF Coming
  <2>2. \A m \in new : m \notin done
    BY <1>4, <1>8
  <2>3. CASE k = "local"
    <3>1. fwd' = NullMsg /\ nf = 0
      BY <1>1, <1>2, <1>3, <2>3, SMTT(30) DEF Vector
    <3>2. Coming' = {}
      BY <3>1, MsgFacts, SMTT(30) DEF Coming, NullMsg, Req
    <3>3. new = {Top(n)}
      BY <3>1, SMTT(30) DEF new
    <3> QED BY <1>2, <2>3, <3>1, <3>2, <3>3
  <2>4. CASE k \in Vector
    <3>1. fwd' = <<n, 1>> /\ nf > 0 /\ done' = done \cup {Top(n)}
      BY <1>1, <1>2, <2>4 DEF Vector
    <3>2. Coming' = {m \in Msg : m[1] = n /\ m[2] \in 1..nf}
      BY <1>9, <2>1, <3>1, SMTT(30)
    <3>3. \A m \in new : m = Top(n) \/ m \in Coming'
      BY <1>4, <3>2, SMTT(30) DEF new
    <3>4. \A m \in Coming' : m \in new /\ m # Top(n)
      <4> SUFFICES ASSUME NEW m \in Msg, m[1] = n, m[2] \in 1..nf PROVE m \in new /\ m # Top(n)
        BY <3>2
      <4>1. m = <<n, m[2]>> /\ m[2] # 0
        BY MsgFacts, SMTT(30)
      <4> QED BY <1>10, <4>1 DEF new
    <3>5. fwd' \in Coming'
      <4>1. <<n, 1>> \in Msg /\ 1 \in 1..nf
        BY <1>3, <3>1, ConstAssumption, SMTT(30) DEF Msg
      <4> QED BY <3>1, <3>2, <4>1
    <3> QED BY <2>2, <3>1, <3>3, <3>4, <3>5
  <2>5. CASE k # "local" /\ k \notin Vector
    <3>1. fwd' = Top(n) /\ nf = 0 /\ done' = done
      BY <1>1, <1>2, <1>3, <2>5, SMTT(30)
    <3>2. Coming' = {m \in Msg : m[1] = n /\ m[2] = 0}
      BY <1>10, <2>1, <3>1
    <3>3. new = {Top(n)}
      BY <3>1, SMTT(30) DEF new
    <3>4. \A m \in Msg : m[1] = n /\ m[2] = 0 => m = Top(n)
      BY MsgFacts DEF Top
    <3> QED BY <1>10, <2>2, <3>1, <3>2, <3>3, <3>4
  <2> QED BY <2>3, <2>4, <2>5
<1>18. \A s \in SConn : Waiting(s)' = Waiting(s) /\ Waiting(s) \subseteq live
  BY <1>1, PendingFacts DEF Waiting
<1>19. ServerQueues'
  <2>1. \A s \in SConn : Waiting(s)' \cap Coming' = {}
    BY <1>4, <1>8, <1>17, <1>18
  <2>2. \A s \in SConn : \A m \in Range(svq[s]) : kind'[m[1]] # "noreply"
    <3> SUFFICES ASSUME NEW s \in SConn, NEW m \in Range(svq[s]) PROVE kind'[m[1]] # "noreply"
      OBVIOUS
    <3>1. m \in live
      BY <1>18 DEF Waiting
    <3>2. kind'[m[1]] = kind[m[1]]
      BY <1>8, <1>9, <3>1
    <3> QED BY <3>2 DEF ServerQueues
  <2> QED BY <1>1, <1>18, <2>1, <2>2 DEF ServerQueues
<1>20. FwdInv'
  BY <1>17 DEF FwdInv
<1>21. PendingInv'
  <2>1. Pending' = {m \in Msg : m \in Coming' \/ \E s \in SConn : m \in Waiting(s)'}
    BY DEF Pending
  <2>2. Pending = {m \in Msg : \E s \in SConn : m \in Waiting(s)}
    BY <1>5 DEF Pending
  <2>3. Pending' = Pending \cup Coming'
    BY <1>4, <1>17, <1>18, <2>1, <2>2
  <2>4. \A m \in live : m \in done' <=> m \in done
    BY <1>2, <1>8, <1>10
  <2> QED BY <1>1, <1>17, <2>3, <2>4 DEF PendingInv
<1>22. \A x \in Req : x # n /\ owner[x] \in Client => (Held(x)' <=> Held(x))
  <2> SUFFICES ASSUME NEW x \in Req, x # n, owner[x] \in Client PROVE Held(x)' <=> Held(x)
    OBVIOUS
  <2>1. owner'[x] = owner[x]
    BY <1>9
  <2>2. x \in Range(outq'[owner[x]]) <=> x \in Range(outq[owner[x]])
    BY <1>13, <1>14
  <2> QED BY <2>1, <2>2 DEF Held
<1>23. k # "noreply" => n \in Range(outq'[owner'[n]])
  BY <1>9, <1>13, <1>14
<1>24. HeldInv'
  <2>1. ASSUME NEW m \in live'
        PROVE  \/ Held(m[1])'
               \/ m \notin done' /\ (m \in swallow' \/ kind'[m[1]] = "noreply")
    <3>1. CASE m \in live
      <4>1. m[1] \in Req /\ m[1] # n /\ owner[m[1]] \in Client /\ kind'[m[1]] = kind[m[1]]
        BY <1>8, <1>9, <3>1 DEF KnownInv
      <4>2. m \in done' => m \in done
        BY <1>2, <1>10, <4>1
      <4> QED BY <1>1, <1>22, <3>1, <4>1, <4>2 DEF HeldInv
    <3>2. CASE m \in new /\ k # "noreply"
      <4>1. m[1] = n
        BY <1>4, <3>2
      <4> QED BY <1>23, <3>2, <4>1 DEF Held
    <3>3. CASE m \in new /\ k = "noreply"
      <4>1. done' = done
        BY <1>2, <3>3 DEF Vector
      <4>2. m[1] = n /\ m \notin done
        BY <1>4, <1>8, <3>3
      <4> QED BY <1>9, <3>3, <4>1, <4>2
    <3> QED BY <1>1, <3>1, <3>2, <3>3
  <2>2. ASSUME NEW m \in swallow' PROVE ~Held(m[1])' /\ m \notin Coming'
    <3>1. m[1] \in Req /\ m[1] # n /\ owner[m[1]] \in Client /\ m \in swallow
      BY <1>1, <1>8 DEF KnownInv
    <3> QED BY <1>4, <1>17, <1>22, <3>1 DEF HeldInv
  <2> QED BY <2>1, <2>2 DEF HeldInv
<1>25. FdoneInv'
  <2>1. n \notin fdone
    BY <1>6, <1>7 DEF KnownInv
  <2> QED BY <1>1, <1>2, <1>4, <2>1 DEF FdoneInv
<1> QED BY <1>11, <1>16, <1>19, <1>20, <1>21, <1>24, <1>25

LEMMA OwnStep == OrderInv /\ OwnInv /\ [Next]_vars => OwnInv'
<1> SUFFICES ASSUME OrderInv, OwnInv, [Next]_vars PROVE OwnInv'
  OBVIOUS
<1>0. ASSUME nreq' = nreq, kind' = kind, nfrag' = nfrag, owner' = owner, live' = live,
             done' = done, error' = error, swallow' = swallow, fdone' = fdone,
             fwd' = fwd, outq' = outq, inq' = inq, svq' = svq, eof' \subseteq open'
      PROVE  OwnInv'
  <2>1. /\ Coming' = Coming /\ (\A s \in SConn : Waiting(s)' = Waiting(s))
        /\ \A n : Held(n)' <=> Held(n)
    BY <1>0 DEF Coming, Waiting, Held
  <2>2. Pending' = Pending
    BY <2>1 DEF Pending
  <2>3. KnownInv' /\ ClientQueues' /\ FdoneInv'
    BY <1>0 DEF OwnInv, KnownInv, ClientQueues, FdoneInv
  <2>4. ServerQueues'
    BY <1>0, <2>1 DEF OwnInv, ServerQueues
  <2>5. FwdInv' /\ PendingInv' /\ HeldInv'
    BY <1>0, <2>1, <2>2 DEF OwnInv, FwdInv, PendingInv, HeldInv
  <2> QED BY <2>3, <2>4, <2>5 DEF OwnInv
<1>1. ASSUME NEW c \in Client, Accept(c) PROVE OwnInv'
  <2>1. eof' \subseteq open'
    BY <1>1 DEF Accept, OwnInv, KnownInv
  <2> QED BY <1>0, <1>1, <2>1 DEF Accept, msgVars, srvVars
<1>2. ASSUME NEW c \in Client, ClientEof(c), fwd = NullMsg PROVE OwnInv'
  <2>1. CASE outq[c] = <<>> \/ c \in cerr
    <3>1. client_close(c, outq[c], live) /\ ClientOnly /\ fdone' = fdone
      BY <1>2, <2>1 DEF ClientEof, ClientOnly
    <3> QED BY <1>2, <3>1, ClientCloseOwn
  <2>2. CASE ~(outq[c] = <<>> \/ c \in cerr)
    <3>1. eof' \subseteq open'
      BY <1>2, <2>2, SMTT(30) DEF ClientEof, OwnInv, KnownInv
    <3> QED BY <1>0, <1>2, <2>2, <3>1 DEF ClientEof
  <2> QED BY <2>1, <2>2
<1>3. ASSUME NEW c \in Client, ClientError(c), fwd = NullMsg PROVE OwnInv'
  <2>1. client_close(c, outq[c], live) /\ ClientOnly /\ fdone' = fdone
    BY <1>3 DEF ClientError, ClientOnly
  <2> QED BY <1>3, <2>1, ClientCloseOwn
<1>4. ASSUME NEW c \in Client, NEW k \in ReqKind, NEW nf \in 0..MaxFrag,
             ClientRecv(c, k, nf), fwd = NullMsg
      PROVE  OwnInv'
  BY <1>4, ClientRecvOwn
<1>5. ASSUME NEW c \in Client, NEW r \in 0..Len(outq[c]), NEW k \in 0..r,
             NEW p \in BOOLEAN, ClientSend(c, r, k, p), fwd = NullMsg
      PROVE  OwnInv'
  BY <1>5, ClientSendOwn
<1>6. ASSUME NEW s \in SConn, Forward(s) PROVE OwnInv'
  BY <1>6, ForwardOwn
<1>7. ASSUME ForwardError PROVE OwnInv'
  BY <1>7, ForwardErrorOwn
<1>8. ASSUME NEW s \in SConn, ServerSend(s), fwd = NullMsg PROVE OwnInv'
  BY <1>8, ServerSendOwn
<1>9. ASSUME NEW s \in SConn, NEW bad \in BOOLEAN, ServerRecv(s, bad), fwd = NullMsg
      PROVE  OwnInv'
  BY <1>9, ServerRecvOwn
<1>10. ASSUME NEW s \in SConn, ServerError(s), fwd = NullMsg PROVE OwnInv'
  BY <1>10, ServerCloseOwn DEF ServerError
<1>11. ASSUME NEW m \in Msg, NEW s \in SConn, CoreTimeout(m, s), fwd = NullMsg PROVE OwnInv'
  <2>1. CASE m \in done \cup error
    <3>1. eof' \subseteq open'
      BY <1>11, <2>1 DEF CoreTimeout, cliVars, OwnInv, KnownInv
    <3> QED BY <1>0, <1>11, <2>1, <3>1 DEF CoreTimeout, msgVars, cliVars
  <2>2. CASE m \notin done \cup error
    BY <1>11, <2>2, ServerCloseOwn DEF CoreTimeout
  <2> QED BY <2>1, <2>2
<1>12. CASE UNCHANGED vars
  <2>1. eof' \subseteq open'
    BY <1>12 DEF vars, cliVars, OwnInv, KnownInv
  <2> QED BY <1>0, <1>12, <2>1 DEF vars, msgVars, cliVars, srvVars
<1> QED
  BY <1>1, <1>2, <1>3, <1>4, <1>5, <1>6, <1>7, <1>8, <1>9, <1>10, <1>11, <1>12
     DEF Next, Callback

(* In every reachable state, whatever was closed, refused or timed out on  *)
(* the way, what waits on a server connection is allocated, is not done    *)
(* and has its client, unless nobody wants the answer; and every allocated *)
(* message is in some queue, so that it will be freed.                     *)
THEOREM NoMessageLost == Spec => []MessagesOwned
<1>1. OrderInv /\ OwnInv => MessagesOwned
  BY OwnIsOwned
<1> QED BY <1>1, OrderInvInit, OrderStep, OwnInit, OwnStep, PTL DEF Spec
=============================================================================
