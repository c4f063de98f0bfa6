------------------------- MODULE RedisSessionProofs -------------------------
(***************************************************************************)
(* Theorems about RedisSession, for any clients, any number of requests,   *)
(* any way connect() may return, any database and with or without failing  *)
(* allocations.                                                            *)
(***************************************************************************)
EXTENDS RedisSession, SequenceTheorems, TLAPS

\* Zenon is tried where a step names no prover; the steps with arithmetic,
\* sequences or records name the SMT solver.
USE Zenon

(* What is said to a server: the commands of clients that gave the right   *)
(* password, and the proxy's own AUTH and SELECT, whose replies it keeps.  *)
Command == [op : {"command"}, client : Client, n : Nat, swallow : BOOLEAN, trusted : {TRUE}]
OwnAuth == [op : {"AUTH"}, client : Client, n : Nat, swallow : {TRUE}, trusted : {FALSE}]
Msg == Command \cup OwnAuth \cup {SELECT}

Reply == [st : {"ok", "refused", "transient"}, of : Msg]

(* A client counts as authenticated only with the right password.          *)
ClientType ==
  /\ authenticated \in [Client -> BOOLEAN]
  /\ password \in [Client -> {"none", "right", "wrong"}]
  /\ \A cl \in Client : require_auth /\ authenticated[cl] => password[cl] = "right"
CountType ==
  /\ n \in [Client -> Nat] /\ base \in [Client -> Nat]
  /\ \A cl \in Client : base[cl] <= n[cl]
ConnType ==
  /\ s \in [st : {"none", "connecting", "connected"}, authenticated : BOOLEAN, err : BOOLEAN]
  /\ imsg_q \in Seq(Msg) /\ omsg_q \in Seq(Msg) /\ replies \in Seq(Reply)
  /\ redis \in [authed : BOOLEAN, db : {0, redis_db}, in : Seq(Msg)]
RanType ==
  ran = nothing \/ ran \in [st : {"ran", "refused"}, trusted : {TRUE}, db : {0, redis_db}]
TypeInv == ClientType /\ CountType /\ ConnType /\ RanType

(* The two halves of a queue that is cut in two.                           *)
LEMMA Halves ==
    ASSUME NEW S, NEW q \in Seq(S), NEW k \in 0..Len(q)
    PROVE  /\ SubSeq(q, 1, k) \in Seq(S) /\ SubSeq(q, k + 1, Len(q)) \in Seq(S)
           /\ Len(SubSeq(q, 1, k)) = k /\ Len(SubSeq(q, k + 1, Len(q))) = Len(q) - k
           /\ \A i \in 1..k : SubSeq(q, 1, k)[i] = q[i]
           /\ \A i \in 1..(Len(q) - k) : SubSeq(q, k + 1, Len(q))[i] = q[k + i]
<1>1. Len(q) \in Nat /\ \A i \in 1..Len(q) : q[i] \in S
  BY SMT
<1>2. \A i \in 1..k : q[i] \in S
  BY <1>1, SMT
<1>3. \A i \in (k + 1)..Len(q) : q[i] \in S
  BY <1>1, SMT
<1>4. /\ SubSeq(q, 1, k) \in Seq(S)
      /\ Len(SubSeq(q, 1, k)) = IF 1 <= k THEN k - 1 + 1 ELSE 0
      /\ \A i \in 1..(k - 1 + 1) : SubSeq(q, 1, k)[i] = q[1 + i - 1]
  BY <1>2, SubSeqProperties, SMT
<1>5. /\ SubSeq(q, k + 1, Len(q)) \in Seq(S)
      /\ Len(SubSeq(q, k + 1, Len(q))) = IF k + 1 <= Len(q) THEN Len(q) - (k + 1) + 1 ELSE 0
      /\ \A i \in 1..(Len(q) - (k + 1) + 1) : SubSeq(q, k + 1, Len(q))[i] = q[(k + 1) + i - 1]
  BY <1>1, <1>3, SubSeqProperties, SMTT(30)
<1> QED BY <1>1, <1>4, <1>5, SMT

(* A request is counted.                                                   *)
LEMMA CountStep ==
    ASSUME CountType, NEW cl \in Client, n' = n \/ n' = [n EXCEPT ![cl] = @ + 1],
           base' = base
    PROVE  CountType'
<1>1. CASE n' = n
  BY <1>1 DEF CountType
<1>2. CASE n' = [n EXCEPT ![cl] = @ + 1]
  <2>1. n' \in [Client -> Nat]
    BY <1>2, SMT DEF CountType
  <2>2. ASSUME NEW c \in Client PROVE base[c] <= n'[c]
    BY <1>2, SMT DEF CountType
  <2> QED BY <2>1, <2>2 DEF CountType
<1> QED BY <1>1, <1>2

(* What server_close() leaves.                                             *)
LEMMA ClosedType ==
    ASSUME server_close
    PROVE  ConnType'
BY EmptySeq DEF server_close, conn_get, NewSession, ConnType

(* A request that is forwarded, and the AUTH that may go before it.        *)
LEMMA EnqueuedType ==
    ASSUME TypeInv, NEW cl \in Client, n' = [n EXCEPT ![cl] = @ + 1],
           require_auth \in BOOLEAN, conn_authenticated(authenticated[cl]),
           NEW m, m = Message("command", cl, ~require_auth \/ password[cl] = "right")
    PROVE  m \in Command /\ AUTH(cl) \in OwnAuth /\ n' \in [Client -> Nat]
<1>1. n'[cl] \in Nat /\ n' \in [Client -> Nat]
  BY SMT DEF TypeInv, CountType
<1>2. (~require_auth \/ password[cl] = "right") = TRUE
  BY DEF TypeInv, ClientType, conn_authenticated
<1> QED BY <1>1, <1>2 DEF Message, AUTH, Command, OwnAuth

-----------------------------------------------------------------------------
(* AUTH goes first: whatever the server has not read yet, a command in it  *)
(* or in the queue behind it comes after an AUTH, unless the session is    *)
(* authenticated already.                                                  *)
Has(q) == \E j \in 1..Len(q) : q[j].op = "AUTH"
Covered(q) ==
  \A i \in 1..Len(q) :
    q[i].op = "command" => \E j \in 1..(i - 1) : q[j].op = "AUTH"
AuthInv ==
  require_auth /\ ~redis.authed =>
    /\ Covered(redis.in)
    /\ Has(redis.in) \/ Covered(imsg_q)
    /\ s.authenticated => Has(redis.in) \/ Has(imsg_q)

(* The requests sent are, in this order, those answered and those unread.  *)
Same(a, b) == /\ a.op = b.op
              /\ a.op = "command" => a.client = b.client /\ a.n = b.n
MatchInv ==
  /\ Len(omsg_q) = Len(replies) + Len(redis.in)
  /\ \A i \in 1..Len(replies) : Same(replies[i].of, omsg_q[i])
  /\ \A i \in 1..Len(redis.in) : Same(redis.in[i], omsg_q[Len(replies) + i])

(* A command whose reply is not swallowed is of the client in the slot.    *)
Fresh(q, b) == \A i \in 1..Len(q) :
  q[i].op = "command" /\ ~q[i].swallow => b[q[i].client] < q[i].n
FreshInv == Fresh(imsg_q, base) /\ Fresh(omsg_q, base)

Inv == /\ TypeInv /\ AuthInv /\ MatchInv /\ FreshInv
       /\ NotRefused /\ OwnReply

-----------------------------------------------------------------------------
(* What the queue operations do to the parts of the invariant.             *)

LEMMA Extended ==
    ASSUME NEW q \in Seq(Msg), NEW x \in Msg, NEW r, r = q \o <<x>>
    PROVE  /\ r \in Seq(Msg) /\ Len(r) = Len(q) + 1 /\ r[Len(q) + 1] = x
           /\ \A i \in 1..Len(q) : r[i] = q[i]
<1>1. <<x>> \in Seq(Msg) /\ Len(<<x>>) = 1 /\ <<x>>[1] = x
  BY SMT
<1>2. Len(q) \in Nat
  BY SMT
<1> QED BY <1>1, <1>2, ConcatProperties, SMT

LEMMA ExtendedCovered ==
    ASSUME NEW q \in Seq(Msg), NEW x \in Msg, NEW r, r = q \o <<x>>
    PROVE  /\ Covered(q) /\ (x.op = "command" => Has(q)) => Covered(r)
           /\ Has(q) \/ x.op = "AUTH" => Has(r)
<1>1. Len(q) \in Nat
  BY SMT
<1>2. Len(r) = Len(q) + 1 /\ r[Len(q) + 1] = x /\ \A i \in 1..Len(q) : r[i] = q[i]
  BY Extended, SMT
<1>3. ASSUME Covered(q), x.op = "command" => Has(q) PROVE Covered(r)
  <2> SUFFICES ASSUME NEW i \in 1..Len(r), r[i].op = "command"
               PROVE  \E j \in 1..(i - 1) : r[j].op = "AUTH"
    BY DEF Covered
  <2>1. CASE i = Len(q) + 1
    BY <1>1, <1>2, <1>3, <2>1, SMT DEF Has
  <2>2. CASE i # Len(q) + 1
    <3>1. i \in 1..Len(q)
      BY <1>1, <1>2, <2>2, SMT
    <3>2. PICK j \in 1..(i - 1) : q[j].op = "AUTH"
      BY <1>2, <1>3, <3>1 DEF Covered
    <3>3. j \in 1..Len(q)
      BY <1>1, <3>1, SMT
    <3> QED BY <1>2, <3>2, <3>3
  <2> QED BY <2>1, <2>2
<1>4. Has(q) \/ x.op = "AUTH" => Has(r)
  BY <1>1, <1>2, SMT DEF Has
<1> QED BY <1>3, <1>4

LEMMA ExtendedFresh ==
    ASSUME NEW q \in Seq(Msg), NEW x \in Msg, NEW r, r = q \o <<x>>, NEW b,
           Fresh(q, b), x.op = "command" /\ ~x.swallow => b[x.client] < x.n
    PROVE  Fresh(r, b)
<1>1. Len(q) \in Nat
  BY SMT
<1>2. Len(r) = Len(q) + 1 /\ r[Len(q) + 1] = x /\ \A i \in 1..Len(q) : r[i] = q[i]
  BY Extended, SMT
<1> SUFFICES ASSUME NEW i \in 1..Len(r), r[i].op = "command", ~r[i].swallow
             PROVE  b[r[i].client] < r[i].n
  BY DEF Fresh
<1>3. CASE i = Len(q) + 1
  BY <1>2, <1>3
<1>4. CASE i # Len(q) + 1
  <2>1. i \in 1..Len(q) /\ r[i] = q[i]
    BY <1>1, <1>2, <1>4, SMT
  <2> QED BY <2>1 DEF Fresh
<1> QED BY <1>3, <1>4

(* The first k requests of a queue q go behind those the server has not    *)
(* read yet.                                                               *)
LEMMA SentCovered ==
    ASSUME NEW a \in Seq(Msg), NEW q \in Seq(Msg), NEW k \in 0..Len(q),
           Covered(a), Has(a) \/ Covered(q)
    PROVE  /\ Covered(a \o SubSeq(q, 1, k))
           /\ Has(a \o SubSeq(q, 1, k)) \/ Covered(SubSeq(q, k + 1, Len(q)))
           /\ Has(a) \/ Has(q) =>
                Has(a \o SubSeq(q, 1, k)) \/ Has(SubSeq(q, k + 1, Len(q)))
<1>a. PICK a2 : a2 = a \o SubSeq(q, 1, k)
  OBVIOUS
<1>q. PICK q2 : q2 = SubSeq(q, k + 1, Len(q))
  OBVIOUS
<1> DEFINE h == SubSeq(q, 1, k)
<1>1. Len(a) \in Nat /\ Len(q) \in Nat /\ k \in Nat
  BY SMT
<1>2. /\ h \in Seq(Msg) /\ Len(h) = k /\ \A i \in 1..k : h[i] = q[i]
      /\ Len(q2) = Len(q) - k /\ \A i \in 1..(Len(q) - k) : q2[i] = q[k + i]
  BY <1>q, Halves, SMT
<1> HIDE DEF h
<1>3. /\ Len(a2) = Len(a) + k
      /\ \A i \in 1..(Len(a) + k) : a2[i] = IF i <= Len(a) THEN a[i] ELSE h[i - Len(a)]
  BY <1>a, <1>2, ConcatProperties, SMT DEF h
<1>4. \A i \in 1..Len(a) : i \in 1..Len(a2) /\ a2[i] = a[i]
  BY <1>1, <1>3, SMT
<1>5. \A i \in 1..k : Len(a) + i \in 1..Len(a2) /\ a2[Len(a) + i] = q[i]
  BY <1>1, <1>2, <1>3, SMTT(30)
<1>6. Has(a) => Has(a2)
  BY <1>4 DEF Has
<1>7. \A j \in 1..k : q[j].op = "AUTH" => Has(a2)
  BY <1>5 DEF Has
<1>8. Covered(a2)
  <2> SUFFICES ASSUME NEW i \in 1..Len(a2), a2[i].op = "command"
               PROVE  \E j \in 1..(i - 1) : a2[j].op = "AUTH"
    BY DEF Covered
  <2>1. CASE i <= Len(a)
    <3>1. i \in 1..Len(a)
      BY <1>1, <2>1, SMT
    <3>2. PICK j \in 1..(i - 1) : a[j].op = "AUTH"
      BY <1>4, <3>1 DEF Covered
    <3>3. j \in 1..Len(a)
      BY <1>1, <3>1, SMT
    <3> QED BY <1>4, <3>2, <3>3
  <2>2. CASE i > Len(a)
    <3>0. i - Len(a) \in 1..k /\ i - Len(a) \in 1..Len(q) /\ Len(a) + (i - Len(a)) = i
      <4>1. i \in 1..(Len(a) + k)
        BY <1>3
      <4> QED BY <1>1, <2>2, <4>1, SMT
    <3>1. i - Len(a) \in 1..k /\ i - Len(a) \in 1..Len(q) /\ a2[i] = q[i - Len(a)]
      BY <1>5, <3>0
    <3>2. CASE Has(a)
      <4>1. PICK j \in 1..Len(a) : a[j].op = "AUTH"
        BY <3>2 DEF Has
      <4>2. j \in 1..(i - 1)
        BY <1>1, <1>3, <2>2, SMT
      <4> QED BY <1>4, <4>1, <4>2
    <3>3. CASE ~Has(a)
      <4>1. PICK j \in 1..(i - Len(a) - 1) : q[j].op = "AUTH"
        BY <3>1, <3>3 DEF Covered
      <4>2. j \in 1..k /\ Len(a) + j \in 1..(i - 1)
        BY <1>1, <1>3, <2>2, <3>1, SMTT(30)
      <4> QED BY <1>5, <4>1, <4>2
    <3> QED BY <3>2, <3>3
  <2>3. i <= Len(a) \/ i > Len(a)
    BY <1>1, <1>3, SMT
  <2> QED BY <2>1, <2>2, <2>3
<1>9. ASSUME ~Has(a2) PROVE Covered(q2)
  <2> SUFFICES ASSUME NEW i \in 1..Len(q2), q2[i].op = "command"
               PROVE  \E j \in 1..(i - 1) : q2[j].op = "AUTH"
    BY DEF Covered
  <2>0. i \in 1..(Len(q) - k)
    BY <1>2
  <2>1. k + i \in 1..Len(q) /\ q2[i] = q[k + i]
    BY <1>1, <1>2, <2>0, SMT
  <2>2. PICK j \in 1..(k + i - 1) : q[j].op = "AUTH"
    BY <1>6, <1>9, <2>1, SMT DEF Covered
  <2>3. j \notin 1..k
    BY <1>7, <1>9, <2>2
  <2>4. j - k \in 1..(i - 1) /\ j - k \in 1..(Len(q) - k) /\ k + (j - k) = j
    BY <1>1, <1>2, <2>1, <2>3, SMT
  <2>5. q2[j - k] = q[j]
    BY <1>2, <2>4
  <2> QED BY <2>2, <2>4, <2>5
<1>10. Has(q) => Has(a2) \/ Has(q2)
  <2> SUFFICES ASSUME NEW j \in 1..Len(q), q[j].op = "AUTH", j \notin 1..k PROVE Has(q2)
    BY <1>7 DEF Has
  <2>1. j - k \in 1..(Len(q) - k) /\ k + (j - k) = j
    BY <1>1, SMT
  <2>2. q2[j - k] = q[j] /\ j - k \in 1..Len(q2)
    BY <1>2, <2>1
  <2> QED BY <2>2 DEF Has
<1> QED BY <1>a, <1>q, <1>6, <1>8, <1>9, <1>10

LEMMA SentFresh ==
    ASSUME NEW o \in Seq(Msg), NEW q \in Seq(Msg), NEW k \in 0..Len(q), NEW b,
           Fresh(o, b), Fresh(q, b)
    PROVE  Fresh(o \o SubSeq(q, 1, k), b) /\ Fresh(SubSeq(q, k + 1, Len(q)), b)
<1>o. PICK o2 : o2 = o \o SubSeq(q, 1, k)
  OBVIOUS
<1>q. PICK q2 : q2 = SubSeq(q, k + 1, Len(q))
  OBVIOUS
<1> DEFINE h == SubSeq(q, 1, k)
<1>1. Len(o) \in Nat /\ Len(q) \in Nat /\ k \in Nat
  BY SMT
<1>2. /\ h \in Seq(Msg) /\ Len(h) = k /\ \A i \in 1..k : h[i] = q[i]
      /\ Len(q2) = Len(q) - k /\ \A i \in 1..(Len(q) - k) : q2[i] = q[k + i]
  BY <1>q, Halves, SMT
<1> HIDE DEF h
<1>3. /\ Len(o2) = Len(o) + k
      /\ \A i \in 1..(Len(o) + k) : o2[i] = IF i <= Len(o) THEN o[i] ELSE h[i - Len(o)]
  BY <1>o, <1>2, ConcatProperties, SMT DEF h
<1>4. \A i \in 1..Len(o2) : \/ i \in 1..Len(o) /\ o2[i] = o[i]
                            \/ i - Len(o) \in 1..Len(q) /\ o2[i] = q[i - Len(o)]
  BY <1>1, <1>2, <1>3, SMT
<1>5. \A i \in 1..Len(q2) : k + i \in 1..Len(q) /\ q2[i] = q[k + i]
  BY <1>1, <1>2, SMT
<1>6. Fresh(o2, b)
  BY <1>4 DEF Fresh
<1>7. Fresh(q2, b)
  BY <1>5 DEF Fresh
<1> QED BY <1>o, <1>q, <1>6, <1>7

(* SELECT goes ahead of the queue.                                         *)
LEMMA Preceded ==
    ASSUME NEW q \in Seq(Msg), NEW r, r = <<SELECT>> \o q
    PROVE  /\ r \in Seq(Msg) /\ Len(r) = Len(q) + 1 /\ r[1] = SELECT
           /\ \A i \in 1..Len(q) : r[i + 1] = q[i]
<1>1. <<SELECT>> \in Seq(Msg) /\ Len(<<SELECT>>) = 1 /\ <<SELECT>>[1] = SELECT
  BY SMT DEF Msg
<1>2. Len(q) \in Nat
  BY SMT
<1>3. /\ r \in Seq(Msg) /\ Len(r) = 1 + Len(q)
      /\ \A i \in 1..(1 + Len(q)) : r[i] = IF i <= 1 THEN <<SELECT>>[i] ELSE q[i - 1]
  BY <1>1, ConcatProperties, SMT
<1>4. r[1] = SELECT
  BY <1>1, <1>2, <1>3, SMT
<1>5. \A i \in 1..Len(q) : i + 1 \in 1..(1 + Len(q)) /\ ~(i + 1 <= 1) /\ (i + 1) - 1 = i
  BY <1>2, SMT
<1> QED BY <1>2, <1>3, <1>4, <1>5, SMT

LEMMA PrecededInv ==
    ASSUME NEW q \in Seq(Msg), NEW r, r = <<SELECT>> \o q, NEW b
    PROVE  /\ Covered(q) => Covered(r)
           /\ Fresh(q, b) => Fresh(r, b)
           /\ Has(q) => Has(r)
<1>1. Len(q) \in Nat /\ Len(r) = Len(q) + 1
  BY Preceded, SMT
<1>2. \A i \in 1..Len(q) : i + 1 \in 1..Len(r) /\ r[i + 1] = q[i]
  BY <1>1, Preceded, SMT
<1>3. \A i \in 1..Len(r) : \/ r[i].op = "SELECT"
                           \/ i - 1 \in 1..Len(q) /\ r[i] = q[i - 1]
  <2> TAKE i \in 1..Len(r)
  <2>1. CASE i = 1
    BY <2>1, Preceded, SMT DEF SELECT
  <2>2. CASE i # 1
    <3>1. i - 1 \in 1..Len(q) /\ (i - 1) + 1 = i
      BY <1>1, <2>2, SMT
    <3> QED BY <1>2, <3>1
  <2> QED BY <2>1, <2>2
<1>4. ASSUME Covered(q) PROVE Covered(r)
  <2> SUFFICES ASSUME NEW i \in 1..Len(r), r[i].op = "command"
               PROVE  \E j \in 1..(i - 1) : r[j].op = "AUTH"
    BY DEF Covered
  <2>1. i - 1 \in 1..Len(q) /\ r[i] = q[i - 1]
    BY <1>3
  <2>2. PICK j \in 1..((i - 1) - 1) : q[j].op = "AUTH"
    BY <1>4, <2>1 DEF Covered
  <2>3. j \in 1..Len(q) /\ j + 1 \in 1..(i - 1)
    BY <1>1, <2>1, SMT
  <2> QED BY <1>2, <2>2, <2>3
<1>5. Fresh(q, b) => Fresh(r, b)
  BY <1>3 DEF Fresh
<1>6. Has(q) => Has(r)
  BY <1>2 DEF Has
<1> QED BY <1>4, <1>5, <1>6

(* The server has read the first request.                                  *)
LEMMA ReadCovered ==
    ASSUME NEW q \in Seq(Msg), q # <<>>, Covered(q)
    PROVE  /\ Head(q).op # "command"
           /\ Head(q).op # "AUTH" => Covered(Tail(q)) /\ (Has(q) => Has(Tail(q)))
<1>1. Len(q) \in Nat /\ 1 \in 1..Len(q) /\ Head(q) = q[1] /\ Len(Tail(q)) = Len(q) - 1
  BY SMT
<1>2. \A i \in 1..(Len(q) - 1) : Tail(q)[i] = q[i + 1]
  BY <1>1, HeadTailProperties
<1>3. Head(q).op # "command"
  BY <1>1, SMT DEF Covered
<1>4. ASSUME Head(q).op # "AUTH", NEW j \in 1..Len(q), q[j].op = "AUTH"
      PROVE  j - 1 \in 1..Len(Tail(q)) /\ Tail(q)[j - 1].op = "AUTH"
  <2>1. j # 1
    BY <1>1, <1>4
  <2>2. j - 1 \in 1..(Len(q) - 1) /\ (j - 1) + 1 = j
    BY <1>1, <2>1, SMT
  <2> QED BY <1>1, <1>2, <1>4, <2>2
<1>5. ASSUME Head(q).op # "AUTH" PROVE Covered(Tail(q))
  <2> SUFFICES ASSUME NEW i \in 1..Len(Tail(q)), Tail(q)[i].op = "command"
               PROVE  \E j \in 1..(i - 1) : Tail(q)[j].op = "AUTH"
    BY DEF Covered
  <2>1. i + 1 \in 1..Len(q) /\ Tail(q)[i] = q[i + 1]
    BY <1>1, <1>2, SMT
  <2>2. PICK j \in 1..((i + 1) - 1) : q[j].op = "AUTH"
    BY <2>1 DEF Covered
  <2>3. j \in 1..Len(q) /\ (j - 1 \in 1..Len(Tail(q)) => j - 1 \in 1..(i - 1))
    BY <1>1, <2>1, SMT
  <2> QED BY <1>4, <1>5, <2>2, <2>3
<1>6. Head(q).op # "AUTH" /\ Has(q) => Has(Tail(q))
  BY <1>4 DEF Has
<1> QED BY <1>3, <1>5, <1>6

LEMMA InvInit == Init => Inv
<1> SUFFICES ASSUME Init PROVE Inv
  OBVIOUS
<1>1. TypeInv
  <2>1. ConnType
    BY EmptySeq DEF Init, ConnType, conn_get, NewSession
  <2>2. ClientType /\ CountType /\ RanType
    BY SMT DEF Init, ClientType, CountType, RanType
  <2> QED BY <2>1, <2>2 DEF TypeInv
<1>2. imsg_q = <<>> /\ omsg_q = <<>> /\ replies = <<>> /\ redis.in = <<>> /\ ~s.authenticated
  BY DEF Init, conn_get, NewSession
<1>3. AuthInv /\ MatchInv
  BY <1>2, SMT DEF AuthInv, MatchInv, Covered
<1>4. FreshInv
  BY <1>2, SMT DEF FreshInv, Fresh
<1> QED BY <1>1, <1>3, <1>4 DEF Inv, NotRefused, OwnReply, Init, nothing

(* A connection that is closed leaves nothing behind for the next one.     *)
LEMMA ClosedInv ==
    ASSUME Inv, server_close, base' = base, CountType',
           authenticated' = authenticated, password' = password, ran' = ran,
           last' = last \/ last'.st = "error"
    PROVE  Inv'
<1>1. TypeInv'
  <2>1. ConnType' /\ CountType'
    BY ClosedType
  <2>2. ClientType' /\ RanType'
    BY DEF Inv, TypeInv, ClientType, RanType
  <2> QED BY <2>1, <2>2 DEF TypeInv
<1>2. imsg_q' = <<>> /\ omsg_q' = <<>> /\ replies' = <<>> /\ redis'.in = <<>>
      /\ ~s'.authenticated
  BY DEF server_close, conn_get, NewSession
<1>3. AuthInv' /\ MatchInv'
  BY <1>2, SMT DEF AuthInv, MatchInv, Covered
<1>4. FreshInv'
  BY <1>2, SMT DEF FreshInv, Fresh
<1> QED BY <1>1, <1>3, <1>4 DEF Inv, NotRefused, OwnReply

(* A request that the proxy answers itself touches no queue.               *)
LEMMA LocalInv ==
    ASSUME Inv, NEW cl \in Client, n' = [n EXCEPT ![cl] = @ + 1], base' = base,
           redis_reply(cl)
    PROVE  Inv'
<1>0. /\ s' = s /\ imsg_q' = imsg_q /\ omsg_q' = omsg_q /\ redis' = redis
      /\ replies' = replies /\ ran' = ran /\ last'.st = "local"
  BY DEF redis_reply, server_vars
<1>1. ClientType'
  <2>1. CASE UNCHANGED <<authenticated, password>>
    BY <2>1 DEF Inv, TypeInv, ClientType
  <2>2. ASSUME NEW given \in {"right", "wrong"}, redis_handle_auth_req(cl, given)
        PROVE  ClientType'
    <3>1. CASE require_auth
      <4>1. authenticated' = [authenticated EXCEPT ![cl] = (given = "right")]
        BY <2>2, <3>1 DEF redis_handle_auth_req
      <4>2. password' = [password EXCEPT ![cl] = given]
        BY <2>2 DEF redis_handle_auth_req
      <4>3. authenticated \in [Client -> BOOLEAN] /\ (given = "right") \in BOOLEAN
        BY DEF Inv, TypeInv, ClientType
      <4>4. authenticated' \in [Client -> BOOLEAN]
        BY <4>1, <4>3
      <4>5. password' \in [Client -> {"none", "right", "wrong"}]
        BY <4>2 DEF Inv, TypeInv, ClientType
      <4>6. ASSUME NEW c \in Client, authenticated'[c] PROVE password'[c] = "right"
        BY <3>1, <4>1, <4>2, <4>3, <4>6 DEF Inv, TypeInv, ClientType
      <4> QED BY <4>4, <4>5, <4>6 DEF ClientType
    <3>2. CASE ~require_auth
      BY <2>2, <3>2 DEF redis_handle_auth_req, Inv, TypeInv, ClientType
    <3> QED BY <3>1, <3>2
  <2> QED BY <2>1, <2>2 DEF redis_reply
<1>2. TypeInv'
  <2>1. CountType'
    BY CountStep DEF Inv, TypeInv
  <2>2. ConnType' /\ RanType'
    BY <1>0 DEF Inv, TypeInv, ConnType, RanType
  <2> QED BY <1>1, <2>1, <2>2 DEF TypeInv
<1>3. AuthInv' /\ MatchInv'
  <2>1. AuthInv'
    BY <1>0 DEF AuthInv, Inv
  <2>2. MatchInv'
    BY <1>0 DEF MatchInv, Inv
  <2> QED BY <2>1, <2>2
<1>4. FreshInv'
  BY <1>0 DEF FreshInv, Inv
<1> QED BY <1>0, <1>2, <1>3, <1>4 DEF Inv, NotRefused, OwnReply

(* A request goes to the tail of the queue, after an AUTH on a connection  *)
(* that has not had one.                                                   *)
LEMMA EnqueueInv ==
    ASSUME Inv, require_auth \in BOOLEAN, NEW cl \in Client,
           n' = [n EXCEPT ![cl] = @ + 1], base' = base,
           conn_authenticated(authenticated[cl]),
           NEW st \in {"none", "connecting", "connected"},
           NEW conn, conn = [s EXCEPT !.st = st],
           NEW m, m = Message("command", cl, ~require_auth \/ password[cl] = "right"),
           enqueue(cl, conn, m),
           UNCHANGED <<omsg_q, redis, replies, last, authenticated, password, ran>>
    PROVE  Inv'
<1>1. m \in Command /\ AUTH(cl) \in OwnAuth /\ n' \in [Client -> Nat]
  BY EnqueuedType DEF Inv
<1>2. /\ m \in Msg /\ AUTH(cl) \in Msg /\ m.op = "command" /\ AUTH(cl).op = "AUTH"
      /\ m.client = cl /\ m.n = n'[cl]
  BY <1>1 DEF Msg, Command, OwnAuth, Message
<1>3. imsg_q \in Seq(Msg) /\ redis.authed \in BOOLEAN
  BY DEF Inv, TypeInv, ConnType
<1>4. conn.authenticated = s.authenticated /\ s.authenticated \in BOOLEAN /\ conn.err = s.err
  BY DEF Inv, TypeInv, ConnType
<1>5. /\ s' \in [st : {"none", "connecting", "connected"}, authenticated : BOOLEAN, err : BOOLEAN]
      /\ require_auth => s'.authenticated
  BY <1>4 DEF enqueue, Inv, TypeInv, ConnType
<1>6. base[cl] < m.n
  BY <1>2, SMT DEF Inv, TypeInv, CountType
<1>7. Fresh(imsg_q, base)
  BY DEF Inv, FreshInv
<1>8. ASSUME require_auth, ~redis.authed, ~Has(redis.in)
      PROVE  Covered(imsg_q) /\ (s.authenticated => Has(imsg_q))
  BY <1>8 DEF Inv, AuthInv
<1>9. /\ imsg_q' \in Seq(Msg) /\ Fresh(imsg_q', base)
      /\ require_auth /\ ~redis.authed /\ ~Has(redis.in) => Covered(imsg_q') /\ Has(imsg_q')
  <2>1. CASE conn_authenticated(conn.authenticated)
    <3>1. imsg_q' = imsg_q \o <<m>>
      BY <1>3, <2>1, ConcatEmptySeq DEF enqueue
    <3>2. imsg_q' \in Seq(Msg) /\ Fresh(imsg_q', base)
      BY <1>2, <1>3, <1>6, <1>7, <3>1, Extended, ExtendedFresh
    <3>3. ASSUME require_auth, ~redis.authed, ~Has(redis.in)
          PROVE  Covered(imsg_q') /\ Has(imsg_q')
      <4>1. Covered(imsg_q) /\ Has(imsg_q)
        BY <1>4, <1>8, <2>1, <3>3 DEF conn_authenticated
      <4> QED BY <1>2, <1>3, <3>1, <4>1, ExtendedCovered
    <3> QED BY <3>2, <3>3
  <2>2. CASE ~conn_authenticated(conn.authenticated)
    <3> DEFINE q == imsg_q \o <<AUTH(cl)>>
    <3>1. imsg_q' = q \o <<m>>
      BY <2>2 DEF enqueue
    <3>2. q \in Seq(Msg) /\ Fresh(q, base)
      <4>1. AUTH(cl).op # "command"
        BY <1>2
      <4> QED BY <1>2, <1>3, <1>7, <4>1, Extended, ExtendedFresh
    <3>3. Covered(imsg_q) => Covered(q) /\ Has(q)
      <4>1. AUTH(cl).op # "command" /\ AUTH(cl).op = "AUTH"
        BY <1>2
      <4> QED BY <1>2, <1>3, <4>1, ExtendedCovered
    <3> HIDE DEF q
    <3>4. imsg_q' \in Seq(Msg) /\ Fresh(imsg_q', base)
      BY <1>2, <1>6, <3>1, <3>2, Extended, ExtendedFresh
    <3>5. Covered(q) /\ Has(q) => Covered(imsg_q') /\ Has(imsg_q')
      BY <1>2, <3>1, <3>2, ExtendedCovered
    <3> QED BY <1>8, <3>3, <3>4, <3>5
  <2> QED BY <2>1, <2>2
<1>10. TypeInv'
  <2>1. CountType'
    BY CountStep DEF Inv, TypeInv
  <2>2. ConnType'
    BY <1>5, <1>9 DEF Inv, TypeInv, ConnType
  <2>3. ClientType' /\ RanType'
    BY DEF Inv, TypeInv, ClientType, RanType
  <2> QED BY <2>1, <2>2, <2>3 DEF TypeInv
<1>11. AuthInv'
  <2>1. redis' = redis
    OBVIOUS
  <2>2. require_auth /\ ~redis'.authed => Covered(redis'.in)
    BY <2>1 DEF Inv, AuthInv
  <2> QED BY <1>9, <2>1, <2>2 DEF AuthInv
<1>12. MatchInv'
  BY DEF Inv, MatchInv
<1>13. FreshInv'
  BY <1>9 DEF Inv, FreshInv
<1> QED BY <1>10, <1>11, <1>12, <1>13 DEF Inv, NotRefused, OwnReply

(* Without memory for the AUTH the connection is only marked.              *)
LEMMA MarkedInv ==
    ASSUME Inv, NEW cl \in Client, n' = [n EXCEPT ![cl] = @ + 1], base' = base,
           NEW st \in {"none", "connecting", "connected"},
           NEW conn, conn = [s EXCEPT !.st = st], add_auth_fails(cl, conn),
           UNCHANGED <<authenticated, password, ran>>
    PROVE  Inv'
<1>1. /\ imsg_q' = imsg_q /\ omsg_q' = omsg_q /\ redis' = redis /\ replies' = replies
      /\ s' = [conn EXCEPT !.err = TRUE] /\ last'.st = "error"
  BY DEF add_auth_fails, Answered
<1>2. /\ s' \in [st : {"none", "connecting", "connected"}, authenticated : BOOLEAN, err : BOOLEAN]
      /\ s'.authenticated = s.authenticated
  BY <1>1 DEF Inv, TypeInv, ConnType
<1>3. TypeInv'
  <2>1. CountType'
    BY CountStep DEF Inv, TypeInv
  <2>2. ConnType'
    BY <1>1, <1>2 DEF Inv, TypeInv, ConnType
  <2>3. ClientType' /\ RanType'
    BY DEF Inv, TypeInv, ClientType, RanType
  <2> QED BY <2>1, <2>2, <2>3 DEF TypeInv
<1>4. AuthInv'
  BY <1>1, <1>2 DEF Inv, AuthInv
<1>5. MatchInv' /\ FreshInv'
  BY <1>1 DEF Inv, MatchInv, FreshInv
<1> QED BY <1>1, <1>3, <1>4, <1>5 DEF Inv, NotRefused, OwnReply

LEMMA RequestInv ==
    ASSUME Inv, require_auth \in BOOLEAN, NEW cl \in Client, req_recv_done(cl)
    PROVE  Inv'
<1>1. n' = [n EXCEPT ![cl] = @ + 1] /\ base' = base
  BY DEF req_recv_done
<1>2. CASE redis_reply(cl)
  BY <1>1, <1>2, LocalInv
<1>3. CASE conn_authenticated(authenticated[cl]) /\ req_forward(cl)
  <2> DEFINE m == Message("command", cl, ~require_auth \/ password[cl] = "right")
             Conn(st) == [s EXCEPT !.st = st]
             On(conn) == \/ /\ enqueue(cl, conn, m)
                            /\ UNCHANGED <<omsg_q, redis, replies, last>>
                         \/ add_auth_fails(cl, conn)
  <2>1. authenticated' = authenticated /\ password' = password /\ ran' = ran
    BY <1>3 DEF req_forward
  <2>2. \/ server_close /\ last'.st = "error"
        \/ On(Conn("connected")) \/ On(Conn("connecting")) \/ On(s)
    BY <1>3, SMT DEF req_forward, Answered
  <2>3. s = Conn(s.st) /\ s.st \in {"none", "connecting", "connected"}
    BY DEF Inv, TypeInv, ConnType
  <2>4. CASE server_close /\ last'.st = "error"
    <3>1. CountType'
      BY <1>1, CountStep DEF Inv, TypeInv
    <3> QED BY <1>1, <2>1, <2>4, <3>1, ClosedInv
  <2>5. ASSUME NEW st \in {"none", "connecting", "connected"}, On(Conn(st)) PROVE Inv'
    <3>1. CASE enqueue(cl, Conn(st), m) /\ UNCHANGED <<omsg_q, redis, replies, last>>
      BY <1>1, <1>3, <2>1, <3>1, EnqueueInv
    <3>2. CASE add_auth_fails(cl, Conn(st))
      BY <1>1, <2>1, <3>2, MarkedInv
    <3> QED BY <2>5, <3>1, <3>2
  <2> HIDE DEF Conn, On
  <2> QED BY <2>2, <2>3, <2>4, <2>5
<1> QED BY <1>2, <1>3 DEF req_recv_done

(* The requests of a client that goes are marked.                          *)
Swallowed(q, cl) ==
  [i \in DOMAIN q |-> IF q[i].op = "command" /\ q[i].client = cl
                      THEN [q[i] EXCEPT !.swallow = TRUE] ELSE q[i]]

LEMMA CommandFacts ==
    ASSUME NEW m \in Msg, m.op = "command"
    PROVE  m \in Command /\ m.client \in Client /\ m.n \in Nat
<1>1. \A x \in OwnAuth : x.op = "AUTH"
  BY DEF OwnAuth
<1>2. SELECT.op = "SELECT"
  BY DEF SELECT
<1>3. m \in Command
  BY <1>1, <1>2 DEF Msg
<1> QED BY <1>3 DEF Command

LEMMA SwallowedFacts ==
    ASSUME NEW q \in Seq(Msg), NEW cl, NEW r, r = Swallowed(q, cl)
    PROVE  /\ r \in Seq(Msg) /\ Len(r) = Len(q)
           /\ \A i \in 1..Len(q) :
                /\ r[i].op = q[i].op
                /\ q[i].op = "command" =>
                     /\ r[i].client = q[i].client /\ r[i].n = q[i].n
                     /\ ~r[i].swallow => q[i].client # cl /\ ~q[i].swallow
<1>1. Len(q) \in Nat /\ DOMAIN q = 1..Len(q) /\ \A i \in 1..Len(q) : q[i] \in Msg
  BY SMT
<1>2. \A m \in Command :
          /\ [m EXCEPT !.swallow = TRUE] \in Command
          /\ [m EXCEPT !.swallow = TRUE].op = m.op
          /\ [m EXCEPT !.swallow = TRUE].client = m.client
          /\ [m EXCEPT !.swallow = TRUE].n = m.n
          /\ [m EXCEPT !.swallow = TRUE].swallow = TRUE
  BY DEF Command
<1>3. \A i \in 1..Len(q) :
          /\ r[i] \in Msg /\ r[i].op = q[i].op
          /\ q[i].op = "command" =>
               /\ r[i].client = q[i].client /\ r[i].n = q[i].n
               /\ ~r[i].swallow => q[i].client # cl /\ ~q[i].swallow
  <2> TAKE i \in 1..Len(q)
  <2>1. CASE q[i].op = "command" /\ q[i].client = cl
    <3>1. r[i] = [q[i] EXCEPT !.swallow = TRUE]
      BY <1>1, <2>1 DEF Swallowed
    <3>2. q[i] \in Command
      BY <1>1, <2>1, CommandFacts
    <3> QED BY <1>2, <2>1, <3>1, <3>2 DEF Msg
  <2>2. CASE ~(q[i].op = "command" /\ q[i].client = cl)
    <3>1. r[i] = q[i]
      BY <1>1, <2>2 DEF Swallowed
    <3> QED BY <1>1, <2>2, <3>1
  <2> QED BY <2>1, <2>2
<1>4. r \in [1..Len(q) -> Msg]
  BY <1>1, <1>3 DEF Swallowed
<1>5. r \in Seq(Msg) /\ Len(r) = Len(q)
  BY <1>1, <1>4, SMT
<1> QED BY <1>3, <1>5

LEMMA SwallowedInv ==
    ASSUME NEW q \in Seq(Msg), NEW cl \in Client, NEW r, r = Swallowed(q, cl),
           NEW b \in [Client -> Nat], NEW x
    PROVE  /\ Covered(q) => Covered(r)
           /\ Has(q) => Has(r)
           /\ Fresh(q, b) => Fresh(r, [b EXCEPT ![cl] = x])
<1>1. Len(q) \in Nat /\ Len(r) = Len(q) /\ \A i \in 1..Len(q) : q[i] \in Msg
  BY SwallowedFacts, SMT
<1>2. \A i \in 1..Len(q) : r[i].op = q[i].op
  BY SwallowedFacts, SMT
<1>3. Covered(q) => Covered(r)
  <2> SUFFICES ASSUME Covered(q), NEW i \in 1..Len(r), r[i].op = "command"
               PROVE  \E j \in 1..(i - 1) : r[j].op = "AUTH"
    BY DEF Covered
  <2>1. PICK j \in 1..(i - 1) : q[j].op = "AUTH"
    BY <1>1, <1>2 DEF Covered
  <2>2. j \in 1..Len(q)
    BY <1>1, SMT
  <2> QED BY <1>2, <2>1, <2>2
<1>4. Has(q) => Has(r)
  BY <1>1, <1>2 DEF Has
<1>5. ASSUME Fresh(q, b), NEW i \in 1..Len(r), r[i].op = "command", ~r[i].swallow
      PROVE  [b EXCEPT ![cl] = x][r[i].client] < r[i].n
  <2>1. q[i].op = "command" /\ r[i].client = q[i].client /\ r[i].n = q[i].n
        /\ q[i].client # cl /\ ~q[i].swallow
    BY <1>1, <1>2, <1>5, SwallowedFacts, SMTT(30)
  <2>2. q[i].client \in Client
    BY <1>1, <1>5, <2>1, CommandFacts
  <2>3. b[q[i].client] < q[i].n
    BY <1>1, <1>5, <2>1 DEF Fresh
  <2> QED BY <2>1, <2>2, <2>3
<1>6. Fresh(q, b) => Fresh(r, [b EXCEPT ![cl] = x])
  BY <1>5 DEF Fresh
<1> QED BY <1>3, <1>4, <1>6

(* client_close() leaves the next client in the slot neither its standing  *)
(* nor its replies.                                                        *)
LEMMA ClientCloseInv ==
    ASSUME Inv, NEW cl \in Client, client_close(cl)
    PROVE  Inv'
<1>1. /\ imsg_q' = Swallowed(imsg_q, cl) /\ omsg_q' = Swallowed(omsg_q, cl)
      /\ base' = [base EXCEPT ![cl] = n[cl]]
      /\ authenticated' = [authenticated EXCEPT ![cl] = FALSE]
      /\ password' = [password EXCEPT ![cl] = "none"]
      /\ n' = n /\ s' = s /\ redis' = redis /\ replies' = replies /\ ran' = ran /\ last' = last
  BY DEF client_close, Swallowed
<1>2. /\ imsg_q \in Seq(Msg) /\ omsg_q \in Seq(Msg) /\ base \in [Client -> Nat]
      /\ redis.in \in Seq(Msg) /\ replies \in Seq(Reply)
  BY DEF Inv, TypeInv, ConnType, CountType
<1>3. imsg_q' \in Seq(Msg) /\ omsg_q' \in Seq(Msg) /\ Len(omsg_q') = Len(omsg_q)
  BY <1>1, <1>2, SwallowedFacts
<1>4. TypeInv'
  <2>1. ClientType'
    BY <1>1 DEF Inv, TypeInv, ClientType
  <2>2. CountType'
    BY <1>1, SMT DEF Inv, TypeInv, CountType
  <2>3. ConnType'
    BY <1>1, <1>3 DEF Inv, TypeInv, ConnType
  <2>4. RanType'
    BY <1>1 DEF Inv, TypeInv, RanType
  <2> QED BY <2>1, <2>2, <2>3, <2>4 DEF TypeInv
<1>5. FreshInv'
  <2>1. Fresh(imsg_q, base) /\ Fresh(omsg_q, base)
    BY DEF Inv, FreshInv
  <2>2. Fresh(imsg_q', base') /\ Fresh(omsg_q', base')
    BY <1>1, <1>2, <2>1, SwallowedInv
  <2> QED BY <2>2 DEF FreshInv
<1>6. AuthInv'
  <2>1. (Covered(imsg_q) => Covered(imsg_q')) /\ (Has(imsg_q) => Has(imsg_q'))
    BY <1>1, <1>2, SwallowedInv
  <2> QED BY <1>1, <2>1 DEF Inv, AuthInv
<1>7. MatchInv'
  <2>1. \A m \in Msg, i \in 1..Len(omsg_q) :
            Same(m, omsg_q[i]) => Same(m, omsg_q'[i])
    <3> SUFFICES ASSUME NEW m \in Msg, NEW i \in 1..Len(omsg_q), Same(m, omsg_q[i])
                 PROVE  Same(m, omsg_q'[i])
      OBVIOUS
    <3>1. /\ omsg_q'[i].op = omsg_q[i].op
          /\ omsg_q[i].op = "command" => /\ omsg_q'[i].client = omsg_q[i].client
                                         /\ omsg_q'[i].n = omsg_q[i].n
      BY <1>1, <1>2, SwallowedFacts, SMTT(30)
    <3> QED BY <3>1 DEF Same
  <2>2. /\ Len(omsg_q) = Len(replies) + Len(redis.in)
        /\ Len(omsg_q) \in Nat /\ Len(replies) \in Nat /\ Len(redis.in) \in Nat
    BY <1>2, SMT DEF Inv, MatchInv
  <2>3. ASSUME NEW i \in 1..Len(replies) PROVE Same(replies[i].of, omsg_q'[i])
    <3>1. Same(replies[i].of, omsg_q[i]) /\ i \in 1..Len(omsg_q)
      BY <2>2, SMT DEF Inv, MatchInv
    <3>2. replies[i] \in Reply
      BY <1>2, SMT
    <3>3. replies[i].of \in Msg
      BY <3>2 DEF Reply
    <3> QED BY <2>1, <3>1, <3>3
  <2>4. ASSUME NEW i \in 1..Len(redis.in)
        PROVE  Same(redis.in[i], omsg_q'[Len(replies) + i])
    <3>1. Len(replies) + i \in 1..Len(omsg_q)
      BY <2>2, SMTT(30)
    <3>3. Same(redis.in[i], omsg_q[Len(replies) + i])
      BY DEF Inv, MatchInv
    <3>2. redis.in[i] \in Msg
      BY <1>2, SMTT(30)
    <3> QED BY <2>1, <3>1, <3>2, <3>3
  <2> QED BY <1>1, <1>3, <2>2, <2>3, <2>4 DEF MatchInv
<1> QED BY <1>1, <1>4, <1>5, <1>6, <1>7 DEF Inv, NotRefused, OwnReply

(* What is sent goes behind what was sent before.                          *)
LEMMA Joined ==
    ASSUME NEW a \in Seq(Msg), NEW h \in Seq(Msg)
    PROVE  /\ a \o h \in Seq(Msg) /\ Len(a \o h) = Len(a) + Len(h)
           /\ \A i \in 1..(Len(a) + Len(h)) :
                (a \o h)[i] = IF i <= Len(a) THEN a[i] ELSE h[i - Len(a)]
BY ConcatProperties

(* Some of what waits is written, after the SELECT of a connection that    *)
(* has just been established.                                              *)
LEMMA SendInv ==
    ASSUME Inv, NEW k, msg_send(k)
    PROVE  Inv'
<1>1. /\ s' = [s EXCEPT !.st = "connected"]
      /\ authenticated' = authenticated /\ password' = password /\ n' = n /\ base' = base
      /\ replies' = replies /\ ran' = ran /\ last' = last
  BY DEF msg_send, client_vars
<1>2. /\ imsg_q \in Seq(Msg) /\ omsg_q \in Seq(Msg) /\ redis.in \in Seq(Msg)
      /\ replies \in Seq(Reply)
      /\ s \in [st : {"none", "connecting", "connected"}, authenticated : BOOLEAN, err : BOOLEAN]
      /\ redis \in [authed : BOOLEAN, db : {0, redis_db}, in : Seq(Msg)]
  BY DEF Inv, TypeInv, ConnType
<1>3. PICK q : /\ q = imsg_q \/ q = <<SELECT>> \o imsg_q
               /\ k \in 0..Len(q)
               /\ imsg_q' = SubSeq(q, k + 1, Len(q))
               /\ omsg_q' = omsg_q \o SubSeq(q, 1, k)
               /\ redis' = [redis EXCEPT !.in = @ \o SubSeq(q, 1, k)]
  BY DEF msg_send, post_connect
<1>4. /\ q \in Seq(Msg) /\ (Covered(imsg_q) => Covered(q)) /\ (Has(imsg_q) => Has(q))
      /\ Fresh(imsg_q, base) => Fresh(q, base)
  <2>1. CASE q = imsg_q
    BY <1>2, <2>1
  <2>2. CASE q = <<SELECT>> \o imsg_q
    BY <1>2, <2>2, Preceded, PrecededInv
  <2> QED BY <1>3, <2>1, <2>2
<1> DEFINE h == SubSeq(q, 1, k)
<1>5. /\ h \in Seq(Msg) /\ Len(h) = k /\ imsg_q' \in Seq(Msg) /\ k \in Nat
  <2>1. k \in 0..Len(q) /\ q \in Seq(Msg) /\ Len(q) \in Nat
    BY <1>3, <1>4, SMTT(30)
  <2>2. h \in Seq(Msg) /\ Len(h) = k /\ SubSeq(q, k + 1, Len(q)) \in Seq(Msg)
    BY <2>1, Halves, SMTT(30)
  <2>3. k \in Nat
    BY <2>1, SMTT(30)
  <2> QED BY <1>3, <2>2, <2>3
<1>6. /\ s' \in [st : {"none", "connecting", "connected"}, authenticated : BOOLEAN, err : BOOLEAN]
      /\ s'.authenticated = s.authenticated
  BY <1>1, <1>2
<1>7. /\ redis'.authed = redis.authed /\ redis'.db = redis.db
      /\ redis'.in = redis.in \o SubSeq(q, 1, k)
  BY <1>2, <1>3
<1>8. omsg_q' = omsg_q \o h /\ redis'.in = redis.in \o h
  BY <1>3, <1>7
<1> HIDE DEF h
<1>9. /\ omsg_q' \in Seq(Msg) /\ Len(omsg_q') = Len(omsg_q) + k
      /\ \A i \in 1..(Len(omsg_q) + k) :
           omsg_q'[i] = IF i <= Len(omsg_q) THEN omsg_q[i] ELSE h[i - Len(omsg_q)]
  <2>1. omsg_q \in Seq(Msg) /\ h \in Seq(Msg)
    BY <1>2, <1>5
  <2>2. Len(h) = k /\ omsg_q' = omsg_q \o h
    BY <1>5, <1>8
  <2>3. /\ omsg_q \o h \in Seq(Msg) /\ Len(omsg_q \o h) = Len(omsg_q) + Len(h)
        /\ \A i \in 1..(Len(omsg_q) + Len(h)) :
             (omsg_q \o h)[i] = IF i <= Len(omsg_q) THEN omsg_q[i] ELSE h[i - Len(omsg_q)]
    BY <2>1, Joined
  <2> QED BY <2>2, <2>3
<1>10. /\ redis'.in \in Seq(Msg) /\ Len(redis'.in) = Len(redis.in) + k
       /\ \A i \in 1..(Len(redis.in) + k) :
            redis'.in[i] = IF i <= Len(redis.in) THEN redis.in[i] ELSE h[i - Len(redis.in)]
  <2>1. redis.in \in Seq(Msg) /\ h \in Seq(Msg)
    BY <1>2, <1>5
  <2>2. Len(h) = k /\ redis'.in = redis.in \o h
    BY <1>5, <1>8
  <2>3. /\ redis.in \o h \in Seq(Msg) /\ Len(redis.in \o h) = Len(redis.in) + Len(h)
        /\ \A i \in 1..(Len(redis.in) + Len(h)) :
             (redis.in \o h)[i] = IF i <= Len(redis.in) THEN redis.in[i] ELSE h[i - Len(redis.in)]
    BY <2>1, Joined
  <2> QED BY <2>2, <2>3
<1>11. TypeInv'
  <2>1. redis' \in [authed : BOOLEAN, db : {0, redis_db}, in : Seq(Msg)]
    BY <1>2, <1>3, <1>8, <1>10
  <2>2. ConnType'
    BY <1>1, <1>2, <1>5, <1>6, <1>9, <2>1 DEF ConnType
  <2>3. ClientType' /\ CountType' /\ RanType'
    BY <1>1 DEF Inv, TypeInv, ClientType, CountType, RanType
  <2> QED BY <2>2, <2>3 DEF TypeInv
<1>12. AuthInv'
  <2> SUFFICES ASSUME require_auth, ~redis.authed
               PROVE  /\ Covered(redis'.in)
                      /\ Has(redis'.in) \/ Covered(imsg_q')
                      /\ s.authenticated => Has(redis'.in) \/ Has(imsg_q')
    BY <1>6, <1>7 DEF AuthInv
  <2>1. /\ Covered(redis.in) /\ (Has(redis.in) \/ Covered(q))
        /\ s.authenticated => Has(redis.in) \/ Has(q)
    BY <1>4 DEF Inv, AuthInv
  <2>2. Covered(redis.in)
    BY <2>1
  <2>3. Has(redis.in) \/ Covered(q)
    BY <2>1
  <2>4. redis.in \in Seq(Msg) /\ q \in Seq(Msg) /\ k \in 0..Len(q)
    BY <1>2, <1>3, <1>4
  <2>5. imsg_q' = SubSeq(q, k + 1, Len(q))
    BY <1>3
  <2>6. redis'.in = redis.in \o SubSeq(q, 1, k)
    BY <1>7
  <2>7. /\ Covered(redis'.in) /\ (Has(redis'.in) \/ Covered(imsg_q'))
        /\ Has(redis.in) \/ Has(q) => Has(redis'.in) \/ Has(imsg_q')
    <3>1. /\ Covered(redis.in \o SubSeq(q, 1, k))
          /\ Has(redis.in \o SubSeq(q, 1, k)) \/ Covered(SubSeq(q, k + 1, Len(q)))
          /\ Has(redis.in) \/ Has(q) =>
               Has(redis.in \o SubSeq(q, 1, k)) \/ Has(SubSeq(q, k + 1, Len(q)))
      BY <2>2, <2>3, <2>4, SentCovered
    <3> QED BY <2>5, <2>6, <3>1
  <2> QED BY <2>1, <2>7
<1>13. FreshInv'
  <2>1. Fresh(omsg_q, base)
    BY DEF Inv, FreshInv
  <2>2. Fresh(q, base)
    BY <1>4 DEF Inv, FreshInv
  <2>3. omsg_q \in Seq(Msg) /\ q \in Seq(Msg) /\ k \in 0..Len(q)
    BY <1>2, <1>3, <1>4
  <2>4. imsg_q' = SubSeq(q, k + 1, Len(q)) /\ omsg_q' = omsg_q \o SubSeq(q, 1, k)
    BY <1>3
  <2>5. Fresh(omsg_q', base) /\ Fresh(imsg_q', base)
    <3>1. Fresh(omsg_q \o SubSeq(q, 1, k), base) /\ Fresh(SubSeq(q, k + 1, Len(q)), base)
      BY <2>1, <2>2, <2>3, SentFresh
    <3> QED BY <2>4, <3>1
  <2> QED BY <1>1, <2>5 DEF FreshInv
<1>14. MatchInv'
  <2>1. /\ Len(omsg_q) = Len(replies) + Len(redis.in)
        /\ Len(replies) \in Nat /\ Len(redis.in) \in Nat /\ Len(omsg_q) \in Nat
    BY <1>2, SMTT(30) DEF Inv, MatchInv
  <2>2. Len(omsg_q') = Len(replies') + Len(redis'.in)
    <3>1. Len(omsg_q') = Len(omsg_q) + k /\ Len(redis'.in) = Len(redis.in) + k /\ k \in Nat
      BY <1>5, <1>9, <1>10
    <3>2. replies' = replies
      BY <1>1
    <3> QED BY <2>1, <3>1, <3>2, SMT
  <2>3. \A i \in 1..Len(omsg_q) : omsg_q'[i] = omsg_q[i]
    <3> TAKE i \in 1..Len(omsg_q)
    <3>1. i \in 1..(Len(omsg_q) + k) /\ i <= Len(omsg_q)
      BY <1>5, <2>1, SMT
    <3> QED BY <1>9, <3>1
  <2>4. \A i \in 1..Len(replies) : Same(replies[i].of, omsg_q'[i])
    <3>1. \A i \in 1..Len(replies) : i \in 1..Len(omsg_q)
      BY <2>1, SMT
    <3> QED BY <2>3, <3>1 DEF Inv, MatchInv
  <2>5. ASSUME NEW i \in 1..Len(redis'.in)
        PROVE  Same(redis'.in[i], omsg_q'[Len(replies) + i])
    <3>0. i \in 1..(Len(redis.in) + k)
      BY <1>10
    <3>1. CASE i <= Len(redis.in)
      <4>1. i \in 1..Len(redis.in) /\ Len(replies) + i \in 1..Len(omsg_q)
        BY <1>5, <2>1, <3>0, <3>1, SMTT(30)
      <4>2. redis'.in[i] = redis.in[i]
        BY <1>10, <3>0, <3>1
      <4> QED BY <2>3, <4>1, <4>2 DEF Inv, MatchInv
    <3>2. CASE ~(i <= Len(redis.in))
      <4>1. /\ Len(replies) + i \in 1..(Len(omsg_q) + k) /\ ~(Len(replies) + i <= Len(omsg_q))
            /\ (Len(replies) + i) - Len(omsg_q) = i - Len(redis.in)
        BY <1>5, <2>1, <3>0, <3>2, SMTT(30)
      <4>2. redis'.in[i] = omsg_q'[Len(replies) + i]
        BY <1>9, <1>10, <3>0, <3>2, <4>1
      <4> QED BY <4>2 DEF Same
    <3> QED BY <3>1, <3>2
  <2> QED BY <1>1, <2>2, <2>4, <2>5 DEF MatchInv
<1> QED BY <1>1, <1>11, <1>12, <1>13, <1>14 DEF Inv, NotRefused, OwnReply

(* A reply goes to the request it answers: the oldest one sent.            *)
LEMMA ReplyInv ==
    ASSUME Inv, rsp_recv_done
    PROVE  Inv'
<1>1. /\ authenticated' = authenticated /\ password' = password /\ n' = n /\ base' = base
      /\ ran' = ran
  BY DEF rsp_recv_done, client_vars
<1>2. CASE server_close /\ last' = last
  <2>1. CountType'
    BY <1>1 DEF Inv, TypeInv, CountType
  <2> QED BY <1>1, <1>2, <2>1, ClosedInv
<1>3. CASE /\ replies # <<>> /\ replies' = Tail(replies) /\ omsg_q' = Tail(omsg_q)
           /\ last' = IF Head(omsg_q).swallow THEN last
                      ELSE [st |-> "reply", client |-> Head(omsg_q).client,
                            n |-> Head(omsg_q).n, of |-> Head(replies).of]
           /\ s' = s /\ imsg_q' = imsg_q /\ redis' = redis
  <2>1. /\ omsg_q \in Seq(Msg) /\ replies \in Seq(Reply) /\ redis.in \in Seq(Msg)
        /\ Len(omsg_q) \in Nat /\ Len(replies) \in Nat /\ Len(redis.in) \in Nat
        /\ Len(omsg_q) = Len(replies) + Len(redis.in)
    BY SMTT(30) DEF Inv, TypeInv, ConnType, MatchInv
  <2>2. Len(replies) > 0 /\ 1 \in 1..Len(replies)
    BY <1>3, <2>1, SMTT(30)
  <2>3. Len(omsg_q) > 0 /\ omsg_q # <<>> /\ 1 \in 1..Len(omsg_q)
    BY <2>1, <2>2, SMTT(30)
  <2>4. /\ replies' \in Seq(Reply) /\ Len(replies') = Len(replies) - 1
        /\ \A i \in 1..(Len(replies) - 1) : replies'[i] = replies[i + 1]
    BY <1>3, <2>1, HeadTailProperties
  <2>5. /\ omsg_q' \in Seq(Msg) /\ Len(omsg_q') = Len(omsg_q) - 1
        /\ \A i \in 1..(Len(omsg_q) - 1) : omsg_q'[i] = omsg_q[i + 1]
    BY <1>3, <2>1, <2>3, HeadTailProperties
  <2>6. TypeInv'
    <3>1. ConnType'
      BY <1>3, <2>4, <2>5 DEF Inv, TypeInv, ConnType
    <3>2. ClientType' /\ CountType' /\ RanType'
      BY <1>1 DEF Inv, TypeInv, ClientType, CountType, RanType
    <3> QED BY <3>1, <3>2 DEF TypeInv
  <2>7. AuthInv'
    BY <1>3 DEF Inv, AuthInv
  <2>8. FreshInv'
    <3>1. \A i \in 1..Len(omsg_q') : i + 1 \in 1..Len(omsg_q) /\ omsg_q'[i] = omsg_q[i + 1]
      BY <2>1, <2>5, SMTT(30)
    <3> QED BY <1>1, <1>3, <3>1 DEF Inv, FreshInv, Fresh
  <2>9. MatchInv'
    <3>1. Len(omsg_q') = Len(replies') + Len(redis'.in)
      BY <1>3, <2>1, <2>4, <2>5, SMTT(30)
    <3>2. ASSUME NEW i \in 1..Len(replies') PROVE Same(replies'[i].of, omsg_q'[i])
      <4>1. /\ i \in 1..(Len(replies) - 1) /\ i \in 1..(Len(omsg_q) - 1)
            /\ i + 1 \in 1..Len(replies)
        BY <2>1, <2>4, SMTT(30)
      <4>2. Same(replies[i + 1].of, omsg_q[i + 1])
        BY <4>1 DEF Inv, MatchInv
      <4> QED BY <2>4, <2>5, <4>1, <4>2
    <3>3. ASSUME NEW i \in 1..Len(redis.in)
          PROVE  Same(redis.in[i], omsg_q'[Len(replies') + i])
      <4>1. /\ Len(replies') + i \in 1..(Len(omsg_q) - 1)
            /\ (Len(replies') + i) + 1 = Len(replies) + i
        BY <2>1, <2>2, <2>4, SMTT(30)
      <4>2. Same(redis.in[i], omsg_q[Len(replies) + i])
        BY DEF Inv, MatchInv
      <4> QED BY <2>5, <4>1, <4>2
    <3> QED BY <1>3, <3>1, <3>2, <3>3 DEF MatchInv
  <2>10. OwnReply'
    <3>1. CASE Head(omsg_q).swallow
      BY <1>3, <3>1 DEF Inv, OwnReply
    <3>2. CASE ~Head(omsg_q).swallow
      <4>1. Head(omsg_q) = omsg_q[1] /\ Head(replies) = replies[1]
        BY <2>1, SMT
      <4>2. omsg_q[1] \in Msg
        BY <2>1, <2>3, SMT
      <4>3. omsg_q[1].op = "command"
        <5>1. \A x \in OwnAuth : x.swallow
          BY DEF OwnAuth
        <5>2. SELECT.swallow
          BY DEF SELECT
        <5>3. \A x \in Command : x.op = "command"
          BY DEF Command
        <5> QED BY <3>2, <4>1, <4>2, <5>1, <5>2, <5>3 DEF Msg
      <4>4. Same(replies[1].of, omsg_q[1])
        BY <2>2 DEF Inv, MatchInv
      <4>5. /\ replies[1].of.op = "command" /\ replies[1].of.client = omsg_q[1].client
            /\ replies[1].of.n = omsg_q[1].n
        BY <4>3, <4>4 DEF Same
      <4>6. /\ last'.of = replies[1].of /\ last'.client = omsg_q[1].client
            /\ last'.n = omsg_q[1].n
        BY <1>3, <3>2, <4>1
      <4> QED BY <4>5, <4>6 DEF OwnReply
    <3> QED BY <3>1, <3>2
  <2> QED BY <1>1, <2>6, <2>7, <2>8, <2>9, <2>10 DEF Inv, NotRefused
<1> QED BY <1>2, <1>3 DEF rsp_recv_done

(* The server reads a request: a command only once it has had an AUTH.     *)
LEMMA ExecutesInv ==
    ASSUME Inv, require_auth \in BOOLEAN, "AUTH" \notin Transient, server_executes
    PROVE  Inv'
<1>1. /\ authenticated' = authenticated /\ password' = password /\ n' = n /\ base' = base
      /\ s' = s /\ imsg_q' = imsg_q /\ omsg_q' = omsg_q /\ last' = last
  BY DEF server_executes, client_vars
<1>2. /\ omsg_q \in Seq(Msg) /\ replies \in Seq(Reply) /\ redis.in \in Seq(Msg)
      /\ Len(omsg_q) \in Nat /\ Len(replies) \in Nat /\ Len(redis.in) \in Nat
      /\ Len(omsg_q) = Len(replies) + Len(redis.in)
      /\ redis \in [authed : BOOLEAN, db : {0, redis_db}, in : Seq(Msg)]
  BY SMTT(30) DEF Inv, TypeInv, ConnType, MatchInv
<1>3. redis.in # <<>> /\ Len(redis.in) > 0 /\ 1 \in 1..Len(redis.in)
  BY <1>2, SMTT(30) DEF server_executes
<1>4. PICK m : m = Head(redis.in)
  OBVIOUS
<1>5. m \in Msg /\ m = redis.in[1]
  BY <1>2, <1>3, <1>4, SMT
<1>6. PICK st : /\ st \in {"ok", "refused", "transient"}
                /\ replies' = Append(replies, [st |-> st, of |-> m])
  BY <1>4 DEF server_executes
<1>7. /\ redis'.in = Tail(redis.in) /\ redis'.db \in {0, redis_db}
      /\ redis'.authed = redis.authed \/ (redis'.authed /\ m.op = "AUTH")
      /\ redis'.authed \in BOOLEAN
      /\ redis' = [authed |-> redis'.authed, db |-> redis'.db, in |-> redis'.in]
  BY <1>2, <1>4 DEF server_executes
<1>8. m.op = "AUTH" => redis'.authed
  BY <1>2, <1>4 DEF server_executes
<1>9. /\ redis'.in \in Seq(Msg) /\ Len(redis'.in) = Len(redis.in) - 1
      /\ \A i \in 1..(Len(redis.in) - 1) : redis'.in[i] = redis.in[i + 1]
  BY <1>2, <1>3, <1>7, HeadTailProperties, SMTT(30)
<1>10. /\ replies' \in Seq(Reply) /\ Len(replies') = Len(replies) + 1
       /\ \A i \in 1..Len(replies) : replies'[i] = replies[i]
       /\ replies'[Len(replies) + 1].of = m
  <2>1. [st |-> st, of |-> m] \in Reply /\ [st |-> st, of |-> m].of = m
    BY <1>5, <1>6 DEF Reply
  <2> QED BY <1>2, <1>6, <2>1, AppendProperties, SMTT(30)
<1>11. require_auth /\ ~redis.authed => m.op # "command"
  BY <1>2, <1>3, <1>4, ReadCovered DEF Inv, AuthInv
<1>12. \/ ran' = ran
       \/ ran' = [st |-> "ran", trusted |-> TRUE, db |-> redis.db]
  <2>1. m.op = "command" => m.trusted = TRUE
    <3>1. m.op = "command" => m \in Command
      BY <1>5, CommandFacts
    <3> QED BY <3>1 DEF Command
  <2> QED BY <1>4, <1>11, <2>1 DEF server_executes
<1>13. TypeInv' /\ NotRefused'
  <2>1. RanType' /\ NotRefused'
    <3>1. CASE ran' = ran
      BY <3>1 DEF Inv, TypeInv, RanType, NotRefused
    <3>2. CASE ran' = [st |-> "ran", trusted |-> TRUE, db |-> redis.db]
      <4>1. redis.db \in {0, redis_db}
        BY <1>2
      <4> QED BY <3>2, <4>1 DEF RanType, NotRefused
    <3> QED BY <1>12, <3>1, <3>2
  <2>2. redis' \in [authed : BOOLEAN, db : {0, redis_db}, in : Seq(Msg)]
    BY <1>7, <1>9
  <2>3. ConnType'
    BY <1>1, <1>10, <2>2 DEF Inv, TypeInv, ConnType
  <2>4. ClientType' /\ CountType'
    BY <1>1 DEF Inv, TypeInv, ClientType, CountType
  <2> QED BY <2>1, <2>3, <2>4 DEF TypeInv
<1>14. AuthInv'
  <2> SUFFICES ASSUME require_auth, ~redis'.authed
               PROVE  /\ Covered(redis'.in)
                      /\ Has(redis'.in) \/ Covered(imsg_q)
                      /\ s.authenticated => Has(redis'.in) \/ Has(imsg_q)
    BY <1>1 DEF AuthInv
  <2>1. m.op # "AUTH" /\ ~redis.authed
    BY <1>7, <1>8
  <2>2. /\ Covered(redis.in)
        /\ Has(redis.in) \/ Covered(imsg_q)
        /\ s.authenticated => Has(redis.in) \/ Has(imsg_q)
    BY <2>1 DEF Inv, AuthInv
  <2>3. Covered(redis'.in) /\ (Has(redis.in) => Has(redis'.in))
    BY <1>2, <1>3, <1>4, <1>7, <2>1, <2>2, ReadCovered
  <2> QED BY <2>2, <2>3
<1>15. MatchInv'
  <2>1. Len(omsg_q') = Len(replies') + Len(redis'.in)
    BY <1>1, <1>2, <1>9, <1>10, SMTT(30)
  <2>2. ASSUME NEW i \in 1..Len(replies') PROVE Same(replies'[i].of, omsg_q[i])
    <3>1. CASE i = Len(replies) + 1
      <4>1. Same(redis.in[1], omsg_q[Len(replies) + 1])
        BY <1>3 DEF Inv, MatchInv
      <4> QED BY <1>5, <1>10, <3>1, <4>1
    <3>2. CASE i # Len(replies) + 1
      <4>1. i \in 1..Len(replies)
        BY <1>2, <1>10, <3>2, SMTT(30)
      <4> QED BY <1>10, <4>1 DEF Inv, MatchInv
    <3> QED BY <3>1, <3>2
  <2>3. ASSUME NEW i \in 1..Len(redis'.in)
        PROVE  Same(redis'.in[i], omsg_q[Len(replies') + i])
    <3>1. /\ i \in 1..(Len(redis.in) - 1) /\ i + 1 \in 1..Len(redis.in)
          /\ Len(replies') + i = Len(replies) + (i + 1)
      BY <1>2, <1>9, <1>10, SMTT(30)
    <3>2. Same(redis.in[i + 1], omsg_q[Len(replies) + (i + 1)])
      BY <3>1 DEF Inv, MatchInv
    <3> QED BY <1>9, <3>1, <3>2
  <2> QED BY <1>1, <2>1, <2>2, <2>3 DEF MatchInv
<1>16. FreshInv' /\ OwnReply'
  BY <1>1 DEF Inv, FreshInv, OwnReply
<1> QED BY <1>13, <1>14, <1>15, <1>16 DEF Inv

-----------------------------------------------------------------------------
LEMMA InvStep ==
    ASSUME Inv, require_auth \in BOOLEAN, "AUTH" \notin Transient, [Next]_vars
    PROVE  Inv'
<1>1. ASSUME NEW cl \in Client, req_recv_done(cl) \/ client_close(cl) PROVE Inv'
  BY <1>1, RequestInv, ClientCloseInv
<1>2. ASSUME NEW k, msg_send(k) PROVE Inv'
  BY <1>2, SendInv
<1>3. CASE rsp_recv_done
  BY <1>3, ReplyInv
<1>4. CASE core_close
  <2>1. /\ server_close /\ last' = last /\ ran' = ran /\ n' = n /\ base' = base
        /\ authenticated' = authenticated /\ password' = password
    BY <1>4 DEF core_close, client_vars
  <2>2. CountType'
    BY <2>1 DEF Inv, TypeInv, CountType
  <2> QED BY <2>1, <2>2, ClosedInv
<1>5. CASE server_executes
  BY <1>5, ExecutesInv
<1>6. CASE UNCHANGED vars
  <2>1. /\ authenticated' = authenticated /\ password' = password /\ n' = n /\ base' = base
        /\ s' = s /\ imsg_q' = imsg_q /\ omsg_q' = omsg_q /\ redis' = redis
        /\ replies' = replies /\ ran' = ran /\ last' = last
    BY <1>6 DEF vars
  <2>2. TypeInv'
    BY <2>1 DEF Inv, TypeInv, ClientType, CountType, ConnType, RanType
  <2>3. AuthInv' /\ MatchInv' /\ FreshInv'
    BY <2>1 DEF Inv, AuthInv, MatchInv, FreshInv
  <2> QED BY <2>1, <2>2, <2>3 DEF Inv, NotRefused, OwnReply
<1> QED BY <1>1, <1>2, <1>3, <1>4, <1>5, <1>6 DEF Next

-----------------------------------------------------------------------------
(* Whatever the clients, the server and the connection do, every command   *)
(* that reaches the server comes from a client whose last password was the *)
(* right one (req_filter, client_close, conn_get).                         *)
THEOREM ServedAreTrusted ==
    ASSUME require_auth \in BOOLEAN, "AUTH" \notin Transient
    PROVE  Spec => []Trusted
<1>1. Inv => Trusted
  <2> SUFFICES ASSUME Inv PROVE Trusted
    OBVIOUS
  <2>1. CASE ran = nothing
    BY <2>1 DEF Trusted, nothing
  <2>2. CASE ran # nothing
    <3>1. ran \in [st : {"ran", "refused"}, trusted : {TRUE}, db : {0, redis_db}]
      BY <2>2 DEF Inv, TypeInv, RanType
    <3>2. ran.trusted = TRUE
      BY <3>1
    <3> QED BY <3>2 DEF Trusted
  <2> QED BY <2>1, <2>2
<1> QED BY <1>1, InvInit, InvStep, PTL DEF Spec

(* No command is refused for want of the proxy's own AUTH: it goes first   *)
(* on every connection, whichever client's request opens it and whatever   *)
(* failed on the one before (redis_add_auth, server_close).  AUTH itself   *)
(* is never put off by the server: it is not among the commands a server   *)
(* that is loading, busy or out of memory turns away.                      *)
THEOREM NoneIsRefused ==
    ASSUME require_auth \in BOOLEAN, "AUTH" \notin Transient
    PROVE  Spec => []NotRefused
<1>1. Inv => NotRefused
  BY DEF Inv
<1> QED BY <1>1, InvInit, InvStep, PTL DEF Spec

(* A client only gets the reply of its own request: swallowing the replies *)
(* to AUTH, to SELECT and to the requests of clients that have gone leaves *)
(* the others matched (rsp_filter, client_close).                          *)
THEOREM RepliesAreOwn ==
    ASSUME require_auth \in BOOLEAN, "AUTH" \notin Transient
    PROVE  Spec => []OwnReply
<1>1. Inv => OwnReply
  BY DEF Inv
<1> QED BY <1>1, InvInit, InvStep, PTL DEF Spec

(* Only rsp_recv_done passes on a reply, to the client that is in the slot *)
(* of the oldest request.                                                  *)
LEMMA PassedOn ==
    ASSUME Inv, [Next]_vars, last' # last, last'.st = "reply"
    PROVE  last'.n > base[last'.client]
<1>1. ASSUME NEW cl \in Client, req_recv_done(cl) PROVE FALSE
  <2>1. CASE redis_reply(cl)
    BY <2>1 DEF redis_reply
  <2>2. CASE req_forward(cl)
    <3>1. last' = last \/ last' = [st |-> "error", client |-> cl]
      BY <2>2 DEF req_forward, add_auth_fails, Answered
    <3> QED BY <3>1, SMTT(30)
  <2> QED BY <1>1, <2>1, <2>2 DEF req_recv_done
<1>2. ASSUME NEW cl \in Client, client_close(cl) PROVE FALSE
  BY <1>2 DEF client_close
<1>3. ASSUME NEW k, msg_send(k) PROVE FALSE
  BY <1>3 DEF msg_send
<1>4. ~core_close /\ ~server_executes /\ ~UNCHANGED vars
  BY DEF core_close, server_executes, vars
<1>5. rsp_recv_done
  BY <1>1, <1>2, <1>3, <1>4 DEF Next
<1>6. /\ replies # <<>> /\ ~Head(omsg_q).swallow
      /\ last' = [st |-> "reply", client |-> Head(omsg_q).client,
                  n |-> Head(omsg_q).n, of |-> Head(replies).of]
  BY <1>5 DEF rsp_recv_done
<1>7. omsg_q \in Seq(Msg) /\ Len(omsg_q) > 0 /\ Len(omsg_q) \in Nat
  <2>1. /\ omsg_q \in Seq(Msg) /\ replies \in Seq(Reply) /\ redis.in \in Seq(Msg)
        /\ Len(omsg_q) = Len(replies) + Len(redis.in)
    BY DEF Inv, TypeInv, ConnType, MatchInv
  <2>2. Len(replies) \in Nat /\ Len(replies) > 0 /\ Len(redis.in) \in Nat
    BY <1>6, <2>1, SMTT(30)
  <2> QED BY <2>1, <2>2, SMTT(30)
<1>8. Head(omsg_q) = omsg_q[1] /\ omsg_q[1] \in Msg /\ 1 \in 1..Len(omsg_q)
  BY <1>7, SMTT(30)
<1>9. omsg_q[1].op = "command"
  <2>1. \A x \in OwnAuth : x.swallow
    BY DEF OwnAuth
  <2>2. SELECT.swallow
    BY DEF SELECT
  <2>3. \A x \in Command : x.op = "command"
    BY DEF Command
  <2> QED BY <1>6, <1>8, <2>1, <2>2, <2>3 DEF Msg
<1>10. base[omsg_q[1].client] < omsg_q[1].n
  BY <1>6, <1>8, <1>9 DEF Inv, FreshInv, Fresh
<1>11. base[omsg_q[1].client] \in Nat /\ omsg_q[1].n \in Nat
  BY <1>8, <1>9, CommandFacts DEF Inv, TypeInv, CountType
<1>12. last'.n = omsg_q[1].n /\ last'.client = omsg_q[1].client
  BY <1>6, <1>8
<1> QED BY <1>10, <1>11, <1>12

(* The one reply a step passes on was asked for by the client that is in   *)
(* the slot now, not by one that has closed (client_close, rsp_filter).    *)
THEOREM NoneToSuccessor ==
    ASSUME require_auth \in BOOLEAN, "AUTH" \notin Transient
    PROVE  Spec => NotToSuccessor
<1>1. Inv /\ [Next]_vars => [last' # last /\ last'.st = "reply" => last'.n > base[last'.client]]_vars
  BY PassedOn
<1> QED BY <1>1, InvInit, InvStep, PTL DEF Spec, NotToSuccessor

-----------------------------------------------------------------------------
(* Until the server has changed to the database of the pool, nothing was   *)
(* sent, or SELECT is the first thing it has not read yet.                 *)
SelectNext(in, q) == \/ in # <<>> /\ in[1] = SELECT
                     \/ in = <<>> /\ q # <<>> /\ q[1] = SELECT
DbInv ==
  redis.db # redis_db =>
    \/ s.st # "connected" /\ redis.in = <<>>
    \/ s.st = "connected" /\ SelectNext(redis.in, imsg_q)

(* SELECT stays first when the queue grows, when a client goes and when    *)
(* requests are written.                                                   *)
LEMMA FirstStays ==
    ASSUME NEW in \in Seq(Msg), NEW q \in Seq(Msg), SelectNext(in, q)
    PROVE  /\ \A x \in Seq(Msg) : SelectNext(in, q \o x)
           /\ \A cl : SelectNext(in, Swallowed(q, cl))
           /\ \A k \in 1..Len(q) : SelectNext(in \o SubSeq(q, 1, k), SubSeq(q, k + 1, Len(q)))
<1>0. Len(in) \in Nat /\ Len(q) \in Nat /\ DOMAIN q = 1..Len(q)
  BY SMTT(30)
<1>1. ASSUME NEW x \in Seq(Msg) PROVE SelectNext(in, q \o x)
  <2>1. Len(q \o x) = Len(q) + Len(x) /\ Len(x) \in Nat
    BY SMTT(30)
  <2>2. q # <<>> => 1 \in 1..Len(q)
    BY <1>0, SMTT(30)
  <2>3. q # <<>> => q \o x # <<>> /\ (q \o x)[1] = q[1]
    BY <1>0, <2>1, <2>2, SMTT(30)
  <2> QED BY <2>3 DEF SelectNext
<1>2. ASSUME NEW cl PROVE SelectNext(in, Swallowed(q, cl))
  <2>1. CASE in # <<>>
    BY <2>1 DEF SelectNext
  <2>2. CASE in = <<>>
    <3>1. q # <<>> /\ q[1] = SELECT
      BY <2>2 DEF SelectNext
    <3>2. 1 \in 1..Len(q) /\ q[1].op = "SELECT"
      BY <1>0, <3>1, SMTT(30) DEF SELECT
    <3>3. Swallowed(q, cl)[1] = SELECT
      BY <1>0, <3>1, <3>2 DEF Swallowed
    <3>4. Swallowed(q, cl) # <<>>
      BY <3>2, SwallowedFacts, SMTT(30)
    <3> QED BY <2>2, <3>3, <3>4 DEF SelectNext
  <2> QED BY <2>1, <2>2
<1>3. ASSUME NEW k \in 1..Len(q)
      PROVE  SelectNext(in \o SubSeq(q, 1, k), SubSeq(q, k + 1, Len(q)))
  <2>0. k \in 0..Len(q) /\ k \in Nat /\ k > 0
    BY <1>0, SMTT(30)
  <2> DEFINE h == SubSeq(q, 1, k)
  <2>1. h \in Seq(Msg) /\ Len(h) = k /\ h[1] = q[1]
    <3>1. h \in Seq(Msg) /\ Len(h) = k /\ \A i \in 1..k : h[i] = q[i]
      BY <2>0, Halves, SMTT(30)
    <3>2. 1 \in 1..k
      BY <2>0, SMTT(30)
    <3> QED BY <3>1, <3>2
  <2> HIDE DEF h
  <2>2. /\ in \o h \in Seq(Msg) /\ Len(in \o h) = Len(in) + k
        /\ (in \o h)[1] = IF 1 <= Len(in) THEN in[1] ELSE h[1 - Len(in)]
    <3>1. /\ in \o h \in Seq(Msg) /\ Len(in \o h) = Len(in) + Len(h)
          /\ \A i \in 1..(Len(in) + Len(h)) :
               (in \o h)[i] = IF i <= Len(in) THEN in[i] ELSE h[i - Len(in)]
      BY <2>1, Joined
    <3>2. 1 \in 1..(Len(in) + Len(h))
      BY <1>0, <2>0, <2>1, SMTT(30)
    <3> QED BY <2>1, <3>1, <3>2
  <2>3. in \o h # <<>>
    BY <1>0, <2>0, <2>2, SMTT(30)
  <2>4. (in \o h)[1] = SELECT
    <3>1. CASE in # <<>>
      BY <1>0, <2>2, <3>1, SMTT(30) DEF SelectNext
    <3>2. CASE in = <<>>
      <4>1. Len(in) = 0 /\ q[1] = SELECT
        BY <3>2 DEF SelectNext
      <4> QED BY <2>1, <2>2, <4>1, SMTT(30)
    <3> QED BY <3>1, <3>2
  <2> QED BY <2>3, <2>4 DEF SelectNext, h
<1> QED BY <1>1, <1>2, <1>3

(* connect() never returns at once, so a connection is established by an   *)
(* EPOLLOUT, which puts SELECT first; nothing turns it away.               *)
LEMMA DbStep ==
    ASSUME Inv, DbInv, DbSelected, require_auth = FALSE, AllocFails = FALSE,
           "at_once" \notin Completion, "SELECT" \notin Transient, [Next]_vars
    PROVE  DbInv' /\ DbSelected'
<1>0. /\ imsg_q \in Seq(Msg) /\ omsg_q \in Seq(Msg) /\ redis.in \in Seq(Msg)
      /\ s \in [st : {"none", "connecting", "connected"}, authenticated : BOOLEAN, err : BOOLEAN]
      /\ redis \in [authed : BOOLEAN, db : {0, redis_db}, in : Seq(Msg)]
  BY DEF Inv, TypeInv, ConnType
<1>1. server_close => DbInv'
  BY SMTT(30) DEF server_close, conn_get, NewSession, DbInv
<1>2. ran' = ran => DbSelected'
  BY DEF DbSelected
<1>3. ASSUME NEW cl \in Client, req_recv_done(cl) PROVE DbInv' /\ ran' = ran
  <2>1. CASE redis_reply(cl)
    BY <2>1 DEF redis_reply, server_vars, DbInv
  <2>2. CASE req_forward(cl)
    <3>1. ran' = ran
      BY <2>2 DEF req_forward
    <3>2. PICK m : m = Message("command", cl, ~require_auth \/ password[cl] = "right")
      OBVIOUS
    <3>3. m \in Msg
      <4>1. n' = [n EXCEPT ![cl] = @ + 1] /\ conn_authenticated(authenticated[cl])
        BY <1>3 DEF req_recv_done, conn_authenticated
      <4> QED BY <3>2, <4>1, EnqueuedType DEF Inv, Msg
    <3>4. ASSUME NEW conn, (conn = [s EXCEPT !.st = "connecting"] /\ s.st = "none") \/ conn = s,
                 enqueue(cl, conn, m), redis' = redis
          PROVE  DbInv'
      <4>1. imsg_q' = imsg_q \o <<m>> /\ s'.st = conn.st
        <5>1. conn_authenticated(conn.authenticated)
          BY DEF conn_authenticated
        <5> QED BY <1>0, <3>4, <5>1, ConcatEmptySeq DEF enqueue
      <4>2. <<m>> \in Seq(Msg)
        BY <3>3, SMTT(30)
      <4>3. SelectNext(redis.in, imsg_q) => SelectNext(redis.in, imsg_q \o <<m>>)
        BY <1>0, <4>2, FirstStays
      <4>4. (s'.st = "connected") = (s.st = "connected")
        BY <1>0, <3>4, <4>1
      <4> QED BY <3>4, <4>1, <4>3, <4>4 DEF DbInv
    <3>5. ~add_auth_fails(cl, s) /\ ~add_auth_fails(cl, [s EXCEPT !.st = "connecting"])
      BY DEF add_auth_fails
    <3>6. \/ server_close
          \/ s.st = "none" /\ enqueue(cl, [s EXCEPT !.st = "connecting"], m) /\ redis' = redis
          \/ enqueue(cl, s, m) /\ redis' = redis
      BY <2>2, <3>2, <3>5 DEF req_forward
    <3> QED BY <1>1, <3>1, <3>4, <3>6
  <2> QED BY <1>3, <2>1, <2>2 DEF req_recv_done
<1>4. ASSUME NEW cl \in Client, client_close(cl) PROVE DbInv' /\ ran' = ran
  <2>1. imsg_q' = Swallowed(imsg_q, cl) /\ s' = s /\ redis' = redis /\ ran' = ran
    BY <1>4 DEF client_close, Swallowed
  <2>2. SelectNext(redis.in, imsg_q) => SelectNext(redis.in, Swallowed(imsg_q, cl))
    BY <1>0, FirstStays
  <2> QED BY <2>1, <2>2 DEF DbInv
<1>5. ASSUME NEW k, msg_send(k) PROVE DbInv' /\ ran' = ran
  <2>1. /\ s' = [s EXCEPT !.st = "connected"] /\ ran' = ran /\ s.st # "none"
    BY <1>5 DEF msg_send
  <2>2. s'.st = "connected"
    BY <1>0, <2>1
  <2>3. PICK q : /\ IF s.st = "connecting" THEN q = post_connect ELSE q = imsg_q /\ k > 0
                 /\ k \in 0..Len(q)
                 /\ imsg_q' = SubSeq(q, k + 1, Len(q))
                 /\ redis' = [redis EXCEPT !.in = @ \o SubSeq(q, 1, k)]
    BY <1>5 DEF msg_send
  <2>4. redis'.in = redis.in \o SubSeq(q, 1, k) /\ redis'.db = redis.db
    BY <1>0, <2>3
  <2> SUFFICES ASSUME redis.db # redis_db
               PROVE  SelectNext(redis.in \o SubSeq(q, 1, k), SubSeq(q, k + 1, Len(q)))
    BY <2>1, <2>2, <2>3, <2>4 DEF DbInv
  <2>5. redis_db # 0
    BY <1>0
  <2>6. q \in Seq(Msg) /\ SelectNext(redis.in, q)
    <3>1. CASE s.st = "connecting"
      <4>1. redis.in = <<>> /\ q = <<SELECT>> \o imsg_q
        BY <2>3, <2>5, <3>1 DEF DbInv, post_connect
      <4>2. q \in Seq(Msg) /\ Len(q) = Len(imsg_q) + 1 /\ q[1] = SELECT
        BY <1>0, <4>1, Preceded
      <4>3. q # <<>>
        BY <1>0, <4>2, SMTT(30)
      <4> QED BY <4>1, <4>2, <4>3 DEF SelectNext
    <3>2. CASE s.st # "connecting"
      BY <1>0, <2>1, <2>3, <3>2 DEF DbInv
    <3> QED BY <3>1, <3>2
  <2>7. CASE k = 0
    <3>1. SubSeq(q, 1, 0) = <<>> /\ SubSeq(q, 0 + 1, Len(q)) = q
      BY <2>6, SMTT(30)
    <3>2. redis.in \o <<>> = redis.in
      BY <1>0, SMTT(30)
    <3> QED BY <2>6, <2>7, <3>1, <3>2
  <2>8. CASE k # 0
    <3>1. k \in 1..Len(q)
      BY <2>3, <2>6, <2>8, SMTT(30)
    <3> QED BY <1>0, <2>6, <3>1, FirstStays
  <2> QED BY <2>7, <2>8
<1>6. CASE rsp_recv_done
  <2>1. ran' = ran /\ (server_close \/ (s' = s /\ imsg_q' = imsg_q /\ redis' = redis))
    BY <1>6 DEF rsp_recv_done
  <2> QED BY <1>1, <1>2, <2>1 DEF DbInv
<1>7. CASE core_close
  BY <1>1, <1>2, <1>7 DEF core_close
<1>8. CASE server_executes
  <2>1. PICK m : m = Head(redis.in)
    OBVIOUS
  <2>2. /\ redis.in # <<>> /\ m = redis.in[1] /\ s' = s /\ imsg_q' = imsg_q
    BY <1>0, <1>8, <2>1, SMTT(30) DEF server_executes
  <2>3. \/ /\ redis'.db = (IF m.op = "SELECT" THEN redis_db ELSE redis.db)
           /\ ran' = (IF m.op = "command" THEN [st |-> "ran", trusted |-> m.trusted, db |-> redis.db]
                      ELSE ran)
        \/ m.op # "SELECT" /\ redis'.db = redis.db /\ ran' = ran
    <3>1. CASE /\ redis' = [redis EXCEPT
                    !.in = Tail(@),
                    !.authed = @ \/ m.op = "AUTH",
                    !.db = IF m.op = "SELECT" THEN redis_db ELSE @]
               /\ ran' = (IF m.op = "command"
                          THEN [st |-> "ran", trusted |-> m.trusted, db |-> redis.db]
                          ELSE ran)
      BY <1>0, <3>1
    <3>2. CASE m.op \in Transient /\ redis' = [redis EXCEPT !.in = Tail(@)] /\ ran' = ran
      BY <1>0, <3>2
    <3> QED BY <1>8, <2>1, <3>1, <3>2 DEF server_executes
  <2>4. redis.db # redis_db => m.op = "SELECT"
    BY <2>2, SMTT(30) DEF DbInv, SelectNext, SELECT
  <2>5. DbInv'
    BY <2>3, <2>4 DEF DbInv
  <2>6. DbSelected'
    <3>1. CASE ran' = ran
      BY <1>2, <3>1
    <3>2. CASE m.op = "command" /\ ran' = [st |-> "ran", trusted |-> m.trusted, db |-> redis.db]
      <4>1. redis.db = redis_db
        BY <2>4, <3>2
      <4> QED BY <3>2, <4>1 DEF DbSelected
    <3> QED BY <2>3, <3>1, <3>2
  <2> QED BY <2>5, <2>6
<1>9. CASE UNCHANGED vars
  BY <1>2, <1>9 DEF vars, DbInv
<1> QED BY <1>2, <1>3, <1>4, <1>5, <1>6, <1>7, <1>8, <1>9 DEF Next

(* Where no password is configured, every command runs in the database of  *)
(* the pool, through every close and reconnect: SELECT is the first thing  *)
(* said on a connection (redis_post_connect).  This takes a connect() that *)
(* does not return at once, since the hook is on the path of those that    *)
(* are in progress, memory for the SELECT, and a server that does not put  *)
(* it off; with a password it fails (session_auth_db).                     *)
THEOREM DatabaseIsSelected ==
    ASSUME require_auth = FALSE, AllocFails = FALSE, "at_once" \notin Completion,
           Transient \cap {"AUTH", "SELECT"} = {}
    PROVE  Spec => []DbSelected
<1>1. require_auth \in BOOLEAN /\ "AUTH" \notin Transient /\ "SELECT" \notin Transient
  OBVIOUS
<1>2. Init => DbInv /\ DbSelected
  BY SMTT(30) DEF Init, DbInv, DbSelected, conn_get, NewSession, nothing
<1>3. Inv /\ [Next]_vars => Inv'
  BY <1>1, InvStep
<1>4. Inv /\ DbInv /\ DbSelected /\ [Next]_vars => DbInv' /\ DbSelected'
  BY <1>1, DbStep
<1> QED BY <1>2, <1>3, <1>4, InvInit, PTL DEF Spec
=============================================================================
