------------------------- MODULE ConnectionsProofs -------------------------
(***************************************************************************)
(* Proofs about the connections of a worker: every event is handled for    *)
(* the connection it was for, the pool of struct conn and the count that   *)
(* limits the clients are right, and no client is left in the backlog.     *)
(***************************************************************************)
EXTENDS Connections, FiniteSetTheorems, SequenceTheorems, TLAPS

\* Zenon is tried where a step names no prover; the steps with arithmetic,
\* sequences or records name the SMT solver.
USE Zenon

Kinds == {"new", "free", "proxy", "client", "server"}
Open == {"proxy", "client", "server"}
Event == [slot : Slot, gen : Nat]

Types ==
    /\ kind \in [Slot -> Kinds] /\ gen \in [Slot -> Nat]
    /\ free_connq \in Seq(Slot) /\ ncurr_cconn \in Int
    /\ came \in Nat /\ backlog \in Nat
    /\ ready \in SUBSET Slot /\ batch \in Seq(Event)
    /\ recv_ready \in BOOLEAN /\ emfile \in BOOLEAN

-----------------------------------------------------------------------------
(* The free list and the counts.                                           *)

\* There are finitely many connections of each kind.
LEMMA OfFinite ==
    ASSUME NEW CONSTANT a
    PROVE  IsFiniteSet(Of(a)) /\ Cardinality(Of(a)) \in Nat
<1>1. Of(a) \in SUBSET Slot
  BY DEF Of
<1>2. IsFiniteSet(Of(a))
  BY <1>1, FS_Subset, SlotAssumption
<1>. QED BY <1>2, FS_CardinalityType

\* A slot leaves the kind a, joins the kind a, or has nothing to do with it.
LEMMA KindLeft ==
    ASSUME kind \in [Slot -> Kinds], NEW CONSTANT s \in Slot, NEW CONSTANT j,
           kind' = [kind EXCEPT ![s] = j], NEW CONSTANT a, kind[s] = a, j # a
    PROVE  Of(a)' = Of(a) \ {s} /\ Cardinality(Of(a))' = Cardinality(Of(a)) - 1
<1>1. Of(a)' = Of(a) \ {s} /\ s \in Of(a)
  BY DEF Of
<1>. QED BY <1>1, OfFinite, FS_RemoveElement

\* A struct that becomes one of its kind adds one to them.
LEMMA KindJoined ==
    ASSUME kind \in [Slot -> Kinds], NEW CONSTANT s \in Slot, NEW CONSTANT a,
           kind' = [kind EXCEPT ![s] = a], kind[s] # a
    PROVE  Of(a)' = Of(a) \cup {s} /\ Cardinality(Of(a))' = Cardinality(Of(a)) + 1
<1>1. Of(a)' = Of(a) \cup {s} /\ s \notin Of(a)
  BY DEF Of
<1>. QED BY <1>1, OfFinite, FS_AddElement

\* The connections of the kinds that a struct leaves alone stay the same.
LEMMA KindKept ==
    ASSUME kind \in [Slot -> Kinds], NEW CONSTANT s \in Slot, NEW CONSTANT j,
           kind' = [kind EXCEPT ![s] = j], NEW CONSTANT a, kind[s] # a, j # a
    PROVE  Of(a)' = Of(a) /\ Cardinality(Of(a))' = Cardinality(Of(a))
<1>1. Of(a)' = Of(a)
  BY DEF Of
<1>. QED BY <1>1

\* Every slot of the free list is there once.
Once(q) == \A i, j \in 1..Len(q) : q[i] = q[j] => i = j

Elems(q) == {q[i] : i \in 1..Len(q)}

\* What conn_get leaves of the free list.
LEMMA TailOnce ==
    ASSUME NEW S, NEW q \in Seq(S), q # <<>>, Once(q)
    PROVE  /\ Once(Tail(q)) /\ Len(Tail(q)) = Len(q) - 1
           /\ Elems(Tail(q)) = Elems(q) \ {Head(q)}
           /\ Head(q) \in Elems(q)
<1>1. Len(q) \in Nat /\ Len(q) > 0 /\ Head(q) = q[1]
  BY SMT
<1>2. Len(Tail(q)) = Len(q) - 1 /\ \A i \in 1..Len(Tail(q)) : Tail(q)[i] = q[i + 1]
  BY SMT
<1>3. Once(Tail(q))
  <2>1. SUFFICES ASSUME NEW i \in 1..Len(Tail(q)), NEW j \in 1..Len(Tail(q)),
                        Tail(q)[i] = Tail(q)[j]
                 PROVE  i = j
    BY DEF Once
  <2>2. i + 1 \in 1..Len(q) /\ j + 1 \in 1..Len(q) /\ q[i + 1] = q[j + 1]
    BY <1>1, <1>2, <2>1, SMT
  <2>3. i + 1 = j + 1
    BY <2>2 DEF Once
  <2>. QED BY <2>3, SMT
<1>4. ASSUME NEW x \in Elems(Tail(q)) PROVE x \in Elems(q) /\ x # Head(q)
  <2>1. PICK i \in 1..Len(Tail(q)) : x = Tail(q)[i]
    BY <1>4 DEF Elems
  <2>2. i + 1 \in 1..Len(q) /\ x = q[i + 1] /\ i + 1 # 1 /\ 1 \in 1..Len(q)
    BY <1>1, <1>2, <2>1, SMT
  <2>3. q[i + 1] # q[1]
    BY <2>2 DEF Once
  <2>. QED BY <2>2, <2>3, <1>1 DEF Elems
<1>5. ASSUME NEW x \in Elems(q), x # Head(q) PROVE x \in Elems(Tail(q))
  <2>1. PICK i \in 1..Len(q) : x = q[i]
    BY <1>5 DEF Elems
  <2>2. i # 1
    BY <1>1, <1>5, <2>1
  <2>3. i - 1 \in 1..Len(Tail(q)) /\ (i - 1) + 1 = i
    BY <1>1, <1>2, <2>2, SMT
  <2>4. Tail(q)[i - 1] = x
    BY <1>2, <2>1, <2>3
  <2>. QED BY <2>3, <2>4 DEF Elems
<1>6. Head(q) \in Elems(q)
  BY <1>1, SMT DEF Elems
<1>. QED BY <1>2, <1>3, <1>4, <1>5, <1>6

\* What conn_put makes of the free list.
LEMMA PushOnce ==
    ASSUME NEW S, NEW q \in Seq(S), NEW s \in S, Once(q), s \notin Elems(q)
    PROVE  /\ <<s>> \o q \in Seq(S)
           /\ Once(<<s>> \o q) /\ Len(<<s>> \o q) = Len(q) + 1
           /\ Elems(<<s>> \o q) = Elems(q) \cup {s}
<1>. DEFINE p == <<s>> \o q
<1>1. p \in Seq(S) /\ Len(q) \in Nat /\ Len(p) = Len(q) + 1 /\ p[1] = s
  BY SMT
<1>2. \A i \in 1..Len(q) : p[i + 1] = q[i]
  BY SMT
<1>3. \A i \in 1..Len(p) : i # 1 => i - 1 \in 1..Len(q) /\ p[i] = q[i - 1]
  BY <1>1, <1>2, SMT
<1>. HIDE DEF p
<1>4. \A i \in 1..Len(p) : i # 1 => p[i] # s
  BY <1>3 DEF Elems
<1>5. Once(p)
  <2>1. SUFFICES ASSUME NEW i \in 1..Len(p), NEW j \in 1..Len(p), p[i] = p[j]
                 PROVE  i = j
    BY DEF Once
  <2>2. CASE i = 1 \/ j = 1
    BY <1>1, <1>4, <2>1, <2>2
  <2>3. CASE i # 1 /\ j # 1
    <3>1. q[i - 1] = q[j - 1] /\ i - 1 \in 1..Len(q) /\ j - 1 \in 1..Len(q)
      BY <1>3, <2>1, <2>3
    <3>2. i - 1 = j - 1
      BY <3>1 DEF Once
    <3>. QED BY <3>2, SMT
  <2>. QED BY <2>2, <2>3
<1>6. Elems(p) \subseteq Elems(q) \cup {s}
  BY <1>1, <1>3, SMT DEF Elems
<1>7. Elems(q) \subseteq Elems(p)
  <2>1. SUFFICES ASSUME NEW i \in 1..Len(q) PROVE q[i] \in Elems(p)
    BY DEF Elems
  <2>2. i + 1 \in 1..Len(p) /\ p[i + 1] = q[i]
    BY <1>1, <1>2, SMT
  <2>. QED BY <2>2 DEF Elems
<1>8. s \in Elems(p)
  BY <1>1, SMT DEF Elems
<1>. QED BY <1>1, <1>5, <1>6, <1>7, <1>8 DEF p

\* The pool: Once() makes PoolSound inductive.
PoolInv ==
    /\ Once(free_connq)
    /\ Elems(free_connq) = Of("free")
    /\ Len(free_connq) = Cardinality(Of("free"))
    /\ ncurr_cconn = Cardinality(Of("client"))

\* conn_get takes a struct that no connection uses, and keeps the pool right.
LEMMA GetKeepsPool ==
    ASSUME Types, PoolInv, NEW CONSTANT s \in Slot,
           NEW CONSTANT k \in {"client", "server"}, conn_get(s, k)
    PROVE  /\ kind[s] \in {"new", "free"} /\ kind[s] # k
           /\ free_connq' \in Seq(Slot) /\ ncurr_cconn' \in Int
           /\ PoolInv'
<1>1. kind \in [Slot -> Kinds] /\ free_connq \in Seq(Slot)
  BY DEF Types
<1>2. kind' = [kind EXCEPT ![s] = k]
  BY DEF conn_get
<1>5. /\ kind[s] \in {"new", "free"} /\ kind[s] # k /\ kind[s] # "client"
      /\ free_connq' \in Seq(Slot)
      /\ Once(free_connq') /\ Elems(free_connq') = Of("free")'
      /\ Len(free_connq') = Cardinality(Of("free"))'
  <2>1. CASE free_connq # <<>>
    <3>1. s = Head(free_connq) /\ free_connq' = Tail(free_connq)
      BY <2>1 DEF conn_get
    <3>2. /\ Once(Tail(free_connq)) /\ Len(Tail(free_connq)) = Len(free_connq) - 1
          /\ Elems(Tail(free_connq)) = Elems(free_connq) \ {s} /\ s \in Elems(free_connq)
      BY <1>1, <2>1, <3>1, TailOnce DEF PoolInv
    <3>3. kind[s] = "free"
      BY <3>2 DEF PoolInv, Of
    <3>4. Of("free")' = Of("free") \ {s} /\ Cardinality(Of("free"))' = Cardinality(Of("free")) - 1
      BY <1>1, <1>2, <3>3, KindLeft
    <3>5. free_connq' \in Seq(Slot)
      BY <1>1, <2>1, <3>1, SMT
    <3>6. Once(free_connq') /\ Elems(free_connq') = Of("free")'
      BY <3>1, <3>2, <3>4 DEF PoolInv
    <3>7. Len(free_connq') = Cardinality(Of("free"))'
      BY <3>1, <3>2, <3>4 DEF PoolInv
    <3>. QED BY <3>3, <3>5, <3>6, <3>7
  <2>2. CASE free_connq = <<>>
    <3>1. kind[s] = "new" /\ free_connq' = <<>>
      BY <2>2 DEF conn_get
    <3>2. Of("free")' = Of("free") /\ Cardinality(Of("free"))' = Cardinality(Of("free"))
      BY <1>1, <1>2, <3>1, KindKept
    <3>. QED BY <2>2, <3>1, <3>2, SMT DEF PoolInv
  <2>. QED BY <2>1, <2>2
<1>6. Cardinality(Of("client")) \in Nat
  BY OfFinite
<1>7. ncurr_cconn' = Cardinality(Of("client"))' /\ ncurr_cconn' \in Int
  <2>1. CASE k = "client"
    <3>1. Cardinality(Of("client"))' = Cardinality(Of("client")) + 1
      BY <1>1, <1>2, <1>5, <2>1, KindJoined
    <3>2. ncurr_cconn' = ncurr_cconn + 1
      BY <2>1 DEF conn_get
    <3>. QED BY <3>1, <3>2, <1>6, SMT DEF PoolInv
  <2>2. CASE k = "server"
    <3>1. Cardinality(Of("client"))' = Cardinality(Of("client"))
      BY <1>1, <1>2, <1>5, <2>2, KindKept
    <3>2. ncurr_cconn' = ncurr_cconn
      BY <2>2 DEF conn_get
    <3>. QED BY <3>1, <3>2, <1>6, SMT DEF PoolInv
  <2>. QED BY <2>1, <2>2
<1>. QED BY <1>5, <1>7 DEF PoolInv

\* conn_put puts a struct in use back, and keeps the pool right.
LEMMA PutKeepsPool ==
    ASSUME Types, PoolInv, NEW CONSTANT s \in Slot, kind[s] \in Open, conn_put(s)
    PROVE  /\ free_connq' \in Seq(Slot) /\ ncurr_cconn' \in Int
           /\ PoolInv'
<1>1. kind \in [Slot -> Kinds] /\ free_connq \in Seq(Slot)
  BY DEF Types
<1>2. kind' = [kind EXCEPT ![s] = "free"] /\ kind[s] # "free"
  BY DEF conn_put, Open
<1>3. Of("free")' = Of("free") \cup {s} /\ Cardinality(Of("free"))' = Cardinality(Of("free")) + 1
  BY <1>1, <1>2, KindJoined
<1>4. s \notin Elems(free_connq)
  BY <1>2 DEF PoolInv, Of
<1>5. free_connq' = <<s>> \o free_connq
  BY DEF conn_put
<1>6. /\ free_connq' \in Seq(Slot) /\ Once(free_connq')
      /\ Len(free_connq') = Len(free_connq) + 1
      /\ Elems(free_connq') = Elems(free_connq) \cup {s}
  BY <1>1, <1>4, <1>5, PushOnce, SMT DEF PoolInv
<1>7. Cardinality(Of("client")) \in Nat
  BY OfFinite
<1>8. ncurr_cconn' = Cardinality(Of("client"))' /\ ncurr_cconn' \in Int
  <2>1. CASE kind[s] = "client"
    <3>1. Cardinality(Of("client"))' = Cardinality(Of("client")) - 1
      BY <1>1, <1>2, <2>1, KindLeft
    <3>2. ncurr_cconn' = ncurr_cconn - 1
      BY <2>1 DEF conn_put
    <3>. QED BY <3>1, <3>2, <1>7, SMT DEF PoolInv
  <2>2. CASE kind[s] # "client"
    <3>1. Cardinality(Of("client"))' = Cardinality(Of("client"))
      BY <1>1, <1>2, <2>2, KindKept
    <3>2. ncurr_cconn' = ncurr_cconn
      BY <2>2 DEF conn_put
    <3>. QED BY <3>1, <3>2, <1>7, SMT DEF PoolInv
  <2>. QED BY <2>1, <2>2
<1>. QED BY <1>3, <1>6, <1>8 DEF PoolInv

-----------------------------------------------------------------------------
(* The loop: what is ready or in the batch belongs to a connection that is *)
(* open, each at most once, and the listening socket has no event in the   *)
(* batch while it is being accepted from.                                  *)

ReadyOpen == \A s \in ready : kind[s] \in Open
BatchOpen == \A i \in 1..Len(batch) : /\ kind[batch[i].slot] \in Open
                                      /\ batch[i].gen = gen[batch[i].slot]
BatchOnce == \A i, j \in 1..Len(batch) : batch[i].slot = batch[j].slot => i = j
OneListener == \A s \in Slot : kind[s] = "proxy" => s = Listener
Accepting == recv_ready => /\ kind[Listener] = "proxy"
                           /\ \A i \in 1..Len(batch) : batch[i].slot # Listener

IInv == Types /\ PoolInv /\ ReadyOpen /\ BatchOpen /\ BatchOnce /\ OneListener /\ Accepting

\* The rest of the batch, once its first event is handled.
LEMMA RestOfBatch ==
    ASSUME Types, batch # <<>>, batch' = Tail(batch)
    PROVE  /\ batch' \in Seq(Event) /\ Len(batch') = Len(batch) - 1
           /\ conn = batch[1].slot /\ 1 \in 1..Len(batch) /\ conn \in Slot
           /\ \A i \in 1..Len(batch') : /\ i + 1 \in 1..Len(batch) /\ i + 1 # 1
                                        /\ batch'[i] = batch[i + 1]
                                        /\ batch'[i].slot \in Slot
<1>1. batch \in Seq(Event) /\ Len(batch) \in Nat /\ Len(batch) > 0 /\ Head(batch) = batch[1]
  BY SMT DEF Types
<1>2. /\ batch' \in Seq(Event) /\ Len(batch') = Len(batch) - 1
      /\ \A i \in 1..Len(batch') : batch'[i] = batch[i + 1]
  BY <1>1, SMT
<1>3. 1 \in 1..Len(batch) /\ \A i \in 1..Len(batch') : i + 1 \in 1..Len(batch) /\ i + 1 # 1
  BY <1>1, <1>2, SMT
<1>4. \A i \in 1..Len(batch) : batch[i] \in Event
  BY <1>1, SMT
<1>5. \A e \in Event : e.slot \in Slot
  BY DEF Event
<1>. QED BY <1>1, <1>2, <1>3, <1>4, <1>5 DEF conn

\* The connection whose event is handled has no other one in the batch.
LEMMA TailOnceBatch ==
    ASSUME Types, BatchOnce, batch # <<>>, batch' = Tail(batch)
    PROVE  BatchOnce' /\ \A i \in 1..Len(batch') : batch'[i].slot # conn
<1>1. ASSUME NEW i \in 1..Len(batch'), NEW j \in 1..Len(batch'),
             batch'[i].slot = batch'[j].slot
      PROVE  i = j
  <2>1. i + 1 = j + 1
    BY <1>1, RestOfBatch, SMT DEF BatchOnce
  <2>. QED BY <2>1, SMT
<1>2. ASSUME NEW i \in 1..Len(batch') PROVE batch'[i].slot # conn
  BY RestOfBatch DEF BatchOnce
<1>. QED BY <1>1, <1>2 DEF BatchOnce

\* Taking a struct for a client or a server leaves the open ones alone.
LEMMA GetKeepsOpen ==
    ASSUME IInv, NEW CONSTANT s \in Slot, NEW CONSTANT k \in {"client", "server"},
           conn_get(s, k)
    PROVE  /\ kind' \in [Slot -> Kinds] /\ gen' \in [Slot -> Nat]
           /\ free_connq' \in Seq(Slot) /\ ncurr_cconn' \in Int /\ PoolInv'
           /\ \A x \in Slot : kind[x] \in Open => kind'[x] = kind[x] /\ gen'[x] = gen[x]
           /\ OneListener'
<1>1. kind \in [Slot -> Kinds] /\ gen \in [Slot -> Nat]
  BY DEF IInv, Types
<1>2. kind' = [kind EXCEPT ![s] = k] /\ gen' = [gen EXCEPT ![s] = (@ + 1) % Gens]
  BY DEF conn_get
<1>3. /\ kind[s] \in {"new", "free"} /\ free_connq' \in Seq(Slot) /\ ncurr_cconn' \in Int
      /\ PoolInv'
  BY GetKeepsPool DEF IInv
<1>4. (gen[s] + 1) % Gens \in Nat
  BY <1>1, LimitAssumption, SMT
<1>5. gen' \in [Slot -> Nat]
  BY <1>1, <1>2, <1>4
<1>6. kind' \in [Slot -> Kinds]
  BY <1>1, <1>2 DEF Kinds
<1>7. \A x \in Slot : kind[x] \in Open => kind'[x] = kind[x] /\ gen'[x] = gen[x]
  BY <1>1, <1>2, <1>3 DEF Open
<1>8. OneListener'
  BY <1>1, <1>2 DEF OneListener, IInv
<1>. QED BY <1>3, <1>5, <1>6, <1>7, <1>8

\* conn_put touches no other connection, and keeps the pool right.
LEMMA PutKeepsOpen ==
    ASSUME IInv, NEW CONSTANT s \in Slot, kind[s] \in Open, conn_put(s)
    PROVE  /\ kind' \in [Slot -> Kinds] /\ gen' \in [Slot -> Nat]
           /\ free_connq' \in Seq(Slot) /\ ncurr_cconn' \in Int /\ PoolInv'
           /\ \A x \in Slot : x # s => kind'[x] = kind[x] /\ gen'[x] = gen[x]
           /\ OneListener'
<1>1. kind \in [Slot -> Kinds] /\ gen \in [Slot -> Nat]
  BY DEF IInv, Types
<1>2. kind' = [kind EXCEPT ![s] = "free"] /\ gen' = gen
  BY DEF conn_put
<1>3. free_connq' \in Seq(Slot) /\ ncurr_cconn' \in Int /\ PoolInv'
  BY PutKeepsPool DEF IInv
<1>4. kind' \in [Slot -> Kinds] /\ \A x \in Slot : x # s => kind'[x] = kind[x]
  BY <1>1, <1>2 DEF Kinds
<1>5. OneListener'
  BY <1>1, <1>2 DEF OneListener, IInv
<1>. QED BY <1>1, <1>2, <1>3, <1>4, <1>5

\* What epoll_wait reports: one event for each connection that was ready.
LEMMA Reported ==
    ASSUME Types, event_wait
    PROVE  /\ batch' \in Seq(Event)
           /\ \A i \in 1..Len(batch') : /\ batch'[i].slot \in ready
                                        /\ batch'[i].gen = gen[batch'[i].slot]
           /\ BatchOnce'
           /\ \A x \in ready : \E i \in 1..Len(batch') : batch'[i].slot = x
<1>1. ready \in SUBSET Slot /\ gen \in [Slot -> Nat]
  BY DEF Types
<1>2. IsFiniteSet(ready) /\ Cardinality(ready) \in Nat
  BY <1>1, SlotAssumption, FS_Subset, FS_CardinalityType
<1>3. PICK p \in SetToSeqs(ready) :
            batch' = [i \in 1..Len(p) |-> [slot |-> p[i], gen |-> gen[p[i]]]]
  BY DEF event_wait
<1>4. PICK n \in Nat : n = Cardinality(ready)
  BY <1>2
<1>5. p \in [1..n -> ready] /\ \A i, j \in 1..n : i # j => p[i] # p[j]
  BY <1>3, <1>4 DEF SetToSeqs
<1>6. p \in Seq(ready) /\ Len(p) = n
  BY <1>4, <1>5, SMT
<1>7. batch' = [i \in 1..n |-> [slot |-> p[i], gen |-> gen[p[i]]]]
  BY <1>3, <1>6
<1>8. \A i \in 1..n : p[i] \in ready /\ p[i] \in Slot /\ gen[p[i]] \in Nat
  BY <1>1, <1>5
<1>9. \A i \in 1..n : [slot |-> p[i], gen |-> gen[p[i]]] \in Event
  BY <1>8 DEF Event
<1>10. batch' \in Seq(Event) /\ Len(batch') = n
  BY <1>4, <1>7, <1>9, SMT
<1>11. \A i \in 1..n : batch'[i].slot = p[i] /\ batch'[i].gen = gen[p[i]]
  BY <1>7
<1>12. \A x \in ready : \E i \in 1..n : p[i] = x
  <2>1. p \in Injection(1..n, ready)
    BY <1>5 DEF Injection, IsInjective
  <2>2. Cardinality(1..n) = n
    BY <1>4, FS_Interval, SMT
  <2>3. p \in Surjection(1..n, ready)
    BY <2>1, <2>2, <1>2, <1>4, FS_Injection
  <2>. QED BY <2>3 DEF Surjection
<1>13. BatchOnce'
  BY <1>5, <1>10, <1>11, SMT DEF BatchOnce
<1>. QED BY <1>8, <1>10, <1>11, <1>12, <1>13, SMTT(30)

\* An action that leaves the pool, the batch and the accepting alone.
LEMMA PoolStays ==
    ASSUME IInv, pool_unchanged
    PROVE  /\ kind' = kind /\ gen' = gen /\ PoolInv' /\ OneListener'
           /\ kind' \in [Slot -> Kinds] /\ gen' \in [Slot -> Nat]
           /\ free_connq' \in Seq(Slot) /\ ncurr_cconn' \in Int
<1>1. UNCHANGED <<kind, gen, free_connq, ncurr_cconn>>
  BY DEF pool_unchanged
<1>2. PoolInv' /\ OneListener'
  BY <1>1 DEF PoolInv, OneListener, Of, IInv
<1>. QED BY <1>1, <1>2 DEF IInv, Types

\* At the start only the listening socket is open.
LEMMA InitInv == Init => IInv
<1>. SUFFICES ASSUME Init PROVE IInv
  OBVIOUS
<1>1. Types
  <2>1. kind \in [Slot -> Kinds] /\ gen \in [Slot -> Nat] /\ ready \in SUBSET Slot
    BY DEF Init, Kinds
  <2>2. free_connq \in Seq(Slot) /\ batch \in Seq(Event)
    BY SMT DEF Init
  <2>3. ncurr_cconn \in Int /\ came \in Nat /\ backlog \in Nat
    BY SMT DEF Init
  <2>4. recv_ready \in BOOLEAN /\ emfile \in BOOLEAN
    BY DEF Init
  <2>. QED BY <2>1, <2>2, <2>3, <2>4 DEF Types
<1>2. ReadyOpen /\ BatchOpen /\ BatchOnce /\ OneListener /\ Accepting
  BY SMT DEF Init, ReadyOpen, BatchOpen, BatchOnce, OneListener, Accepting
<1>3. Of("free") = {} /\ Of("client") = {}
  BY DEF Init, Of
<1>4. free_connq = <<>> /\ Len(<<>>) = 0 /\ ncurr_cconn = 0
  BY DEF Init
<1>5. 1..0 = {}
  BY SMT
<1>6. Once(<<>>) /\ Elems(<<>>) = {}
  BY <1>4, <1>5 DEF Once, Elems
<1>7. PoolInv
  BY <1>3, <1>4, <1>6, FS_EmptySet DEF PoolInv
<1>. QED BY <1>1, <1>2, <1>7 DEF IInv

\* The kernel: a client connects, something happens on a connection.
LEMMA KernelStep ==
    ASSUME IInv, client_connects \/ \E s \in Slot : peer_event(s)
    PROVE  IInv'
<1>1. /\ pool_unchanged /\ UNCHANGED <<batch, recv_ready, emfile>>
      /\ came' \in Nat /\ backlog' \in Nat
  BY SMTT(30) DEF client_connects, peer_event, IInv, Types
<1>2. ready' \in SUBSET Slot /\ \A s \in ready' : kind[s] \in Open
  <2>1. CASE client_connects
    BY <2>1, SlotAssumption DEF client_connects, IInv, Types, ReadyOpen, Open
  <2>2. CASE \E s \in Slot : peer_event(s)
    BY <2>2 DEF peer_event, IInv, Types, ReadyOpen, Open, Live, Of
  <2>. QED BY <2>1, <2>2
<1>3. Types'
  BY <1>1, <1>2, PoolStays DEF Types, IInv
<1>4. ReadyOpen' /\ BatchOpen' /\ BatchOnce' /\ Accepting'
  BY <1>1, <1>2, PoolStays DEF ReadyOpen, BatchOpen, BatchOnce, Accepting, IInv
<1>. QED BY <1>1, <1>3, <1>4, PoolStays DEF IInv

\* epoll_wait reports each connection once, and open ones only.
LEMMA WaitStep ==
    ASSUME IInv, event_wait
    PROVE  IInv'
<1>1. pool_unchanged /\ ready' = {} /\ ~recv_ready /\ UNCHANGED <<came, backlog, recv_ready, emfile>>
  BY DEF event_wait, Idle
<1>2. Types'
  BY <1>1, Reported, PoolStays DEF Types, IInv
<1>3. BatchOpen'
  BY <1>1, Reported, PoolStays DEF BatchOpen, ReadyOpen, IInv
<1>4. ReadyOpen' /\ Accepting'
  BY <1>1 DEF ReadyOpen, Accepting
<1>5. BatchOnce'
  BY Reported DEF IInv
<1>. QED BY <1>1, <1>2, <1>3, <1>4, <1>5, PoolStays DEF IInv

\* proxy_recv starts to accept.
LEMMA ProxyStep ==
    ASSUME IInv, proxy_recv
    PROVE  IInv'
<1>1. /\ pool_unchanged /\ recv_ready' /\ UNCHANGED <<came, backlog, ready, emfile>>
      /\ batch # <<>> /\ batch' = Tail(batch) /\ kind[conn] = "proxy"
  BY DEF proxy_recv, Handled
<1>2. recv_ready' \in BOOLEAN
  BY DEF proxy_recv
<1>3. Types'
  BY <1>1, <1>2, RestOfBatch, PoolStays DEF Types, IInv
<1>4. BatchOpen'
  BY <1>1, RestOfBatch, PoolStays, SMTT(30) DEF BatchOpen, IInv
<1>5. BatchOnce' /\ \A i \in 1..Len(batch') : batch'[i].slot # conn
  BY <1>1, TailOnceBatch DEF IInv
<1>6. conn = Listener
  BY <1>1, RestOfBatch DEF OneListener, IInv
<1>7. ReadyOpen' /\ Accepting'
  BY <1>1, <1>5, <1>6, PoolStays DEF ReadyOpen, Accepting, IInv
<1>. QED BY <1>1, <1>3, <1>4, <1>5, <1>7, PoolStays DEF IInv

\* A request or a reply, with or without a new connection to a server.
LEMMA RecvStep ==
    ASSUME IInv, core_recv
    PROVE  IInv'
<1>1. /\ UNCHANGED <<came, backlog, ready, recv_ready, emfile>> /\ ~recv_ready
      /\ batch # <<>> /\ batch' = Tail(batch)
      /\ pool_unchanged \/ \E s \in Slot : conn_get(s, "server")
  BY DEF core_recv, Handled
<1>2. /\ kind' \in [Slot -> Kinds] /\ gen' \in [Slot -> Nat]
      /\ free_connq' \in Seq(Slot) /\ ncurr_cconn' \in Int /\ PoolInv' /\ OneListener'
      /\ \A x \in Slot : kind[x] \in Open => kind'[x] = kind[x] /\ gen'[x] = gen[x]
  BY <1>1, PoolStays, GetKeepsOpen
<1>3. Types'
  BY <1>1, <1>2, RestOfBatch DEF Types, IInv
<1>4. ReadyOpen'
  BY <1>1, <1>2 DEF ReadyOpen, Types, IInv
<1>5. BatchOpen'
  <2>1. SUFFICES ASSUME NEW i \in 1..Len(batch')
                 PROVE  /\ kind'[batch'[i].slot] \in Open
                        /\ batch'[i].gen = gen'[batch'[i].slot]
    BY DEF BatchOpen
  <2>2. i + 1 \in 1..Len(batch) /\ batch'[i] = batch[i + 1] /\ batch'[i].slot \in Slot
    BY <1>1, RestOfBatch DEF IInv
  <2>3. kind[batch'[i].slot] \in Open /\ batch'[i].gen = gen[batch'[i].slot]
    BY <2>2 DEF BatchOpen, IInv
  <2>. QED BY <1>2, <2>2, <2>3
<1>6. BatchOnce'
  BY <1>1, TailOnceBatch DEF IInv
<1>7. Accepting'
  BY <1>1 DEF Accepting
<1>. QED BY <1>2, <1>3, <1>4, <1>5, <1>6, <1>7 DEF IInv

\* A connection ends: core_close, for the first event of the batch, or
\* core_timeout, between two batches.
LEMMA CloseStep ==
    ASSUME IInv, core_close
    PROVE  IInv'
<1>1. /\ UNCHANGED <<came, backlog, recv_ready, emfile>> /\ ~recv_ready
      /\ batch # <<>> /\ batch' = Tail(batch) /\ conn_put(conn)
      /\ kind[conn] \in {"client", "server"} /\ ready' \subseteq (ready \cup Of("client")) \ {conn}
  BY DEF core_close, Handled, Live, Of
<1>2. PICK c \in Slot : c = conn
  BY <1>1, RestOfBatch DEF IInv
<1>3. conn_put(c) /\ kind[c] \in Open
  BY <1>1, <1>2 DEF Open
<1>4. /\ kind' \in [Slot -> Kinds] /\ gen' \in [Slot -> Nat]
      /\ free_connq' \in Seq(Slot) /\ ncurr_cconn' \in Int /\ PoolInv' /\ OneListener'
      /\ \A x \in Slot : x # c => kind'[x] = kind[x] /\ gen'[x] = gen[x]
  BY <1>3, PutKeepsOpen
<1>5. ready' \in SUBSET Slot /\ \A x \in ready' : x # c /\ kind[x] \in Open
  BY <1>1, <1>2 DEF Of, Open, ReadyOpen, Types, IInv
<1>6. Types'
  BY <1>1, <1>4, <1>5, RestOfBatch DEF Types, IInv
<1>7. ReadyOpen'
  BY <1>4, <1>5 DEF ReadyOpen
<1>8. BatchOnce' /\ \A i \in 1..Len(batch') : batch'[i].slot # c
  BY <1>1, <1>2, TailOnceBatch DEF IInv
<1>9. BatchOpen'
  <2>1. SUFFICES ASSUME NEW i \in 1..Len(batch')
                 PROVE  /\ kind'[batch'[i].slot] \in Open
                        /\ batch'[i].gen = gen'[batch'[i].slot]
    BY DEF BatchOpen
  <2>2. i + 1 \in 1..Len(batch) /\ batch'[i] = batch[i + 1] /\ batch'[i].slot \in Slot
    BY <1>1, RestOfBatch DEF IInv
  <2>3. kind[batch'[i].slot] \in Open /\ batch'[i].gen = gen[batch'[i].slot]
    BY <2>2 DEF BatchOpen, IInv
  <2>. QED BY <1>4, <1>8, <2>2, <2>3
<1>10. Accepting'
  BY <1>1 DEF Accepting
<1>. QED BY <1>4, <1>6, <1>7, <1>8, <1>9, <1>10 DEF IInv

\* core_timeout closes a server while no event is waiting.
LEMMA TimeoutStep ==
    ASSUME IInv, NEW CONSTANT s \in Slot, core_timeout(s)
    PROVE  IInv'
<1>1. /\ UNCHANGED <<came, backlog, batch, recv_ready, emfile>> /\ ~recv_ready
      /\ batch = <<>> /\ conn_put(s) /\ kind[s] \in Open
      /\ ready' = (ready \cup Of("client")) \ {s}
  BY DEF core_timeout, Idle, Open
<1>2. /\ kind' \in [Slot -> Kinds] /\ gen' \in [Slot -> Nat]
      /\ free_connq' \in Seq(Slot) /\ ncurr_cconn' \in Int /\ PoolInv' /\ OneListener'
      /\ \A x \in Slot : x # s => kind'[x] = kind[x] /\ gen'[x] = gen[x]
  BY <1>1, PutKeepsOpen
<1>3. ready' \in SUBSET Slot /\ \A x \in ready' : x # s /\ kind[x] \in Open
  BY <1>1 DEF Of, Open, ReadyOpen, Types, IInv
<1>4. Types'
  BY <1>1, <1>2, <1>3 DEF Types, IInv
<1>5. ReadyOpen'
  BY <1>2, <1>3 DEF ReadyOpen
<1>6. BatchOpen' /\ BatchOnce' /\ Accepting'
  BY <1>1, SMTT(30) DEF BatchOpen, BatchOnce, Accepting
<1>. QED BY <1>2, <1>4, <1>5, <1>6 DEF IInv

\* proxy_accept: the loop ends, or takes a client.
LEMMA AcceptStep ==
    ASSUME IInv, accept_ends \/ accept_aborted \/ proxy_accept
    PROVE  IInv'
<1>1. /\ UNCHANGED <<came, ready, batch>> /\ recv_ready
      /\ backlog' \in Nat /\ recv_ready' \in BOOLEAN /\ emfile' \in BOOLEAN
      /\ pool_unchanged \/ \E s \in Slot : conn_get(s, "client")
  <2>1. backlog \in Nat /\ emfile \in BOOLEAN /\ recv_ready \in BOOLEAN
    BY DEF IInv, Types
  <2>2. CASE accept_ends
    BY <2>1, <2>2 DEF accept_ends
  <2>3. CASE accept_aborted
    <3>1. backlog > 0 /\ backlog' = backlog - 1
      BY <2>3 DEF accept_aborted
    <3>2. backlog' \in Nat
      BY <2>1, <3>1, SMT
    <3>. QED BY <2>1, <2>3, <3>2 DEF accept_aborted
  <2>4. CASE proxy_accept
    BY <2>1, <2>4, SMTT(30) DEF proxy_accept
  <2>. QED BY <2>2, <2>3, <2>4
<1>2. /\ kind' \in [Slot -> Kinds] /\ gen' \in [Slot -> Nat]
      /\ free_connq' \in Seq(Slot) /\ ncurr_cconn' \in Int /\ PoolInv' /\ OneListener'
      /\ \A x \in Slot : kind[x] \in Open => kind'[x] = kind[x] /\ gen'[x] = gen[x]
  BY <1>1, PoolStays, GetKeepsOpen
<1>3. Types'
  BY <1>1, <1>2 DEF Types, IInv
<1>4. ReadyOpen'
  BY <1>1, <1>2 DEF ReadyOpen, Types, IInv
<1>5. BatchOpen'
  <2>1. SUFFICES ASSUME NEW i \in 1..Len(batch)
                 PROVE  /\ kind'[batch[i].slot] \in Open
                        /\ batch[i].gen = gen'[batch[i].slot]
    BY <1>1 DEF BatchOpen
  <2>2. batch[i] \in Event
    BY SMT DEF IInv, Types
  <2>3. batch[i].slot \in Slot
    BY <2>2 DEF Event
  <2>4. kind[batch[i].slot] \in Open /\ batch[i].gen = gen[batch[i].slot]
    BY DEF BatchOpen, IInv
  <2>. QED BY <1>2, <2>3, <2>4
<1>6. BatchOnce'
  BY <1>1 DEF BatchOnce, IInv
<1>7. Accepting'
  <2>1. kind[Listener] = "proxy" /\ \A i \in 1..Len(batch) : batch[i].slot # Listener
    BY <1>1 DEF Accepting, IInv
  <2>2. kind'[Listener] = "proxy"
    BY <2>1, <1>2, SlotAssumption DEF Open
  <2>. QED BY <1>1, <2>1, <2>2 DEF Accepting
<1>. QED BY <1>2, <1>3, <1>4, <1>5, <1>6, <1>7 DEF IInv

\* An error closes the listening socket: it has no event in the batch.
LEMMA ListenerStep ==
    ASSUME IInv, accept_fails
    PROVE  IInv'
<1>1. /\ UNCHANGED <<came, batch, emfile>> /\ recv_ready /\ recv_ready' = FALSE
      /\ backlog' \in Nat /\ conn_put(Listener) /\ ready' = ready \ {Listener}
  BY SMT DEF accept_fails, IInv, Types
<1>2. kind[Listener] \in Open /\ \A i \in 1..Len(batch) : batch[i].slot # Listener
  BY <1>1 DEF Accepting, IInv, Open
<1>3. /\ kind' \in [Slot -> Kinds] /\ gen' \in [Slot -> Nat]
      /\ free_connq' \in Seq(Slot) /\ ncurr_cconn' \in Int /\ PoolInv' /\ OneListener'
      /\ \A x \in Slot : x # Listener => kind'[x] = kind[x] /\ gen'[x] = gen[x]
  BY <1>1, <1>2, PutKeepsOpen, SlotAssumption
<1>4. Types'
  BY <1>1, <1>3 DEF Types, IInv
<1>5. ReadyOpen'
  BY <1>1, <1>3 DEF ReadyOpen, Types, IInv
<1>6. BatchOpen'
  <2>1. SUFFICES ASSUME NEW i \in 1..Len(batch)
                 PROVE  /\ kind'[batch[i].slot] \in Open
                        /\ batch[i].gen = gen'[batch[i].slot]
    BY <1>1 DEF BatchOpen
  <2>2. batch[i] \in Event
    BY SMT DEF IInv, Types
  <2>3. batch[i].slot \in Slot
    BY <2>2 DEF Event
  <2>4. kind[batch[i].slot] \in Open /\ batch[i].gen = gen[batch[i].slot]
    BY DEF BatchOpen, IInv
  <2>. QED BY <1>2, <1>3, <2>3, <2>4
<1>7. BatchOnce' /\ Accepting'
  BY <1>1 DEF BatchOnce, Accepting, IInv
<1>. QED BY <1>3, <1>4, <1>5, <1>6, <1>7 DEF IInv

\* Every step of the loop and of the kernel keeps the invariant.
LEMMA NextInv == IInv /\ [Next]_vars => IInv'
<1>. SUFFICES ASSUME IInv, [Next]_vars PROVE IInv'
  OBVIOUS
<1>1. CASE client_connects \/ \E s \in Slot : peer_event(s)
  BY <1>1, KernelStep
<1>2. CASE Loop
  BY <1>2, WaitStep, ProxyStep, RecvStep, CloseStep, AcceptStep DEF Loop
<1>3. CASE accept_fails
  BY <1>3, ListenerStep
<1>4. CASE accept_aborted
  BY <1>4, AcceptStep
<1>5. CASE \E s \in Slot : core_timeout(s)
  BY <1>5, TimeoutStep
<1>6. CASE UNCHANGED vars
  BY <1>6 DEF vars, IInv, Types, PoolInv, ReadyOpen, BatchOpen, BatchOnce, OneListener,
              Accepting, Of
<1>. QED BY <1>1, <1>2, <1>3, <1>4, <1>5, <1>6 DEF Next

-----------------------------------------------------------------------------
(* The limits.  The clients and the servers there are leave a descriptor   *)
(* for accept() when what else is open was reserved.                       *)

LimitInv ==
    /\ Cardinality(Of("server")) <= max_nsconn
    /\ DescriptorsReserved => ncurr_cconn <= max_ncconn /\ ~emfile

\* core_calc_connections does not wrap round.
LEMMA NoWrap ==
    ASSUME DescriptorsReserved
    PROVE  max_ncconn = max_nfd - max_nsconn - RESERVED_FDS /\ max_ncconn \in Nat
BY LimitAssumption, SMTT(30) DEF DescriptorsReserved, max_ncconn

\* A descriptor is left for accept().
LEMMA RoomToAccept ==
    ASSUME IInv, LimitInv, DescriptorsReserved
    PROVE  Fds < max_nfd
<1>1. Live = Of("client") \cup Of("server") /\ Of("client") \cap Of("server") = {}
  BY DEF Live, Of
<1>2. /\ IsFiniteSet(Of("client")) /\ Cardinality(Of("client")) \in Nat
      /\ IsFiniteSet(Of("server")) /\ Cardinality(Of("server")) \in Nat
  BY OfFinite
<1>3. Cardinality(Live) = Cardinality(Of("client")) + Cardinality(Of("server"))
  <2>1. Cardinality(Live) = Cardinality(Of("client")) + Cardinality(Of("server"))
                              - Cardinality(Of("client") \cap Of("server"))
    BY <1>1, <1>2, FS_Union
  <2>2. Cardinality(Of("client") \cap Of("server")) = 0
    BY <1>1, FS_EmptySet
  <2>. QED BY <1>2, <2>1, <2>2, SMTT(30)
<1>4. Cardinality(Of("client")) <= max_nfd - max_nsconn - RESERVED_FDS
  BY NoWrap DEF LimitInv, IInv, PoolInv
<1>5. Cardinality(Of("server")) <= max_nsconn
  BY DEF LimitInv
<1>. QED BY <1>2, <1>3, <1>4, <1>5, LimitAssumption, SMTT(30) DEF Fds, DescriptorsReserved

\* At the start there are no clients and no servers.
LEMMA LimitInit == Init => LimitInv
<1>. SUFFICES ASSUME Init PROVE LimitInv
  OBVIOUS
<1>1. Of("server") = {}
  BY DEF Init, Of
<1>2. Cardinality(Of("server")) <= max_nsconn
  BY <1>1, FS_EmptySet, LimitAssumption, SMTT(30)
<1>3. DescriptorsReserved => ncurr_cconn <= max_ncconn
  BY NoWrap, SMTT(30) DEF Init
<1>. QED BY <1>2, <1>3 DEF LimitInv, Init

\* What a step may do to the two counts.
LEMMA PutLimits ==
    ASSUME IInv, LimitInv, NEW CONSTANT s \in Slot, kind[s] \in Open, conn_put(s),
           emfile' = emfile
    PROVE  LimitInv'
<1>1. kind \in [Slot -> Kinds] /\ kind' = [kind EXCEPT ![s] = "free"] /\ ncurr_cconn \in Int
  BY DEF IInv, Types, conn_put
<1>2. Cardinality(Of("server")) \in Nat
  BY OfFinite
<1>3. \/ Cardinality(Of("server"))' = Cardinality(Of("server"))
      \/ Cardinality(Of("server"))' = Cardinality(Of("server")) - 1
  <2>1. CASE kind[s] = "server"
    BY <1>1, <2>1, KindLeft, ZenonT(30)
  <2>2. CASE kind[s] # "server"
    BY <1>1, <2>2, KindKept, ZenonT(30)
  <2>. QED BY <2>1, <2>2
<1>4. Cardinality(Of("server"))' <= max_nsconn
  BY <1>2, <1>3, LimitAssumption, SMTT(30) DEF LimitInv
<1>5. ncurr_cconn' <= ncurr_cconn /\ ncurr_cconn' \in Int
  BY <1>1, SMT DEF conn_put
<1>6. DescriptorsReserved => ncurr_cconn' <= max_ncconn
  BY <1>1, <1>5, NoWrap, SMT DEF LimitInv
<1>. QED BY <1>4, <1>6 DEF LimitInv, max_ncconn, DescriptorsReserved

\* Steps that open and close nothing.
LEMMA StayLimits ==
    ASSUME LimitInv, pool_unchanged, DescriptorsReserved => ~emfile'
    PROVE  LimitInv'
BY DEF LimitInv, pool_unchanged, Of, max_ncconn, DescriptorsReserved

\* A new server is within the limit of the configuration.
LEMMA ServerLimits ==
    ASSUME IInv, LimitInv, NEW CONSTANT s \in Slot, conn_get(s, "server"),
           Cardinality(Of("server")) < max_nsconn, emfile' = emfile
    PROVE  LimitInv'
<1>1. /\ kind \in [Slot -> Kinds] /\ kind' = [kind EXCEPT ![s] = "server"]
      /\ ncurr_cconn' = ncurr_cconn
  BY DEF IInv, Types, conn_get
<1>2. kind[s] # "server"
  BY GetKeepsPool DEF IInv
<1>3. Cardinality(Of("server"))' = Cardinality(Of("server")) + 1
  BY <1>1, <1>2, KindJoined
<1>4. Cardinality(Of("server")) \in Nat
  BY OfFinite
<1>5. Cardinality(Of("server"))' <= max_nsconn
  BY <1>3, <1>4, LimitAssumption, SMTT(30)
<1>. QED BY <1>1, <1>5 DEF LimitInv, max_ncconn, DescriptorsReserved

\* A new client is within max_ncconn.
LEMMA ClientLimits ==
    ASSUME IInv, LimitInv, NEW CONSTANT s \in Slot, conn_get(s, "client"),
           ~(ncurr_cconn >= max_ncconn), emfile' = emfile
    PROVE  LimitInv'
<1>1. /\ kind \in [Slot -> Kinds] /\ kind' = [kind EXCEPT ![s] = "client"]
      /\ ncurr_cconn' = ncurr_cconn + 1 /\ ncurr_cconn \in Int
  BY DEF IInv, Types, conn_get
<1>2. kind[s] # "server"
  BY GetKeepsPool DEF IInv
<1>3. Cardinality(Of("server"))' = Cardinality(Of("server"))
  BY <1>1, <1>2, KindKept, ZenonT(30)
<1>4. DescriptorsReserved => ncurr_cconn' <= max_ncconn
  BY <1>1, NoWrap, SMTT(30)
<1>. QED BY <1>3, <1>4 DEF LimitInv, max_ncconn, DescriptorsReserved

\* Every step keeps the limits.
LEMMA LimitNext == IInv /\ LimitInv /\ [Next]_vars => LimitInv'
<1>. SUFFICES ASSUME IInv, LimitInv, [Next]_vars PROVE LimitInv'
  OBVIOUS
<1>1. CASE \/ client_connects \/ event_wait \/ proxy_recv \/ accept_aborted
           \/ \E s \in Slot : peer_event(s)
  <2>1. pool_unchanged /\ emfile' = emfile
    BY <1>1 DEF client_connects, event_wait, proxy_recv, accept_aborted, peer_event
  <2>2. DescriptorsReserved => ~emfile'
    BY <2>1 DEF LimitInv
  <2>. QED BY <2>1, <2>2, StayLimits
<1>2. CASE accept_ends
  <2>1. pool_unchanged /\ emfile' = (emfile \/ backlog > 0) /\ (backlog = 0 \/ Fds >= max_nfd)
    BY <1>2 DEF accept_ends
  <2>2. ASSUME DescriptorsReserved PROVE ~emfile'
    <3>1. Fds < max_nfd /\ ~emfile
      BY <2>2, RoomToAccept DEF LimitInv
    <3>2. Fds \in Int /\ max_nfd \in Int
      <4>1. IsFiniteSet(Live)
        BY OfFinite, FS_Union DEF Live
      <4>. QED BY <4>1, FS_CardinalityType, LimitAssumption, SMTT(30) DEF Fds
    <3>3. ~(Fds >= max_nfd)
      BY <3>1, <3>2, SMTT(30)
    <3>4. ~(backlog > 0)
      BY <2>1, <3>3, SMTT(30)
    <3>. QED BY <2>1, <3>1, <3>4
  <2>. QED BY <2>1, <2>2, StayLimits
<1>3. CASE core_recv
  <2>1. /\ emfile' = emfile
        /\ \/ pool_unchanged
           \/ /\ Cardinality(Of("server")) < max_nsconn
              /\ \E s \in Slot : conn_get(s, "server")
    BY <1>3 DEF core_recv
  <2>2. DescriptorsReserved => ~emfile'
    BY <2>1 DEF LimitInv
  <2>. QED BY <2>1, <2>2, StayLimits, ServerLimits
<1>4. CASE proxy_accept
  <2>1. /\ emfile' = emfile
        /\ \/ pool_unchanged
           \/ ~(ncurr_cconn >= max_ncconn) /\ \E s \in Slot : conn_get(s, "client")
    BY <1>4 DEF proxy_accept
  <2>2. DescriptorsReserved => ~emfile'
    BY <2>1 DEF LimitInv
  <2>. QED BY <2>1, <2>2, StayLimits, ClientLimits
<1>5. CASE core_close
  <2>1. emfile' = emfile /\ conn_put(conn) /\ kind[conn] \in Open /\ conn \in Slot
    BY <1>5, RestOfBatch DEF core_close, Handled, Live, Of, Open, IInv
  <2>2. PICK c \in Slot : c = conn
    BY <2>1
  <2>. QED BY <2>1, <2>2, PutLimits
<1>6. CASE \E s \in Slot : core_timeout(s)
  <2>1. PICK s \in Slot : emfile' = emfile /\ conn_put(s) /\ kind[s] \in Open
    BY <1>6 DEF core_timeout, Open
  <2>. QED BY <2>1, PutLimits
<1>7. CASE accept_fails
  <2>1. emfile' = emfile /\ conn_put(Listener) /\ kind[Listener] \in Open
    BY <1>7 DEF accept_fails, IInv, Accepting, Open
  <2>. QED BY <2>1, SlotAssumption, PutLimits
<1>8. CASE UNCHANGED vars
  BY <1>8 DEF vars, LimitInv, Of, max_ncconn, DescriptorsReserved
<1>. QED BY <1>1, <1>2, <1>3, <1>4, <1>5, <1>6, <1>7, <1>8 DEF Next, Loop

-----------------------------------------------------------------------------
(* The backlog.                                                            *)

\* With no client that gives up in the backlog, whose ECONNABORTED ends the
\* loop of proxy_recv, every step keeps sight of the backlog.
LEMMA ForgetsNone ==
    IInv /\ LimitInv' /\ DescriptorsReserved /\ ~Aborts /\ NoneForgotten /\ [Next]_vars
      => NoneForgotten'
<1>. SUFFICES ASSUME IInv, LimitInv', DescriptorsReserved, ~Aborts, NoneForgotten, [Next]_vars,
                     backlog' > 0, kind'[Listener] = "proxy"
              PROVE  \/ recv_ready' \/ Listener \in ready'
                     \/ \E i \in 1..Len(batch') : batch'[i].slot = Listener
  BY DEF NoneForgotten
<1>. DEFINE Seen == \/ recv_ready \/ Listener \in ready
                    \/ \E i \in 1..Len(batch) : batch[i].slot = Listener
<1>1. kind \in [Slot -> Kinds] /\ Listener \in Slot /\ ready \in SUBSET Slot /\ backlog \in Nat
  BY SlotAssumption DEF IInv, Types
<1>2. CASE client_connects
  <2>1. kind' = kind /\ ready' = IF kind[Listener] = "proxy" THEN ready \cup {Listener} ELSE ready
    BY <1>2 DEF client_connects, pool_unchanged
  <2>. QED BY <2>1
<1>3. CASE \E s \in Slot : peer_event(s)
  <2>1. /\ kind' = kind /\ backlog' = backlog /\ ready \subseteq ready'
        /\ UNCHANGED <<batch, recv_ready>>
    BY <1>3 DEF peer_event, pool_unchanged
  <2>2. Seen
    BY <2>1 DEF NoneForgotten
  <2>. QED BY <2>1, <2>2
<1>4. CASE event_wait
  <2>1. kind' = kind /\ backlog' = backlog /\ batch = <<>> /\ ~recv_ready
    BY <1>4 DEF event_wait, pool_unchanged, Idle
  <2>2. Seen
    BY <2>1 DEF NoneForgotten
  <2>3. 1..Len(batch) = {}
    BY <2>1, SMT
  <2>4. Listener \in ready
    BY <2>1, <2>2, <2>3
  <2>. QED BY <1>4, <2>4, Reported DEF IInv
<1>5. CASE proxy_recv \/ proxy_accept
  BY <1>5, SMTT(30) DEF proxy_recv, proxy_accept
<1>6. CASE accept_ends
  <2>1. backlog' = backlog /\ emfile' = (emfile \/ backlog > 0)
    BY <1>6 DEF accept_ends
  <2>2. ~emfile'
    BY DEF LimitInv, DescriptorsReserved
  <2>. QED BY <2>1, <2>2
<1>7. CASE accept_aborted
  BY <1>7 DEF accept_aborted
<1>8. CASE accept_fails
  BY <1>1, <1>8 DEF accept_fails, conn_put
<1>9. CASE core_recv \/ core_close
  <2>1. /\ batch # <<>> /\ batch' = Tail(batch) /\ conn \in Live /\ backlog' = backlog
        /\ recv_ready' = recv_ready /\ ready \ {conn} \subseteq ready'
    BY <1>9 DEF core_recv, core_close, Handled
  <2>2. conn \in Slot /\ kind[conn] \in {"client", "server"}
    BY <2>1 DEF Live, Of
  <2>3. kind[Listener] = "proxy"
    <3>1. CASE core_recv
      <4>1. pool_unchanged \/ \E s \in Slot : conn_get(s, "server")
        BY <3>1 DEF core_recv
      <4>. QED BY <4>1, <1>1 DEF pool_unchanged, conn_get
    <3>2. CASE core_close
      <4>1. kind' = [kind EXCEPT ![conn] = "free"]
        BY <3>2 DEF core_close, conn_put
      <4>. QED BY <4>1, <1>1
    <3>. QED BY <1>9, <3>1, <3>2
  <2>4. Seen /\ conn # Listener
    BY <2>1, <2>2, <2>3 DEF NoneForgotten
  <2>5. ASSUME NEW i \in 1..Len(batch), batch[i].slot = Listener
        PROVE  \E j \in 1..Len(batch') : batch'[j].slot = Listener
    <3>1. i # 1
      BY <2>1, <2>4, <2>5, RestOfBatch DEF IInv
    <3>2. batch \in Seq(Event)
      BY DEF IInv, Types
    <3>3. i - 1 \in 1..Len(batch') /\ batch'[i - 1] = batch[i]
      BY <2>1, <3>1, <3>2, SMTT(30)
    <3>. QED BY <2>5, <3>3
  <2>. QED BY <2>1, <2>4, <2>5
<1>10. CASE \E s \in Slot : core_timeout(s)
  <2>1. PICK s \in Slot : core_timeout(s)
    BY <1>10
  <2>2. /\ kind[s] = "server" /\ kind' = [kind EXCEPT ![s] = "free"] /\ backlog' = backlog
        /\ UNCHANGED <<batch, recv_ready>> /\ ready \ {s} \subseteq ready'
    BY <2>1 DEF core_timeout, conn_put
  <2>3. kind[Listener] = "proxy" /\ s # Listener
    BY <1>1, <2>2
  <2>4. Seen
    BY <2>2, <2>3 DEF NoneForgotten
  <2>. QED BY <2>2, <2>3, <2>4
<1>11. CASE UNCHANGED vars
  <2>1. /\ kind' = kind /\ backlog' = backlog /\ ready' = ready
        /\ batch' = batch /\ recv_ready' = recv_ready
    BY <1>11 DEF vars
  <2>2. Seen
    BY <2>1 DEF NoneForgotten
  <2>. QED BY <2>1, <2>2
<1>. QED BY <1>2, <1>3, <1>4, <1>5, <1>6, <1>7, <1>8, <1>9, <1>10, <1>11 DEF Next, Loop

-----------------------------------------------------------------------------
\* core_core: whatever was accepted, opened and closed since epoll_wait
\* returned, an event of the batch is for the connection that had it, which
\* is still open.
THEOREM EventsAreOwn == Spec => []OwnEvents
<1>1. IInv => OwnEvents
  BY DEF IInv, BatchOpen, OwnEvents, Open
<1>. QED BY <1>1, InitInv, NextInv, PTL DEF Spec

\* conn_get and conn_put: the free list holds the closed structs, each once;
\* ncurr_cconn counts the clients; and where the descriptors of the rest were
\* reserved, accept() in proxy_accept never fails for want of one.
THEOREM PoolIsSound == Spec => []PoolSound
<1>1. IInv /\ LimitInv => PoolSound
  <2>. SUFFICES ASSUME IInv, LimitInv PROVE PoolSound
    OBVIOUS
  <2>1. free_connq \in Seq(Slot)
    BY DEF IInv, Types
  <2>2. DOMAIN free_connq = 1..Len(free_connq)
    BY <2>1, SMT
  <2>3. Range(free_connq) = Elems(free_connq)
    BY <2>2 DEF Range, Elems
  <2>. QED BY <2>3 DEF IInv, PoolInv, LimitInv, PoolSound, NeverEmfile
<1>. QED BY <1>1, InitInv, NextInv, LimitInit, LimitNext, PTL DEF Spec

\* proxy_recv, under edge-triggered epoll: as long as clients wait in the
\* backlog there is an edge not reported, an event not handled, or the loop
\* still accepts.  It needs that no client gives up in the backlog: see
\* accept_aborted.
THEOREM BacklogIsSeen ==
    ASSUME DescriptorsReserved, ~Aborts
    PROVE  Spec => []NoneForgotten
<1>1. Init => NoneForgotten
  BY SMTT(30) DEF Init, NoneForgotten
<1>2. IInv /\ LimitInv' /\ NoneForgotten /\ [Next]_vars => NoneForgotten'
  BY ForgetsNone
<1>. QED BY <1>1, <1>2, InitInv, NextInv, LimitInit, LimitNext, PTL DEF Spec
=============================================================================
