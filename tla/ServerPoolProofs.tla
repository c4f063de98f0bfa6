-------------------------- MODULE ServerPoolProofs --------------------------
(***************************************************************************)
(* Theorems about ServerPool, for any number of servers, any weights, any  *)
(* distribution, failure limit, retry timeout and number of connections.   *)
(***************************************************************************)
EXTENDS ServerPool, FiniteSetTheorems, WellFoundedInduction, TLAPS

(* A nonempty set of natural numbers has a least element.                  *)
LEMMA LeastNat ==
    ASSUME NEW T \in SUBSET Nat, T # {}
    PROVE  Min(T) \in T /\ \A y \in T : Min(T) <= y
<1>1. PICK x \in T : \A y \in T : ~(<<y, x>> \in OpToRel(<, Nat))
  BY NatLessThanWellFounded, WFMin, Zenon
<1>2. \A y \in T : x <= y
  <2> TAKE y \in T
  <2>1. <<y, x>> \in Nat \X Nat
    OBVIOUS
  <2>2. ~(y < x)
    BY <1>1, <2>1 DEF OpToRel
  <2> QED BY <2>2, SMT
<1> QED BY <1>2, Zenon DEF Min

-----------------------------------------------------------------------------
(***************************************************************************)
(* The sums that ketama_update(), modula_update() and random_update() make *)
(* in their loops over the servers, and how much a rebuild puts on the     *)
(* continuum.                                                              *)
(***************************************************************************)
(* Induction along a loop: G is the set of the rounds after which something *)
(* holds.                                                                  *)
LEMMA LoopInduction ==
    ASSUME NEW n \in Nat, NEW G \in SUBSET (0..n), 0 \in G,
           \A k \in 1..n : k - 1 \in G => k \in G
    PROVE  \A k \in 0..n : k \in G
<1>1. SUFFICES ASSUME (0..n) \ G # {} PROVE FALSE
  OBVIOUS
<1>2. (0..n) \ G \in SUBSET Nat
  OBVIOUS
<1>3. PICK x \in (0..n) \ G : \A y \in (0..n) \ G : x <= y
  BY <1>1, <1>2, LeastNat, Zenon
<1>4. x \in 1..n /\ x - 1 \in 0..n /\ ~(x <= x - 1)
  BY <1>3
<1>5. x - 1 \in G
  BY <1>3, <1>4
<1> QED BY <1>3, <1>4, <1>5

(* The sums of a loop, as it goes on.                                      *)
Sums(f, n, g) ==
    /\ g \in [0..n -> Int] /\ g[0] = 0
    /\ \A k \in 1..n : g[k] = g[k - 1] + f[k - 1]

(* The loop that adds f over the servers is a function of the round.       *)
LEMMA SumsExist ==
    ASSUME NEW f \in [Server -> Int]
    PROVE  \E g : Sums(f, NServer, g)
<1> DEFINE G == {k \in 0..NServer : \E g : Sums(f, k, g)}
<1>1. NServer \in Nat /\ G \in SUBSET (0..NServer)
  BY PoolAssumption
<1>2. 0 \in G
  <2>1. Sums(f, 0, [k \in 0..0 |-> 0])
    BY DEF Sums
  <2> QED BY <1>1, <2>1
<1>3. ASSUME NEW x \in 1..NServer, x - 1 \in G PROVE x \in G
  <2>1. x \in Nat /\ x # 0 /\ x - 1 \in Server /\ x \in 0..NServer
    BY <1>1, <1>3 DEF Server
  <2>2. PICK g : Sums(f, x - 1, g)
    BY <1>3
  <2>3. PICK h : h = [k \in 0..x |-> IF k = x THEN g[x - 1] + f[x - 1] ELSE g[k]]
    BY Zenon
  <2>4. f[x - 1] \in Int
    BY <2>1
  <2>5. g \in [0..(x - 1) -> Int] /\ g[0] = 0 /\ \A k \in 1..(x - 1) : g[k] = g[k - 1] + f[k - 1]
    BY <2>2 DEF Sums
  <2>6. h \in [0..x -> Int] /\ h[0] = 0
    BY <2>1, <2>3, <2>4, <2>5
  <2>7. ASSUME NEW k \in 1..x PROVE h[k] = h[k - 1] + f[k - 1]
    <3>1. CASE k = x
      BY <2>1, <2>3, <3>1
    <3>2. CASE k # x
      <4>1. k \in 1..(x - 1) /\ k \in 0..x /\ k - 1 \in 0..x /\ k - 1 # x
        BY <2>1, <3>2
      <4>2. h[k] = g[k] /\ h[k - 1] = g[k - 1]
        BY <2>3, <3>2, <4>1
      <4> QED BY <2>5, <4>1, <4>2
    <3> QED BY <3>1, <3>2
  <2>8. Sums(f, x, h)
    BY <2>6, <2>7 DEF Sums
  <2> QED BY <2>1, <2>8
<1> HIDE DEF G
<1>4. \A k \in 0..NServer : k \in G
  BY <1>1, <1>2, <1>3, LoopInduction
<1>5. NServer \in G
  BY <1>1, <1>4
<1> QED BY <1>5 DEF G

(* SumOf is the last of them.                                              *)
LEMMA SumIsLast ==
    ASSUME NEW f \in [Server -> Int]
    PROVE  \E g : Sums(f, NServer, g) /\ SumOf(f) = g[NServer]
<1> DEFINE Loop(u) == u = [k \in 0..NServer |-> IF k = 0 THEN 0 ELSE u[k - 1] + f[k - 1]]
           up == CHOOSE u : Loop(u)
<1>1. SumOf(f) = up[NServer]
  BY DEF SumOf
<1>2. NServer \in Nat /\ NServer \in 0..NServer
  BY PoolAssumption
<1>3. PICK g : Sums(f, NServer, g)
  BY SumsExist
<1>4. g \in [0..NServer -> Int] /\ g[0] = 0 /\ \A k \in 1..NServer : g[k] = g[k - 1] + f[k - 1]
  BY <1>3 DEF Sums
<1>5. \A k \in 0..NServer : k # 0 => k \in 1..NServer
  BY <1>2
<1>6. Loop(g)
  BY <1>4, <1>5
<1>7. Loop(up)
  BY <1>6, Zenon
<1> HIDE DEF up
<1>8. \A k \in 0..NServer : up[k] = IF k = 0 THEN 0 ELSE up[k - 1] + f[k - 1]
  BY <1>7, Zenon
<1> DEFINE G == {k \in 0..NServer : up[k] = g[k]}
<1>9. G \in SUBSET (0..NServer) /\ 0 \in G
  BY <1>2, <1>4, <1>8
<1>10. ASSUME NEW k \in 1..NServer, k - 1 \in G PROVE k \in G
  BY <1>2, <1>4, <1>8, <1>10
<1> HIDE DEF G
<1>11. NServer \in G
  BY <1>2, <1>9, <1>10, LoopInduction
<1> QED BY <1>1, <1>3, <1>11 DEF G

(* Adding whole numbers gives a whole number.                              *)
LEMMA SumIsInt ==
    ASSUME NEW f \in [Server -> Int]
    PROVE  SumOf(f) \in Int
<1>1. PICK g : Sums(f, NServer, g) /\ SumOf(f) = g[NServer]
  BY SumIsLast
<1>2. NServer \in 0..NServer
  BY PoolAssumption
<1> QED BY <1>1, <1>2 DEF Sums

(* One loop adds up no more than another when no round of it does.         *)
LEMMA SumsCompare ==
    ASSUME NEW f \in [Server -> Int], NEW h \in [Server -> Int], NEW a \in Int, NEW b \in Int,
           \A s \in Server : a * f[s] <= b * h[s]
    PROVE  a * SumOf(f) <= b * SumOf(h)
<1>1. PICK u : Sums(f, NServer, u) /\ SumOf(f) = u[NServer]
  BY SumIsLast
<1>2. PICK v : Sums(h, NServer, v) /\ SumOf(h) = v[NServer]
  BY SumIsLast
<1>3. NServer \in Nat /\ NServer \in 0..NServer
  BY PoolAssumption
<1> DEFINE G == {k \in 0..NServer : a * u[k] <= b * v[k]}
<1>4. G \in SUBSET (0..NServer) /\ 0 \in G
  BY <1>1, <1>2, <1>3 DEF Sums
<1>5. ASSUME NEW k \in 1..NServer, k - 1 \in G PROVE k \in G
  <2>1. k - 1 \in Server /\ k - 1 \in 0..NServer /\ k \in 0..NServer
    BY <1>3 DEF Server
  <2>2. /\ u[k - 1] \in Int /\ f[k - 1] \in Int /\ u[k] = u[k - 1] + f[k - 1]
        /\ v[k - 1] \in Int /\ h[k - 1] \in Int /\ v[k] = v[k - 1] + h[k - 1]
    BY <1>1, <1>2, <2>1 DEF Sums
  <2>3. a * u[k] = a * u[k - 1] + a * f[k - 1] /\ b * v[k] = b * v[k - 1] + b * h[k - 1]
    BY <2>2
  <2>4. a * u[k - 1] <= b * v[k - 1] /\ a * f[k - 1] <= b * h[k - 1]
    BY <1>5, <2>1
  <2>5. /\ a * u[k - 1] \in Int /\ b * v[k - 1] \in Int
        /\ a * f[k - 1] \in Int /\ b * h[k - 1] \in Int
    BY <2>2
  <2>6. a * u[k] <= b * v[k]
    BY <2>3, <2>4, <2>5
  <2> QED BY <2>1, <2>6
<1> HIDE DEF G
<1>6. NServer \in G
  BY <1>3, <1>4, <1>5, LoopInduction, Zenon
<1> QED BY <1>1, <1>2, <1>6 DEF G

(* A loop that adds one for each server of S counts them.                  *)
Ones(S) == [s \in Server |-> IF s \in S THEN 1 ELSE 0]

(* Adding one for each member of a set counts its members.                 *)
LEMMA SumCounts ==
    ASSUME NEW S \in SUBSET Server
    PROVE  SumOf(Ones(S)) = Cardinality(S) /\ Cardinality(S) \in Nat
<1>1. Ones(S) \in [Server -> Int]
  BY DEF Ones
<1>2. PICK u : Sums(Ones(S), NServer, u) /\ SumOf(Ones(S)) = u[NServer]
  BY <1>1, SumIsLast
<1>3. NServer \in Nat /\ NServer \in 0..NServer
  BY PoolAssumption
<1>0. \A s \in S : s \in Int /\ 0 <= s /\ s < NServer
  BY <1>3 DEF Server
<1> DEFINE Below(k) == {s \in S : s < k}
           G == {k \in 0..NServer : IsFiniteSet(Below(k)) /\ u[k] = Cardinality(Below(k))}
<1>4. 0 \in G
  <2>1. Below(0) = {}
    BY <1>0
  <2>2. u[0] = 0
    BY <1>2 DEF Sums
  <2> QED BY <1>3, <2>1, <2>2, FS_EmptySet
<1>5. ASSUME NEW k \in 1..NServer, k - 1 \in G PROVE k \in G
  <2>1. k - 1 \in Server /\ k - 1 \in 0..NServer /\ k \in 0..NServer
    BY <1>3 DEF Server
  <2>2. u[k] = u[k - 1] + Ones(S)[k - 1] /\ u[k - 1] \in Int
    BY <1>2, <2>1 DEF Sums
  <2>3. IsFiniteSet(Below(k - 1)) /\ u[k - 1] = Cardinality(Below(k - 1))
    BY <1>5
  <2>4. CASE k - 1 \in S
    <3>4. k \in Int /\ ~(k - 1 < k - 1) /\ \A s \in S : s < k <=> s < k - 1 \/ s = k - 1
      BY <1>0
    <3>1. Below(k) = Below(k - 1) \cup {k - 1} /\ k - 1 \notin Below(k - 1)
      BY <2>4, <3>4, Zenon
    <3>2. IsFiniteSet(Below(k)) /\ Cardinality(Below(k)) = Cardinality(Below(k - 1)) + 1
      <4> HIDE DEF Below
      <4> QED BY <2>3, <3>1, FS_AddElement
    <3>3. Ones(S)[k - 1] = 1
      BY <2>1, <2>4 DEF Ones
    <3> QED BY <2>1, <2>2, <2>3, <3>2, <3>3
  <2>5. CASE k - 1 \notin S
    <3>4. \A s \in S : s < k <=> s < k - 1 \/ s = k - 1
      BY <1>0
    <3>1. Below(k) = Below(k - 1)
      BY <2>5, <3>4, Zenon
    <3>2. Ones(S)[k - 1] = 0
      BY <2>1, <2>5 DEF Ones
    <3> QED BY <2>1, <2>2, <2>3, <3>1, <3>2
  <2> QED BY <2>4, <2>5
<1>6. G \in SUBSET (0..NServer)
  OBVIOUS
<1>7. Below(NServer) = S
  BY <1>0, Zenon
<1> HIDE DEF G
<1>8. NServer \in G
  BY <1>3, <1>4, <1>5, <1>6, LoopInduction
<1>9. IsFiniteSet(S) /\ u[NServer] = Cardinality(S)
  BY <1>7, <1>8 DEF G
<1> QED BY <1>2, <1>9, FS_CardinalityType

(* The share of one server, in integers.                                   *)
LEMMA ShareBounds ==
    ASSUME NEW a \in Nat, NEW T \in Nat, T > 0
    PROVE  /\ a \div (4 * T) \in Nat
           /\ T * (4 * (a \div (4 * T))) <= a
           /\ a \div (4 * T) = 0 => a < 4 * T
<1>1. PICK b \in Nat : b = 4 * T /\ b > 0
  OBVIOUS
<1>2. PICK q \in Int : q = a \div b
  BY <1>1
<1>3. b * q <= a /\ a < b * q + b
  BY <1>1, <1>2
<1>4. q >= 0
  BY <1>1, <1>2
<1>5. T * (4 * q) = b * q
  BY <1>1
<1> QED BY <1>1, <1>2, <1>3, <1>4, <1>5

Weights(S) == [s \in Server |-> IF s \in S THEN Weight[s] ELSE 0]
Points(S) == [s \in Server |-> IF s \in S THEN PointsOf(s, S) ELSE 0]

(* The total weight of ketama_update().                                    *)
LEMMA WeightsAdd ==
    ASSUME NEW S \in SUBSET Server, S # {}
    PROVE  /\ Weights(S) \in [Server -> Int] /\ Ones(S) \in [Server -> Int]
           /\ Total(S) = SumOf(Weights(S)) /\ Total(S) \in Int
           /\ Cardinality(S) \in Nat /\ Cardinality(S) > 0
           /\ Total(S) >= Cardinality(S)
<1>1. Weights(S) \in [Server -> Int] /\ Ones(S) \in [Server -> Int]
  BY PoolAssumption DEF Weights, Ones
<1>2. Total(S) = SumOf(Weights(S))
  BY DEF Total, Weights
<1>3. SumOf(Weights(S)) \in Int
  BY <1>1, SumIsInt
<1>4. SumOf(Ones(S)) = Cardinality(S) /\ Cardinality(S) \in Nat
  BY SumCounts
<1>5. PICK s \in S : s \in Server
  OBVIOUS
<1>6. SumOf(Ones({s})) = Cardinality({s}) /\ Cardinality({s}) = 1
  BY <1>5, SumCounts, FS_Singleton, SMTT(30)
<1>7. \A x \in Server : 1 * Ones({s})[x] <= 1 * Ones(S)[x]
  BY <1>5 DEF Ones
<1>8. Ones({s}) \in [Server -> Int]
  BY DEF Ones
<1>9. 1 * SumOf(Ones({s})) <= 1 * SumOf(Ones(S))
  <2>1. 1 \in Int
    OBVIOUS
  <2>2. Ones(S) \in [Server -> Int]
    BY <1>1
  <2> QED BY <1>7, <1>8, <2>1, <2>2, SumsCompare, Zenon
<1>10. \A x \in Server : 1 * Ones(S)[x] <= 1 * Weights(S)[x]
  BY PoolAssumption DEF Ones, Weights
<1>11. 1 * SumOf(Ones(S)) <= 1 * SumOf(Weights(S))
  BY <1>1, <1>10, SumsCompare
<1> QED BY <1>1, <1>2, <1>3, <1>4, <1>6, <1>9, <1>11

(* A sum of which one term is positive and none is negative is positive.   *)
LEMMA SumIsPositive ==
    ASSUME NEW f \in [Server -> Nat], NEW s \in Server, f[s] > 0
    PROVE  SumOf(f) > 0
<1>1. SumOf(Ones({s})) = 1
  BY SumCounts, FS_Singleton, Zenon
<1>2. Ones({s}) \in [Server -> Int] /\ f \in [Server -> Int]
  BY DEF Ones
<1>3. \A x \in Server : 1 * Ones({s})[x] <= 1 * f[x]
  BY DEF Ones
<1>4. 1 * SumOf(Ones({s})) <= 1 * SumOf(f) /\ SumOf(f) \in Int
  BY <1>2, <1>3, SumsCompare, SumIsInt, SMTT(30)
<1> QED BY <1>1, <1>4

(* ketama_update() writes some points, and no more than it has room for.   *)
LEMMA KetamaFits ==
    ASSUME Dist = "ketama", NEW S \in SUBSET Server, S # {}
    PROVE  /\ Points(S) \in [Server -> Nat]
           /\ SumOf(Points(S)) > 0
           /\ SumOf(Points(S)) <= PointsPerServer * Cardinality(S)
<1>1. /\ Weights(S) \in [Server -> Int] /\ Ones(S) \in [Server -> Int]
      /\ Total(S) = SumOf(Weights(S)) /\ SumOf(Ones(S)) = Cardinality(S)
  BY WeightsAdd, SumCounts
<1>2. PICK T \in Nat : T = Total(S) /\ T > 0
  BY WeightsAdd
<1>3. PICK n \in Nat : n = Cardinality(S) /\ n > 0
  BY WeightsAdd
<1>4. PICK P \in Nat : P = PointsPerServer /\ P >= 4
  BY PoolAssumption
<1> DEFINE share(s) == Weight[s] * P * n
<1>5. ASSUME NEW s \in S
      PROVE  /\ share(s) \in Nat /\ Weight[s] \in Nat
             /\ Points(S)[s] = 4 * (share(s) \div (4 * T))
  <2>1. s \in Server /\ Weight[s] \in Nat
    BY PoolAssumption
  <2>2. Weight[s] * P \in Nat
    BY <2>1
  <2>3. share(s) \in Nat
    BY <2>2
  <2>4. Points(S)[s] = PointsOf(s, S)
    BY <2>1 DEF Points
  <2> QED BY <1>2, <1>3, <1>4, <2>1, <2>3, <2>4 DEF PointsOf
<1> HIDE DEF share
<1>6. ASSUME NEW s \in S
      PROVE  /\ Points(S)[s] \in Nat /\ T * Points(S)[s] <= share(s)
             /\ Points(S)[s] = 0 => share(s) < 4 * T
  <2>1. /\ share(s) \div (4 * T) \in Nat
        /\ T * (4 * (share(s) \div (4 * T))) <= share(s)
        /\ share(s) \div (4 * T) = 0 => share(s) < 4 * T
    BY <1>2, <1>5, ShareBounds, Zenon
  <2> QED BY <1>5, <2>1
<1>7. \A s \in Server \ S : Points(S)[s] = 0 /\ Weights(S)[s] = 0 /\ Ones(S)[s] = 0
  BY DEF Points, Weights, Ones
<1>8. \A s \in S : Weights(S)[s] = Weight[s] /\ Ones(S)[s] = 1
  BY DEF Weights, Ones
<1>9. Points(S) \in [Server -> Nat] /\ Points(S) \in [Server -> Int]
  <2>1. \A s \in Server : Points(S)[s] \in Nat
    BY <1>6, <1>7
  <2>2. Points(S) = [s \in Server |-> Points(S)[s]]
    BY DEF Points
  <2> QED BY <2>1, <2>2
<1>10. T * SumOf(Points(S)) <= (P * n) * SumOf(Weights(S))
  <2>1. P * n \in Int
    OBVIOUS
  <2>2. \A s \in S : T * Points(S)[s] <= (P * n) * Weights(S)[s]
    <3> TAKE s \in S
    <3>1. share(s) = (P * n) * Weight[s]
      BY <1>5 DEF share
    <3> QED BY <1>6, <1>8, <3>1
  <2>3. \A s \in Server : T * Points(S)[s] <= (P * n) * Weights(S)[s]
    BY <1>7, <2>1, <2>2
  <2>4. T \in Int
    OBVIOUS
  <2>5. Weights(S) \in [Server -> Int]
    BY <1>1
  <2>6. Points(S) \in [Server -> Int]
    BY <1>9
  <2> QED BY <2>1, <2>3, <2>4, <2>5, <2>6, SumsCompare, Zenon
<1>11. SumOf(Points(S)) <= P * n
  <2>1. SumOf(Points(S)) \in Int
    BY <1>9, SumIsInt
  <2>2. T * SumOf(Points(S)) <= (P * n) * T
    BY <1>1, <1>2, <1>10
  <2>3. PICK x \in Int, y \in Int : x = SumOf(Points(S)) /\ y = P * n
    BY <2>1
  <2>4. T * x <= y * T
    BY <2>2, <2>3
  <2>5. x <= y
    BY <1>2, <2>4
  <2> QED BY <2>3, <2>5
<1>12. \E s \in S : Points(S)[s] > 0
  <2>1. SUFFICES ASSUME \A s \in S : Points(S)[s] = 0 PROVE FALSE
    BY <1>6
  <2>2. ASSUME NEW s \in S PROVE n * Weight[s] <= T - 1
    <3>1. PICK w \in Nat : w = Weight[s]
      BY <1>5
    <3>2. w * P * n < 4 * T
      BY <1>6, <2>1, <3>1 DEF share
    <3>3. PICK z \in Nat : z = n * w
      OBVIOUS
    <3>4. w * P * n = z * P
      BY <3>1, <3>3
    <3>5. z * 4 <= z * P
      BY <1>4
    <3>6. z * P \in Nat
      OBVIOUS
    <3>7. z * 4 < 4 * T
      BY <3>2, <3>4, <3>5, <3>6
    <3> QED BY <3>1, <3>3, <3>7
  <2>3. \A s \in Server : n * Weights(S)[s] <= (T - 1) * Ones(S)[s]
    <3>1. \A s \in S : n * Weights(S)[s] <= (T - 1) * Ones(S)[s]
      BY <1>8, <2>2
    <3> QED BY <1>7, <3>1
  <2>4. n * SumOf(Weights(S)) <= (T - 1) * SumOf(Ones(S))
    <3>1. n \in Int /\ T - 1 \in Int
      OBVIOUS
    <3> QED BY <1>1, <2>3, <3>1, SumsCompare, Zenon
  <2>5. n * T <= (T - 1) * n
    BY <1>1, <1>2, <1>3, <2>4
  <2> QED BY <1>3, <2>5
<1>13. SumOf(Points(S)) > 0
  BY <1>9, <1>12, SumIsPositive
<1> QED BY <1>3, <1>4, <1>9, <1>11, <1>13

(* The same of modula_update().                                            *)
LEMMA ModulaFits ==
    ASSUME Dist = "modula", NEW S \in SUBSET Server, S # {}
    PROVE  /\ Points(S) \in [Server -> Nat]
           /\ SumOf(Points(S)) > 0 /\ SumOf(Points(S)) = Total(S)
<1>1. Points(S) = Weights(S)
  BY DEF Points, Weights, PointsOf
<1>2. Points(S) \in [Server -> Nat]
  BY PoolAssumption DEF Points, PointsOf
<1> QED BY <1>1, <1>2, WeightsAdd

(* The same of random_update().                                            *)
LEMMA RandomFits ==
    ASSUME Dist = "random", NEW S \in SUBSET Server, S # {}
    PROVE  /\ Points(S) \in [Server -> Nat]
           /\ SumOf(Points(S)) > 0 /\ SumOf(Points(S)) = Cardinality(S)
<1>1. Points(S) = Ones(S)
  BY DEF Points, Ones, PointsOf
<1>2. Points(S) \in [Server -> Nat]
  BY <1>1 DEF Ones
<1> QED BY <1>1, <1>2, WeightsAdd, SumCounts

(* What a rebuild for the live servers S puts on the continuum is there,   *)
(* and fits where there is room for them.                                  *)
LEMMA RebuildFits ==
    ASSUME NEW S \in SUBSET Server, S # {}, NEW d \in Nat, d >= Demand(S)
    PROVE  SumOf(Points(S)) > 0 /\ SumOf(Points(S)) <= Capacity(d)
<1>1. CASE Dist = "ketama"
  <2>1. /\ SumOf(Points(S)) > 0
        /\ SumOf(Points(S)) <= PointsPerServer * Cardinality(S)
        /\ SumOf(Points(S)) \in Int
    BY <1>1, KetamaFits, SumIsInt
  <2>2. Cardinality(S) \in Nat
    BY WeightsAdd
  <2>3. Cardinality(S) <= d
    BY <1>1 DEF Demand
  <2>4. PICK P \in Nat : P = PointsPerServer
    BY PoolAssumption
  <2>5. P * Cardinality(S) <= d * P
    BY <2>2, <2>3, <2>4
  <2>6. P * Cardinality(S) \in Int /\ d * P \in Int
    BY <2>2
  <2>7. SumOf(Points(S)) <= d * P
    BY <2>1, <2>4, <2>5, <2>6
  <2> QED BY <1>1, <2>1, <2>4, <2>7 DEF Capacity
<1>2. CASE Dist = "modula"
  <2>1. SumOf(Points(S)) > 0 /\ SumOf(Points(S)) = Total(S) /\ Total(S) \in Int
    BY <1>2, ModulaFits, WeightsAdd
  <2> QED BY <1>2, <2>1 DEF Capacity, Demand
<1>3. CASE Dist = "random"
  <2>1. SumOf(Points(S)) > 0 /\ SumOf(Points(S)) = Cardinality(S) /\ Cardinality(S) \in Int
    BY <1>3, RandomFits, WeightsAdd
  <2> QED BY <1>3, <2>1 DEF Capacity, Demand
<1> QED BY <1>1, <1>2, <1>3, PoolAssumption

-----------------------------------------------------------------------------
\* From here on Zenon is tried where a step names no prover; the steps with
\* arithmetic, sequences or records name the SMT solver.
USE Zenon

(* next_rebuild is the retry time of one of the servers that are out, and  *)
(* no other is to be retried before it.                                    *)
LEMMA NextRebuildLeast ==
    ASSUME NEW retry \in [Server -> Int], NEW out \in SUBSET Server, out # {},
           \A s \in out : retry[s] > 0
    PROVE  /\ \E s \in out : NextRebuild(retry, out) = retry[s]
           /\ \A s \in out : NextRebuild(retry, out) <= retry[s]
<1> DEFINE T == {retry[s] : s \in out}
<1>1. T \in SUBSET Nat /\ T # {}
  BY SMT
<1>2. Min(T) \in T /\ \A y \in T : Min(T) <= y
  BY <1>1, LeastNat
<1>3. NextRebuild(retry, out) = Min(T)
  BY DEF NextRebuild
<1> QED BY <1>2, <1>3

-----------------------------------------------------------------------------
(***************************************************************************)
(* The inductive invariant.  ag[s] is the time since s was last ejected.   *)
(***************************************************************************)
AgeType(ag) == ag \in [Server -> 0..(RetryTimeout + 1)]

(* What server_pool_run() needs: a retry time in the future is not later   *)
(* than the retry timeout after the ejection.                              *)
Runnable(p, ag) ==
    /\ p = [retry |-> p.retry, fails |-> p.fails, rebuild |-> p.rebuild,
            live |-> p.live, points |-> p.points, slots |-> p.slots]
    /\ p.retry \in [Server -> Passed..RetryTimeout]
    /\ p.fails \in [Server -> Nat]
    /\ \A s \in Server : p.retry[s] > 0 => AutoEject /\ p.retry[s] + ag[s] <= RetryTimeout

(* What it establishes: the live servers are not to be retried, the others *)
(* are scheduled, whoever the rebuild is scheduled for is due by then, and *)
(* the continuum consists of live servers, unless there are none.          *)
Settled(p, ag) ==
    /\ p.live \in SUBSET Server /\ p.rebuild \in NoRebuild..RetryTimeout
    /\ ~AutoEject => p.live = Server
    /\ \A s \in p.live : p.retry[s] = Passed
    /\ \A s \in Server \ p.live :
           p.rebuild # NoRebuild /\ p.rebuild + ag[s] <= RetryTimeout
    /\ p.rebuild # NoRebuild => \E s \in Server : p.retry[s] <= p.rebuild
    /\ p.live # {} => Owners(p) \subseteq p.live

PoolInv == AgeType(age) /\ Runnable(pool, age) /\ Settled(pool, age)

LEMMA RunSettles ==
    ASSUME NEW p, NEW ag, AgeType(ag), Runnable(p, ag)
    PROVE  Runnable(server_pool_run(p), ag) /\ Settled(server_pool_run(p), ag)
<1> DEFINE q == server_pool_run(p)
           live == Live(p.retry)
           out == Server \ live
<1>1. /\ q.retry = [s \in Server |-> IF s \in live THEN Passed ELSE p.retry[s]]
      /\ q.fails = p.fails
      /\ q.rebuild = NextRebuild(p.retry, out)
      /\ q.live = live
      /\ live # {} => q.points = [s \in Server |-> IF s \in live THEN PointsOf(s, live) ELSE 0]
      /\ q = [retry |-> q.retry, fails |-> q.fails, rebuild |-> q.rebuild,
              live |-> q.live, points |-> q.points, slots |-> q.slots]
  BY DEF server_pool_run
<1>2. live \in SUBSET Server /\ \A s \in out : p.retry[s] > 0 /\ AutoEject
  BY SMT DEF Live, Runnable, Passed
<1> HIDE DEF q, live
<1>3. Runnable(q, ag)
  BY <1>1, <1>2, PoolAssumption, SMT DEF Runnable, Passed
<1>4. CASE out = {}
  <2>1. q.rebuild = NoRebuild
    BY <1>1, <1>4 DEF NextRebuild
  <2>2. live = Server
    BY <1>2, <1>4
  <2>3. NoRebuild \in NoRebuild..RetryTimeout
    BY PoolAssumption, SMT DEF NoRebuild
  <2> QED BY <1>1, <1>3, <2>1, <2>2, <2>3 DEF Settled, Owners, q
<1>5. CASE out # {}
  <2>1. p.retry \in [Server -> Int]
    BY SMT DEF Runnable, Passed
  <2>2. /\ \E s \in out : q.rebuild = p.retry[s]
        /\ \A s \in out : q.rebuild <= p.retry[s]
    BY <1>1, <1>2, <1>5, <2>1, NextRebuildLeast, SMT
  <2>3. PICK s0 \in out : q.rebuild = p.retry[s0]
    BY <2>2
  <2>4. q.rebuild \in 1..RetryTimeout
    BY <1>2, <2>3, SMT DEF Runnable, Passed
  <2>5. \A s \in out : q.rebuild # NoRebuild /\ q.rebuild + ag[s] <= RetryTimeout
    <3> TAKE s \in out
    <3>1. /\ p.retry[s] \in Int /\ ag[s] \in Int /\ RetryTimeout \in Int
          /\ p.retry[s] + ag[s] <= RetryTimeout
      BY <1>2, PoolAssumption, SMT DEF Runnable, AgeType, Passed
    <3> QED BY <2>2, <2>4, <3>1, SMT DEF NoRebuild
  <2>6. q.retry[s0] <= q.rebuild
    BY <1>1, <2>3, <2>4, SMT
  <2>7. \A s \in live : q.retry[s] = Passed
    BY <1>1, <1>2
  <2>8. live # {} => Owners(q) \subseteq live
    BY <1>1, ZenonT(30) DEF Owners
  <2>9. q.rebuild \in NoRebuild..RetryTimeout
    BY <2>4, PoolAssumption, SMT DEF NoRebuild
  <2>10. AutoEject
    BY <1>2, <1>5
  <2>11. Settled(q, ag)
    BY <1>1, <1>2, <2>5, <2>6, <2>7, <2>8, <2>9, <2>10 DEF Settled
  <2> QED BY <1>3, <2>11 DEF q
<1> QED BY <1>4, <1>5

(* The pool as server_failure() hands it to server_pool_run().             *)
LEMMA EjectRunnable ==
    ASSUME NEW p, NEW ag, NEW s \in Server, AgeType(ag), Runnable(p, ag), AutoEject,
           NEW ag2, ag2 = [ag EXCEPT ![s] = 0]
    PROVE  /\ AgeType(ag2) /\ Runnable(Assign(p, s, RetryTimeout), ag2)
           /\ Assign(p, s, RetryTimeout).retry = [p.retry EXCEPT ![s] = RetryTimeout]
           /\ Assign(p, s, RetryTimeout).live = p.live
<1> DEFINE r == Assign(p, s, RetryTimeout)
<1>1. /\ r.retry = [p.retry EXCEPT ![s] = RetryTimeout]
      /\ r.fails = [p.fails EXCEPT ![s] = 0]
      /\ r = [retry |-> r.retry, fails |-> r.fails, rebuild |-> r.rebuild,
              live |-> r.live, points |-> r.points, slots |-> r.slots]
      /\ r.live = p.live
  BY DEF Assign
<1> HIDE DEF r
<1>3. AgeType(ag2)
  BY PoolAssumption, SMT DEF AgeType
<1>4. r.retry \in [Server -> Passed..RetryTimeout] /\ r.fails \in [Server -> Nat]
  BY <1>1, PoolAssumption, SMT DEF Runnable, Passed
<1>5. ASSUME NEW t \in Server, r.retry[t] > 0
      PROVE  r.retry[t] + ag2[t] <= RetryTimeout
  BY <1>1, <1>5, PoolAssumption, SMT DEF Runnable, AgeType
<1>6. Runnable(r, ag2)
  BY <1>1, <1>4, <1>5 DEF Runnable
<1> QED BY <1>1, <1>3, <1>6 DEF r

(* The fields of the pool after a failure that does not eject.             *)
LEMMA CountFailure ==
    ASSUME NEW p, NEW ag, NEW s \in Server, Runnable(p, ag), ~Ejects(p, s),
           NEW r, r = server_failure(p, s)
    PROVE  /\ r.retry = p.retry /\ r.rebuild = p.rebuild
           /\ r.live = p.live /\ r.points = p.points
           /\ r.fails \in [Server -> Nat]
           /\ r = [retry |-> r.retry, fails |-> r.fails, rebuild |-> r.rebuild,
                   live |-> r.live, points |-> r.points, slots |-> r.slots]
<1>1. r = [p EXCEPT !.fails = [p.fails EXCEPT ![s] = IF AutoEject THEN p.fails[s] + 1
                                                     ELSE p.fails[s]]]
  BY DEF server_failure, Runnable
<1> QED BY <1>1, SMT DEF Runnable

(* One more failure of s, with or without its ejection.                    *)
LEMMA FailureSettles ==
    ASSUME NEW p, NEW ag, NEW s \in Server, AgeType(ag), Runnable(p, ag), Settled(p, ag),
           NEW ag2, ag2 = IF Ejects(p, s) THEN [ag EXCEPT ![s] = 0] ELSE ag
    PROVE  AgeType(ag2) /\ Runnable(server_failure(p, s), ag2)
                        /\ Settled(server_failure(p, s), ag2)
<1>2. CASE Ejects(p, s)
  <2>1. AutoEject /\ ag2 = [ag EXCEPT ![s] = 0]
    BY <1>2 DEF Ejects
  <2>2. AgeType(ag2) /\ Runnable(Assign(p, s, RetryTimeout), ag2)
    BY <2>1, EjectRunnable, ZenonT(30)
  <2>3. server_failure(p, s) = server_pool_run(Assign(p, s, RetryTimeout))
    BY <1>2 DEF server_failure
  <2> QED BY <2>2, <2>3, RunSettles
<1>3. CASE ~Ejects(p, s)
  <2> DEFINE r == server_failure(p, s)
  <2>1. /\ r.retry = p.retry /\ r.rebuild = p.rebuild /\ r.live = p.live /\ r.points = p.points
        /\ r.fails \in [Server -> Nat]
        /\ r = [retry |-> r.retry, fails |-> r.fails, rebuild |-> r.rebuild,
                live |-> r.live, points |-> r.points, slots |-> r.slots]
    BY <1>3, CountFailure, SMT
  <2> HIDE DEF r
  <2>2. Runnable(r, ag2)
    BY <1>3, <2>1 DEF Runnable
  <2>3. Settled(r, ag2)
    BY <1>3, <2>1 DEF Settled, Owners
  <2> QED BY <1>3, <2>2, <2>3 DEF r
<1> QED BY <1>2, <1>3

(* An answer of s clears its retry time at most.                           *)
LEMMA OkSettles ==
    ASSUME NEW p, NEW ag, NEW s \in Server, AgeType(ag), Runnable(p, ag), Settled(p, ag)
    PROVE  Runnable(server_ok(p, s), ag) /\ Settled(server_ok(p, s), ag)
<1>1. CASE p.fails[s] = 0
  BY <1>1 DEF server_ok
<1>2. CASE p.fails[s] # 0
  <2> DEFINE r == server_ok(p, s)
  <2>0. r = Assign(p, s, Passed)
    BY <1>2 DEF server_ok
  <2> HIDE DEF r
  <2>1. /\ r.retry = [p.retry EXCEPT ![s] = Passed]
        /\ r.fails = [p.fails EXCEPT ![s] = 0]
        /\ r.rebuild = p.rebuild /\ r.live = p.live /\ r.points = p.points
        /\ r = [retry |-> r.retry, fails |-> r.fails, rebuild |-> r.rebuild,
                live |-> r.live, points |-> r.points, slots |-> r.slots]
    BY <2>0 DEF Assign
  <2>2. Runnable(r, ag)
    BY <2>1, PoolAssumption, SMT DEF Runnable, Passed
  <2>3. ASSUME r.rebuild # NoRebuild
        PROVE  \E t \in Server : r.retry[t] <= r.rebuild
    <3>1. PICK t \in Server : p.retry[t] <= p.rebuild
      BY <2>1, <2>3 DEF Settled
    <3>2. r.retry[t] <= p.retry[t]
      BY <2>1, PoolAssumption, SMT DEF Runnable, Passed
    <3>3. r.retry[t] \in Int /\ p.retry[t] \in Int /\ p.rebuild \in Int
      BY <2>1, PoolAssumption, SMT DEF Runnable, Settled, Passed, NoRebuild
    <3> QED BY <2>1, <3>1, <3>2, <3>3, SMT
  <2>4. \A t \in r.live : r.retry[t] = Passed
    BY <2>1 DEF Settled, Runnable
  <2>5. Settled(r, ag)
    BY <2>1, <2>3, <2>4 DEF Settled, Owners
  <2> QED BY <2>2, <2>5 DEF r
<1> QED BY <1>1, <1>2

(* The update that precedes every choice of a server.                      *)
LEMMA UpdateSettles ==
    ASSUME NEW p, NEW ag, AgeType(ag), Runnable(p, ag), Settled(p, ag)
    PROVE  Runnable(server_pool_update(p), ag) /\ Settled(server_pool_update(p), ag)
BY RunSettles DEF server_pool_update

-----------------------------------------------------------------------------
LEMMA PoolInvInit == Init => PoolInv
<1> SUFFICES ASSUME Init PROVE PoolInv
  OBVIOUS
<1> DEFINE p == [retry |-> [s \in Server |-> Passed], fails |-> [s \in Server |-> 0],
                 rebuild |-> NoRebuild, live |-> {}, points |-> [s \in Server |-> 0],
                 slots |-> 0]
<1>1. AgeType(age)
  BY PoolAssumption, SMT DEF Init, AgeType
<1>2. p.retry \in [Server -> Passed..RetryTimeout] /\ p.fails \in [Server -> Nat]
  BY PoolAssumption, SMT DEF Passed
<1>3. Runnable(p, age)
  BY <1>2, SMTT(30) DEF Runnable, Passed
<1>4. pool = server_pool_run(p)
  BY DEF Init, PoolInit
<1> HIDE DEF p
<1> QED BY <1>1, <1>3, <1>4, RunSettles DEF PoolInv

(* A connection of s fails while the pool is p.                            *)
LEMMA FailKeepsInv ==
    ASSUME NEW p, NEW s \in Server, AgeType(age), Runnable(p, age), Settled(p, age),
           Fail(p, s)
    PROVE  PoolInv'
<1>1. age' = IF Ejects(p, s) THEN [age EXCEPT ![s] = 0] ELSE age
  BY DEF Fail
<1>2. AgeType(age') /\ Runnable(server_failure(p, s), age') /\ Settled(server_failure(p, s), age')
  BY <1>1, FailureSettles
<1> QED BY <1>2 DEF Fail, PoolInv

(* A connection to s is opened, or fails to open, while the pool is p.     *)
LEMMA OpenKeepsInv ==
    ASSUME NEW p, NEW s \in Server, AgeType(age), Runnable(p, age), Settled(p, age),
           Open(p, s)
    PROVE  PoolInv'
<1>1. CASE pool' = p /\ age' = age
  BY <1>1 DEF PoolInv
<1>2. CASE Fail(p, s)
  BY <1>2, FailKeepsInv
<1> QED BY <1>1, <1>2 DEF Open, Reuse, ConnectInProgress, ConnectAtOnce, ConnectFails

(* The clock moves all deadlines and ages alike.                           *)
LEMMA TickKeepsInv ==
    ASSUME PoolInv, Tick
    PROVE  PoolInv'
<1>1. /\ pool'.retry = [s \in Server |-> Left(pool.retry[s])]
      /\ pool'.rebuild = Left(pool.rebuild)
      /\ pool'.fails = pool.fails /\ pool'.live = pool.live /\ pool'.points = pool.points
      /\ pool' = [retry |-> pool'.retry, fails |-> pool'.fails, rebuild |-> pool'.rebuild,
                  live |-> pool'.live, points |-> pool'.points, slots |-> pool'.slots]
  BY DEF Tick, PoolInv, Runnable
<1>2. \A s \in Server :
          /\ pool.retry[s] \in Passed..RetryTimeout /\ age[s] \in 0..(RetryTimeout + 1)
          /\ age'[s] = IF age[s] <= RetryTimeout THEN age[s] + 1 ELSE age[s]
  BY DEF Tick, PoolInv, Runnable, AgeType
<1>3. AgeType(age')
  BY <1>2, PoolAssumption, SMT DEF Tick, AgeType
<1>4. pool'.retry \in [Server -> Passed..RetryTimeout]
  BY <1>1, <1>2, PoolAssumption, SMT DEF Left, Passed
<1>5. ASSUME NEW s \in Server, pool'.retry[s] > 0
      PROVE  AutoEject /\ pool'.retry[s] + age'[s] <= RetryTimeout
  <2>1. pool'.retry[s] = Left(pool.retry[s])
    BY <1>1
  <2>2. pool.retry[s] > 0 /\ Left(pool.retry[s]) = pool.retry[s] - 1
    BY <1>2, <1>5, <2>1, PoolAssumption, SMT DEF Left, Passed
  <2>3. AutoEject /\ pool.retry[s] + age[s] <= RetryTimeout
    BY <2>2 DEF PoolInv, Runnable
  <2> QED BY <1>2, <2>1, <2>2, <2>3, PoolAssumption, SMT DEF Passed
<1>6. Runnable(pool', age')
  BY <1>1, <1>4, <1>5 DEF Runnable, PoolInv
<1>7. pool.rebuild \in NoRebuild..RetryTimeout
  BY DEF PoolInv, Settled
<1>8. pool'.rebuild \in NoRebuild..RetryTimeout
  BY <1>1, <1>7, PoolAssumption, SMT DEF Left, Passed, NoRebuild
<1>9. \A s \in pool'.live : pool'.retry[s] = Passed
  BY <1>1, SMT DEF PoolInv, Settled, Left, Passed
<1>10. ASSUME NEW s \in Server \ pool'.live
       PROVE  pool'.rebuild # NoRebuild /\ pool'.rebuild + age'[s] <= RetryTimeout
  <2>1. pool.rebuild # NoRebuild /\ pool.rebuild + age[s] <= RetryTimeout
    BY <1>1 DEF PoolInv, Settled
  <2> QED BY <1>1, <1>2, <1>7, <2>1, PoolAssumption, SMT DEF Left, Passed, NoRebuild
<1>11. ASSUME pool'.rebuild # NoRebuild
       PROVE  \E s \in Server : pool'.retry[s] <= pool'.rebuild
  <2>1. pool.rebuild # NoRebuild
    BY <1>1, <1>7, <1>11, PoolAssumption, SMT DEF Left, Passed, NoRebuild
  <2>2. PICK s \in Server : pool.retry[s] <= pool.rebuild
    BY <2>1 DEF PoolInv, Settled
  <2>3. Left(pool.retry[s]) <= Left(pool.rebuild)
    BY <1>2, <1>7, <2>1, <2>2, PoolAssumption, SMT DEF Left, Passed, NoRebuild
  <2> QED BY <1>1, <2>3
<1>12. Settled(pool', age')
  BY <1>1, <1>8, <1>9, <1>10, <1>11 DEF Settled, PoolInv, Owners
<1> QED BY <1>3, <1>6, <1>12 DEF PoolInv

LEMMA PoolInvNext == PoolInv /\ [Next]_vars => PoolInv'
<1> SUFFICES ASSUME PoolInv, [Next]_vars PROVE PoolInv'
  OBVIOUS
<1>0. AgeType(age) /\ Runnable(pool, age) /\ Settled(pool, age)
  BY DEF PoolInv
<1>1. ASSUME NEW s \in Server, Preconnect(s) PROVE PoolInv'
  BY <1>0, <1>1, OpenKeepsInv DEF Preconnect
<1>2. ASSUME NEW s \in Server, ServerConnected(s) PROVE PoolInv'
  BY <1>2 DEF ServerConnected, PoolInv
<1>3. ASSUME NEW s \in Server, ServerOk(s) PROVE PoolInv'
  <2>1. Runnable(server_ok(pool, s), age) /\ Settled(server_ok(pool, s), age)
    BY <1>0, OkSettles
  <2> QED BY <1>0, <1>3, <2>1 DEF ServerOk, PoolInv
<1>4. ASSUME NEW s \in Server, CloseConnecting(s) PROVE PoolInv'
  BY <1>0, <1>4, FailKeepsInv DEF CloseConnecting
<1>5. ASSUME NEW s \in Server, CloseConnected(s) PROVE PoolInv'
  BY <1>0, <1>5, FailKeepsInv DEF CloseConnected
<1>6. CASE PoolConn
  <2> DEFINE p == server_pool_update(pool)
  <2>1. Runnable(p, age) /\ Settled(p, age)
    BY <1>0, UpdateSettles
  <2>2. PICK s \in Server : Open(p, s)
    BY <1>6 DEF PoolConn, Owners
  <2> HIDE DEF p
  <2> QED BY <1>0, <2>1, <2>2, OpenKeepsInv
<1>7. CASE Tick
  BY <1>7, TickKeepsInv
<1>8. CASE UNCHANGED vars
  BY <1>8 DEF vars, PoolInv
<1> QED BY <1>1, <1>2, <1>3, <1>4, <1>5, <1>6, <1>7, <1>8 DEF Next

LEMMA PoolInvariant == Spec => []PoolInv
BY PoolInvInit, PoolInvNext, PTL DEF Spec

(* A server that is out has a rebuild scheduled within its retry timeout.  *)
THEOREM OutageIsBounded == Spec => []BoundedOutage
<1>1. PoolInv => BoundedOutage
  BY DEF PoolInv, Settled, BoundedOutage
<1> QED BY <1>1, PoolInvariant, PTL

(* A request that is not refused goes to a live server with no retry time  *)
(* ahead of it: when a rebuild is due, the server it was scheduled for is  *)
(* live again, so the continuum is made anew before it is used.            *)
THEOREM RoutedToLive == Spec => []RoutesToLive
<1>1. ASSUME PoolInv, ~Refused(pool) PROVE LET p == server_pool_update(pool)
             IN  Owners(p) \subseteq {s \in p.live : p.retry[s] <= 0}
  <2> DEFINE p == server_pool_update(pool)
  <2>1. Runnable(p, age) /\ Settled(p, age)
    BY <1>1, UpdateSettles DEF PoolInv
  <2>2. 0 \in Server
    BY PoolAssumption, SMT DEF Server
  <2>3. p.live # {}
    <3>1. CASE Pending(pool) /\ pool.rebuild < 0
      <4>1. PICK s \in Server : pool.retry[s] <= pool.rebuild
        BY <1>1, <3>1 DEF PoolInv, Settled, Pending
      <4>2. pool.retry[s] \in Int /\ pool.rebuild \in Int
        BY <1>1, PoolAssumption, SMT DEF PoolInv, Runnable, Settled, Passed, NoRebuild
      <4>3. s \in Live(pool.retry)
        BY <3>1, <4>1, <4>2, SMT DEF Live
      <4>4. p.live = Live(pool.retry)
        BY <3>1 DEF server_pool_update, server_pool_run
      <4> QED BY <4>3, <4>4
    <3>2. CASE Pending(pool) /\ ~(pool.rebuild < 0)
      <4>1. pool.rebuild \in Int
        BY <1>1, PoolAssumption, SMTT(30) DEF PoolInv, Settled, NoRebuild
      <4>2. pool.live # {}
        BY <1>1, <3>2, <4>1, SMT DEF Refused
      <4> QED BY <3>2, <4>2 DEF server_pool_update
    <3>3. CASE ~Pending(pool)
      <4>1. pool.live = Server
        BY <1>1, <3>3 DEF Pending, PoolInv, Settled
      <4> QED BY <2>2, <3>3, <4>1 DEF server_pool_update
    <3> QED BY <3>1, <3>2, <3>3
  <2> HIDE DEF p
  <2>4. Owners(p) \subseteq p.live /\ \A s \in p.live : p.retry[s] <= 0
    <3>1. Owners(p) \subseteq p.live /\ \A s \in p.live : p.retry[s] = Passed
      BY <2>1, <2>3 DEF Settled
    <3> QED BY <3>1, SMT DEF Passed
  <2>5. Owners(p) \subseteq {s \in p.live : p.retry[s] <= 0}
    BY <2>4
  <2> QED BY <2>5 DEF p
<1>2. PoolInv => RoutesToLive
  BY <1>1 DEF RoutesToLive
<1> QED BY <1>2, PoolInvariant, PTL

-----------------------------------------------------------------------------
(* A server that is out, or is about to be, and has not answered since its *)
(* ejection, still has the rest of its retry timeout ahead of it.          *)
Waiting(p, ag, ans) ==
    \A s \in Server : s \notin p.live \/ p.retry[s] > 0
                        => s \in ans \/ p.retry[s] + ag[s] >= RetryTimeout

(* Whom a step takes back has waited for its retry timeout or answered.    *)
Readmits(old, new, ag, ans) ==
    \A s \in new.live \ old.live : ag[s] >= RetryTimeout \/ s \in ans

LEMMA RunReadmits ==
    ASSUME NEW p, NEW ag, NEW ans, AgeType(ag), Runnable(p, ag), Waiting(p, ag, ans),
           AutoEject
    PROVE  Waiting(server_pool_run(p), ag, ans) /\ Readmits(p, server_pool_run(p), ag, ans)
<1> DEFINE q == server_pool_run(p)
<1>1. q.live = {s \in Server : p.retry[s] <= 0}
  BY DEF server_pool_run, Live
<1>2. q.retry = [s \in Server |-> IF s \in q.live THEN Passed ELSE p.retry[s]]
  BY DEF server_pool_run
<1> HIDE DEF q
<1>3. \A s \in Server : p.retry[s] \in Int /\ ag[s] \in Int /\ RetryTimeout \in Int
  BY PoolAssumption, SMT DEF Runnable, AgeType, Passed
<1>4. Waiting(q, ag, ans)
  BY <1>1, <1>2, <1>3, SMT DEF Waiting, Passed
<1>5. Readmits(p, q, ag, ans)
  BY <1>1, <1>3, SMT DEF Waiting, Readmits
<1> QED BY <1>4, <1>5 DEF q

LEMMA FailureReadmits ==
    ASSUME NEW p, NEW ag, NEW ans, NEW s \in Server,
           AgeType(ag), Runnable(p, ag), Waiting(p, ag, ans),
           NEW ag2, ag2 = IF Ejects(p, s) THEN [ag EXCEPT ![s] = 0] ELSE ag,
           NEW ans2, ans2 = IF Ejects(p, s) THEN ans \ {s} ELSE ans
    PROVE  /\ Waiting(server_failure(p, s), ag2, ans2)
           /\ Readmits(p, server_failure(p, s), ag, ans)
<1>1. CASE Ejects(p, s)
  <2> DEFINE r == Assign(p, s, RetryTimeout)
  <2>1. AutoEject /\ ag2 = [ag EXCEPT ![s] = 0] /\ ans2 = ans \ {s}
    BY <1>1 DEF Ejects
  <2>2. /\ AgeType(ag2) /\ Runnable(r, ag2)
        /\ r.retry = [p.retry EXCEPT ![s] = RetryTimeout] /\ r.live = p.live
    BY <2>1, EjectRunnable
  <2>3. server_failure(p, s) = server_pool_run(r)
    BY <1>1 DEF server_failure
  <2> HIDE DEF r
  <2>4. Waiting(r, ag2, ans2)
    <3> SUFFICES ASSUME NEW t \in Server, t \notin r.live \/ r.retry[t] > 0
                 PROVE  t \in ans2 \/ r.retry[t] + ag2[t] >= RetryTimeout
      BY DEF Waiting
    <3>1. CASE t = s
      BY <2>1, <2>2, <3>1, PoolAssumption, SMTT(30) DEF Runnable, AgeType
    <3>2. CASE t # s
      <4>1. r.retry[t] = p.retry[t] /\ ag2[t] = ag[t] /\ (t \in ans2 <=> t \in ans)
        BY <2>1, <2>2, <3>2 DEF Runnable, AgeType
      <4> QED BY <2>2, <4>1 DEF Waiting
    <3> QED BY <3>1, <3>2
  <2>5. Waiting(server_pool_run(r), ag2, ans2) /\ Readmits(r, server_pool_run(r), ag2, ans2)
    BY <2>1, <2>2, <2>4, RunReadmits
  <2>6. \A t \in Server : ag2[t] >= RetryTimeout => ag[t] >= RetryTimeout
    BY <2>1, PoolAssumption, SMT DEF AgeType
  <2>7. server_pool_run(r).live \subseteq Server
    BY DEF server_pool_run, Live
  <2>8. Readmits(p, server_pool_run(r), ag, ans)
    BY <2>1, <2>2, <2>5, <2>6, <2>7 DEF Readmits
  <2> QED BY <2>3, <2>5, <2>8
<1>2. CASE ~Ejects(p, s)
  <2>1. server_failure(p, s).live = p.live /\ server_failure(p, s).retry = p.retry
    BY <1>2, CountFailure
  <2> QED BY <1>2, <2>1 DEF Waiting, Readmits
<1> QED BY <1>1, <1>2

LEMMA FailReadmits ==
    ASSUME NEW p, NEW s \in Server, AgeType(age), Runnable(p, age),
           Waiting(p, age, answered), Fail(p, s)
    PROVE  Waiting(pool', age', answered') /\ Readmits(p, pool', age, answered)
<1>1. /\ age' = IF Ejects(p, s) THEN [age EXCEPT ![s] = 0] ELSE age
      /\ answered' = IF Ejects(p, s) THEN answered \ {s} ELSE answered
      /\ pool' = server_failure(p, s)
  BY DEF Fail
<1> QED BY <1>1, FailureReadmits

LEMMA OkReadmits ==
    ASSUME NEW p, NEW ag, NEW ans, NEW s \in Server,
           Runnable(p, ag), Waiting(p, ag, ans), p.fails[s] # 0
    PROVE  /\ Waiting(server_ok(p, s), ag, ans \cup {s})
           /\ server_ok(p, s).live = p.live
<1> DEFINE r == server_ok(p, s)
<1>0. r = Assign(p, s, Passed)
  BY DEF server_ok
<1> HIDE DEF r
<1>1. r.retry = [p.retry EXCEPT ![s] = Passed] /\ r.rebuild = p.rebuild /\ r.live = p.live
  BY <1>0 DEF Assign
<1>2. Waiting(r, ag, ans \cup {s})
  BY <1>1 DEF Waiting, Runnable, Passed
<1> QED BY <1>1, <1>2 DEF r

LEMMA OpenReadmits ==
    ASSUME NEW p, NEW s \in Server, AgeType(age), Runnable(p, age),
           Waiting(p, age, answered), Open(p, s)
    PROVE  Waiting(pool', age', answered') /\ Readmits(p, pool', age, answered)
<1>1. CASE pool' = p /\ age' = age /\ answered' = answered
  BY <1>1 DEF Readmits
<1>2. CASE Fail(p, s)
  BY <1>2, FailReadmits
<1> QED BY <1>1, <1>2 DEF Open, Reuse, ConnectInProgress, ConnectAtOnce, ConnectFails

WaitInv == PoolInv /\ Waiting(pool, age, answered)

LEMMA WaitStep ==
    ASSUME WaitInv, [Next]_vars
    PROVE  Waiting(pool, age, answered)' /\ Readmits(pool, pool', age, answered)
<1>0. AgeType(age) /\ Runnable(pool, age) /\ Settled(pool, age) /\ Waiting(pool, age, answered)
  BY DEF WaitInv, PoolInv
<1> DEFINE Goal == Waiting(pool', age', answered') /\ Readmits(pool, pool', age, answered)
<1>1. ASSUME NEW s \in Server, Preconnect(s) PROVE Goal
  BY <1>0, <1>1, OpenReadmits DEF Preconnect
<1>2. ASSUME NEW s \in Server, ServerConnected(s) PROVE Goal
  BY <1>0, <1>2 DEF ServerConnected, Readmits
<1>3. ASSUME NEW s \in Server, ServerOk(s) PROVE Goal
  <2>1. CASE pool.fails[s] = 0
    BY <1>0, <1>3, <2>1 DEF ServerOk, server_ok, Readmits
  <2>2. CASE pool.fails[s] # 0
    <3>1. pool' = server_ok(pool, s) /\ age' = age /\ answered' = answered \cup {s}
      BY <1>3, <2>2 DEF ServerOk
    <3>2. /\ Waiting(server_ok(pool, s), age, answered \cup {s})
          /\ server_ok(pool, s).live = pool.live
      BY <1>0, <2>2, OkReadmits
    <3> QED BY <3>1, <3>2 DEF Readmits
  <2> QED BY <2>1, <2>2
<1>4. ASSUME NEW s \in Server, CloseConnecting(s) PROVE Goal
  BY <1>0, <1>4, FailReadmits DEF CloseConnecting
<1>5. ASSUME NEW s \in Server, CloseConnected(s) PROVE Goal
  BY <1>0, <1>5, FailReadmits DEF CloseConnected
<1>6. CASE PoolConn
  <2> DEFINE p == server_pool_update(pool)
  <2>1. Waiting(p, age, answered) /\ Readmits(pool, p, age, answered)
    <3>1. CASE Pending(pool) /\ pool.rebuild < 0
      <4>1. p = server_pool_run(pool) /\ AutoEject
        BY <3>1 DEF server_pool_update, Pending
      <4>2. /\ Waiting(server_pool_run(pool), age, answered)
            /\ Readmits(pool, server_pool_run(pool), age, answered)
        BY <1>0, <4>1, RunReadmits
      <4> QED BY <4>1, <4>2
    <3>2. CASE ~(Pending(pool) /\ pool.rebuild < 0)
      <4>1. p = pool
        BY <3>2 DEF server_pool_update
      <4> QED BY <1>0, <4>1 DEF Readmits
    <3> QED BY <3>1, <3>2
  <2>2. Runnable(p, age)
    BY <1>0, UpdateSettles
  <2>3. PICK s \in Server : Open(p, s)
    BY <1>6 DEF PoolConn, Owners
  <2> HIDE DEF p
  <2>4. Waiting(pool', age', answered') /\ Readmits(p, pool', age, answered)
    BY <1>0, <2>1, <2>2, <2>3, OpenReadmits
  <2>5. Readmits(pool, pool', age, answered)
    BY <2>1, <2>4 DEF Readmits
  <2> QED BY <2>4, <2>5
<1>7. CASE Tick
  <2>1. pool'.retry = [s \in Server |-> Left(pool.retry[s])] /\ pool'.live = pool.live
    BY <1>0, <1>7 DEF Tick, Runnable
  <2>2. \A s \in Server :
            /\ pool.retry[s] \in Passed..RetryTimeout /\ age[s] \in 0..(RetryTimeout + 1)
            /\ age'[s] = IF age[s] <= RetryTimeout THEN age[s] + 1 ELSE age[s]
    BY <1>0, <1>7 DEF Tick, Runnable, AgeType
  <2>3. answered' = answered
    BY <1>7 DEF Tick
  <2>4. ASSUME NEW s \in Server, s \notin pool'.live \/ pool'.retry[s] > 0
        PROVE  s \in answered \/ pool'.retry[s] + age'[s] >= RetryTimeout
    <3>1. pool'.retry[s] = Left(pool.retry[s])
      BY <2>1
    <3>2. s \notin pool.live \/ pool.retry[s] > 0
      BY <2>1, <2>2, <2>4, <3>1, PoolAssumption, SMT DEF Left, Passed
    <3>3. s \in answered \/ pool.retry[s] + age[s] >= RetryTimeout
      BY <1>0, <3>2 DEF Waiting
    <3> QED BY <2>2, <3>1, <3>3, PoolAssumption, SMT DEF Left, Passed
  <2> QED BY <2>1, <2>3, <2>4 DEF Waiting, Readmits
<1>8. CASE UNCHANGED vars
  BY <1>0, <1>8 DEF vars, Readmits
<1>9. Goal
  BY <1>1, <1>2, <1>3, <1>4, <1>5, <1>6, <1>7, <1>8 DEF Next
<1> QED BY <1>9

(* The rebuilds that other servers cause take no server back before its    *)
(* retry timeout is over, unless it has answered.                          *)
THEOREM NoEarlyReturn == Spec => ReturnsAfterTimeout
<1>1. Init => WaitInv
  <2> SUFFICES ASSUME Init PROVE WaitInv
    OBVIOUS
  <2>1. PoolInv
    BY PoolInvInit
  <2>2. pool.live = Server
    BY SMTT(30) DEF Init, PoolInit, server_pool_run, Live, Passed
  <2> QED BY <2>1, <2>2, SMTT(30) DEF WaitInv, Waiting, PoolInv, Settled, Passed
<1>2. WaitInv /\ [Next]_vars => WaitInv'
  BY PoolInvNext, WaitStep DEF WaitInv
<1>3. WaitInv /\ [Next]_vars =>
          [\A s \in pool'.live \ pool.live : age[s] >= RetryTimeout \/ s \in answered]_vars
  BY WaitStep DEF Readmits
<1> QED BY <1>1, <1>2, <1>3, PTL DEF Spec, ReturnsAfterTimeout

-----------------------------------------------------------------------------
(* The gauge of connections, when connect() makes none of them at once.    *)
GaugeInv == GaugeCounts /\ connected \in [Server -> Int]

LEMMA OpenKeepsGauge ==
    ASSUME GaugeInv, MaxAtOnce = 0, NEW p, NEW s \in Server, Open(p, s)
    PROVE  GaugeInv'
<1>1. connected[s] - gauge[s] = 0
  BY SMT DEF GaugeInv, GaugeCounts
<1>2. ~ConnectAtOnce(p, s)
  BY <1>1, SMT DEF ConnectAtOnce
<1>3. connected' = connected /\ gauge' = gauge
  BY <1>2 DEF Open, Reuse, ConnectInProgress, ConnectFails
<1> QED BY <1>3 DEF GaugeInv, GaugeCounts

(* server_connected() and server_close_stats() keep the statistic          *)
(* server_connections equal to the connections that are made, through all  *)
(* failures and ejections, as long as no connection is made at once.       *)
THEOREM GaugeIsExact == ASSUME MaxAtOnce = 0 PROVE Spec => []GaugeCounts
<1>1. Init => GaugeInv
  BY SMT DEF Init, GaugeInv, GaugeCounts
<1>2. ASSUME GaugeInv, [Next]_vars PROVE GaugeInv'
  <2>1. ASSUME NEW s \in Server, Preconnect(s) PROVE GaugeInv'
    BY <1>2, <2>1, OpenKeepsGauge DEF Preconnect
  <2>2. ASSUME NEW s \in Server, ServerConnected(s) PROVE GaugeInv'
    BY <1>2, <2>2, SMT DEF ServerConnected, GaugeInv, GaugeCounts
  <2>3. ASSUME NEW s \in Server, ServerOk(s) PROVE GaugeInv'
    BY <1>2, <2>3 DEF ServerOk, GaugeInv, GaugeCounts
  <2>4. ASSUME NEW s \in Server, CloseConnecting(s) PROVE GaugeInv'
    BY <1>2, <2>4 DEF CloseConnecting, GaugeInv, GaugeCounts
  <2>5. ASSUME NEW s \in Server, CloseConnected(s) PROVE GaugeInv'
    BY <1>2, <2>5, SMT DEF CloseConnected, GaugeInv, GaugeCounts
  <2>6. CASE PoolConn
    <3>1. PICK s \in Owners(server_pool_update(pool)) : Open(server_pool_update(pool), s)
      BY <2>6 DEF PoolConn
    <3>2. s \in Server
      BY DEF Owners
    <3> QED BY <1>2, <3>1, <3>2, OpenKeepsGauge
  <2>7. CASE Tick
    BY <1>2, <2>7 DEF Tick, GaugeInv, GaugeCounts
  <2>8. CASE UNCHANGED vars
    BY <1>2, <2>8 DEF vars, GaugeInv, GaugeCounts
  <2> QED BY <1>2, <2>1, <2>2, <2>3, <2>4, <2>5, <2>6, <2>7, <2>8 DEF Next
<1>3. GaugeInv => GaugeCounts
  BY DEF GaugeInv
<1> QED BY <1>1, <1>2, <1>3, PTL DEF Spec

-----------------------------------------------------------------------------
(***************************************************************************)
(* The continuum is only ever replaced by a rebuild for servers that are   *)
(* live, for which it is allocated anew where it was too small.            *)
(***************************************************************************)
Fits(p) == /\ p.slots \in Nat
           /\ NContinuum(p) > 0 /\ NContinuum(p) <= Capacity(p.slots)

FitInv == PoolInv /\ Fits(pool)

(* What depends on points and slots alone.                                 *)
LEMMA SameFits ==
    ASSUME NEW p, NEW q, Fits(p), q.points = p.points, q.slots = p.slots
    PROVE  Fits(q)
BY DEF Fits, NContinuum

(* server_pool_run() leaves a continuum that fits, unless no server is     *)
(* live: then it leaves the one that was there.                            *)
LEMMA RunFits ==
    ASSUME NEW p, p.slots \in Nat, Live(p.retry) = {} => Fits(p)
    PROVE  Fits(server_pool_run(p))
<1> DEFINE q == server_pool_run(p)
           live == Live(p.retry)
<1>1. /\ q.points = IF live = {} THEN p.points ELSE Points(live)
      /\ q.slots = IF live # {} /\ Demand(live) > p.slots
                   THEN Demand(live) + Addition ELSE p.slots
  BY DEF server_pool_run, Points
<1>2. live \in SUBSET Server
  BY DEF Live
<1> HIDE DEF q, live
<1>3. CASE live = {}
  <2>1. Fits(p)
    BY <1>3 DEF live
  <2>2. q.points = p.points /\ q.slots = p.slots
    BY <1>1, <1>3
  <2>3. Fits(q)
    BY <2>1, <2>2, SameFits
  <2> QED BY <2>3 DEF q
<1>4. CASE live # {}
  <2>1. Demand(live) \in Nat
    BY <1>2, <1>4, WeightsAdd, SMT DEF Demand
  <2>2. q.slots \in Nat /\ q.slots >= Demand(live)
    BY <1>1, <1>4, <2>1, PoolAssumption, SMT
  <2>3. SumOf(Points(live)) > 0 /\ SumOf(Points(live)) <= Capacity(q.slots)
    BY <1>2, <1>4, <2>2, RebuildFits
  <2>4. Fits(q)
    BY <1>1, <1>4, <2>2, <2>3 DEF Fits, NContinuum
  <2> QED BY <2>4 DEF q
<1> QED BY <1>3, <1>4

(* server_failure() keeps a continuum that fits.                           *)
LEMMA FailureFits ==
    ASSUME NEW p, NEW ag, NEW s \in Server, Runnable(p, ag), Fits(p)
    PROVE  Fits(server_failure(p, s))
<1>1. CASE Ejects(p, s)
  <2> DEFINE r == Assign(p, s, RetryTimeout)
  <2>1. r.points = p.points /\ r.slots = p.slots
    BY DEF Assign
  <2>2. server_failure(p, s) = server_pool_run(r)
    BY <1>1 DEF server_failure
  <2> HIDE DEF r
  <2>3. Fits(r) /\ r.slots \in Nat
    BY <2>1, SameFits DEF Fits
  <2> QED BY <2>2, <2>3, RunFits
<1>2. CASE ~Ejects(p, s)
  <2> DEFINE r == server_failure(p, s)
  <2>1. r = [p EXCEPT !.fails = [p.fails EXCEPT ![s] = IF AutoEject THEN p.fails[s] + 1
                                                       ELSE p.fails[s]]]
    BY <1>2 DEF server_failure, Runnable
  <2>2. r.points = p.points /\ r.slots = p.slots
    BY <2>1, SMT DEF Runnable
  <2> HIDE DEF r
  <2>3. Fits(r)
    BY <2>2, SameFits
  <2> QED BY <2>3 DEF r
<1> QED BY <1>1, <1>2

(* A new connection keeps it.                                              *)
LEMMA OpenFits ==
    ASSUME NEW p, NEW s \in Server, Runnable(p, age), Fits(p), Open(p, s)
    PROVE  Fits(pool')
<1>1. CASE pool' = p
  BY <1>1
<1>2. CASE Fail(p, s)
  BY <1>2, FailureFits DEF Fail
<1> QED BY <1>1, <1>2 DEF Open, Reuse, ConnectInProgress, ConnectAtOnce, ConnectFails

(* The continuum that the pool starts with fits.                           *)
LEMMA FitInvInit == Init => FitInv
<1> SUFFICES ASSUME Init PROVE Fits(pool)
  BY PoolInvInit DEF FitInv
<1> DEFINE p == [retry |-> [s \in Server |-> Passed], fails |-> [s \in Server |-> 0],
                 rebuild |-> NoRebuild, live |-> {}, points |-> [s \in Server |-> 0],
                 slots |-> 0]
<1>1. p.slots \in Nat /\ p.retry = [s \in Server |-> Passed]
  BY SMT
<1>2. pool = server_pool_run(p)
  BY DEF Init, PoolInit
<1> HIDE DEF p
<1>3. 0 \in Live(p.retry)
  BY <1>1, PoolAssumption, SMT DEF Live, Passed, Server
<1> QED BY <1>1, <1>2, <1>3, RunFits

(* Every step keeps it.                                                    *)
LEMMA FitInvNext == FitInv /\ [Next]_vars => FitInv'
<1> SUFFICES ASSUME FitInv, [Next]_vars PROVE Fits(pool')
  BY PoolInvNext DEF FitInv
<1>0. Runnable(pool, age) /\ Fits(pool) /\ pool.slots \in Nat
  BY DEF FitInv, PoolInv, Fits
<1>1. ASSUME NEW s \in Server, Preconnect(s) PROVE Fits(pool')
  BY <1>0, <1>1, OpenFits DEF Preconnect
<1>2. ASSUME NEW s \in Server, ServerConnected(s) PROVE Fits(pool')
  BY <1>0, <1>2 DEF ServerConnected
<1>3. ASSUME NEW s \in Server, ServerOk(s) PROVE Fits(pool')
  <2>1. pool'.points = pool.points /\ pool'.slots = pool.slots
    BY <1>3 DEF ServerOk, server_ok, Assign
  <2> QED BY <1>0, <2>1, SameFits
<1>4. ASSUME NEW s \in Server, CloseConnecting(s) PROVE Fits(pool')
  BY <1>0, <1>4, FailureFits DEF CloseConnecting, Fail
<1>5. ASSUME NEW s \in Server, CloseConnected(s) PROVE Fits(pool')
  BY <1>0, <1>5, FailureFits DEF CloseConnected, Fail
<1>6. CASE PoolConn
  <2> DEFINE p == server_pool_update(pool)
  <2>1. Runnable(p, age)
    BY UpdateSettles DEF FitInv, PoolInv
  <2>2. Fits(p)
    BY <1>0, RunFits DEF server_pool_update
  <2>3. PICK s \in Server : Open(p, s)
    BY <1>6 DEF PoolConn, Owners
  <2> HIDE DEF p
  <2> QED BY <2>1, <2>2, <2>3, OpenFits
<1>7. CASE Tick
  <2>1. pool'.points = pool.points /\ pool'.slots = pool.slots
    BY <1>0, <1>7 DEF Tick, Runnable
  <2> QED BY <1>0, <2>1, SameFits
<1>8. CASE UNCHANGED vars
  BY <1>0, <1>8 DEF vars
<1> QED BY <1>1, <1>2, <1>3, <1>4, <1>5, <1>6, <1>7, <1>8 DEF Next

(* The continuum that ketama_update(), modula_update() and random_update() *)
(* leave behind is never empty, and never holds more points than it was    *)
(* allocated for, whatever the weights, the number of servers and the      *)
(* order in which they are ejected and taken back.                         *)
THEOREM ContinuumAlwaysFits == Spec => []ContinuumFits
<1>1. FitInv => ContinuumFits
  BY DEF FitInv, Fits, ContinuumFits
<1> QED BY <1>1, FitInvInit, FitInvNext, PTL DEF Spec
=============================================================================
