---------------------------- MODULE WorkersProofs ----------------------------
(***************************************************************************)
(* Theorems about Workers, for any number of workers, any process ids, any *)
(* number of deaths and signals, and with and without failing steps.       *)
(***************************************************************************)
EXTENDS Workers, FiniteSetTheorems, WellFoundedInduction, TLAPS

\* Zenon is tried where a step names no prover; the steps with arithmetic,
\* sequences or records name the SMT solver.
USE Zenon

(* A nonempty set of natural numbers has a least element.                  *)
LEMMA LeastEntry ==
    ASSUME NEW T \in SUBSET Nat, T # {}
    PROVE  \E x \in T : \A y \in T : x <= y
<1>1. PICK x \in T : \A y \in T : ~(<<y, x>> \in OpToRel(<, Nat))
  BY NatLessThanWellFounded, WFMin
<1>2. \A y \in T : x <= y
  <2> TAKE y \in T
  <2>1. <<y, x>> \in Nat \X Nat
    OBVIOUS
  <2>2. ~(y < x)
    BY <1>1, <2>1 DEF OpToRel
  <2> QED BY <2>2, SMT
<1> QED BY <1>2

N == core_worker_num

(* The process p has an entry in core_worker_list of the master.           *)
Listed(p) == \E j \in 1..(N + 1) : proc[M].list[j] = p

(* In the first loop the first k entries are filled, and the others are 0. *)
Prefix(k) == \A j \in 1..(N + 1) : proc[M].list[j] = NoPid <=> j > k

MasterType ==
    /\ proc[M] = [st |-> "run", core_is_master |-> proc[M].core_is_master,
                  port |-> proc[M].port, traced |-> proc[M].traced,
                  list |-> proc[M].list]
    /\ proc[M].list \in [1..(N + 1) -> Pid \cup {NoPid}]
    /\ proc[M].list[N + 1] = NoPid

(* The inductive invariant.  Every child is listed but for the one that    *)
(* has just been forked; the entry that the master is about to write holds *)
(* no other child: in the first loop it is empty, in the second one it     *)
(* names the child that was reaped, whose pid is nobody's, unless the      *)
(* system has given it to the new child.  The last entry stays 0.          *)
MasterInv ==
    /\ MasterType
    /\ pc \in {"bind", "fork", "enlist", "wait", "again", "replace", "serve"}
    /\ IF pc \in {"enlist", "replace"} THEN new \in Pid ELSE new = NoPid
    /\ \A p \in Children : Listed(p) \/ p = new
    /\ pc \in {"bind", "fork"} => \E k \in 0..N : Prefix(k)
    /\ pc = "enlist" => \E k \in 0..N : k < N /\ Prefix(k)
    /\ pc \in {"again", "replace"} =>
           reaped \in Pid /\ Listed(reaped) /\ (reaped \in Children => reaped = new)

Inv == /\ proc = [p \in Pid |-> proc[p]]
       /\ M \in Running => MasterInv

(* At the start the master is alone, and its list is empty.                *)
LEMMA InitInv == Init => Inv
<1> SUFFICES ASSUME Init PROVE Inv
  OBVIOUS
<1>1. /\ proc = [p \in Pid |-> proc[p]]
      /\ \A p \in Pid \ {M} : proc[p] = free
      /\ proc[M] = [st |-> "run", core_is_master |-> FALSE, port |-> "given", traced |-> FALSE,
                    list |-> [j \in 1..(N + 1) |-> NoPid]]
  BY WorkersAssumption DEF Init, N
<1>2. proc[M].list = [j \in 1..(N + 1) |-> NoPid]
  <2>1. PICK l : l = [j \in 1..(N + 1) |-> NoPid]
    OBVIOUS
  <2>2. [st |-> "run", core_is_master |-> FALSE, port |-> "given", traced |-> FALSE,
         list |-> l].list = l
    OBVIOUS
  <2> QED BY <1>1, <2>1, <2>2
<1>3. MasterType
  <2>1. N + 1 \in 1..(N + 1)
    BY WorkersAssumption, SMT DEF N
  <2> QED BY <1>1, <1>2, <2>1, SMT DEF MasterType
<1>4. Children = {}
  BY <1>1, SMT DEF Children, free
<1>5. Prefix(0) /\ 0 \in 0..N
  BY <1>2, WorkersAssumption, SMT DEF Prefix, N
<1>6. MasterInv
  BY <1>3, <1>4, <1>5 DEF MasterInv, Init
<1> QED BY <1>1, <1>6 DEF Inv

(* The end of a process takes no child off the master, and the end of the  *)
(* master ends the matter.                                                 *)
LEMMA ExitKeepsInv ==
    ASSUME Inv, NEW p \in Pid, Exit(p), UNCHANGED <<pc, new, reaped>>
    PROVE  Inv'
<1>1. proc' = Without({p}) /\ proc' = [q \in Pid |-> proc'[q]]
  BY DEF Exit, Without
<1>2. SUFFICES ASSUME (M \in Running)' PROVE MasterInv'
  BY <1>1 DEF Inv
<1>3. p # M /\ M \in Running
  <2>1. M \in Pid /\ proc'[M].st = "run"
    BY <1>2 DEF Running
  <2>2. proc'[M] = IF M = p /\ M \in Running
                   THEN IF M # M /\ M \in Running \ {p} THEN [st |-> "zombie"] ELSE free
                   ELSE IF M = p /\ proc[M].st = "zombie" THEN free ELSE proc[M]
    BY <1>1, <2>1 DEF Without
  <2>3. free.st = "free"
    BY DEF free
  <2> QED BY <2>1, <2>2, <2>3 DEF Running
<1>4. \A q \in Pid : proc'[q] = IF q = p /\ q \in Running THEN [st |-> "zombie"] ELSE proc[q]
  BY <1>1, <1>3 DEF Without
<1>5. proc'[M] = proc[M]
  BY <1>3, <1>4 DEF Running
<1>6. Children' = Children
  <2>1. [st |-> "zombie"].st = "zombie"
    OBVIOUS
  <2> QED BY <1>4, <2>1 DEF Children, Running
<1> QED BY <1>3, <1>5, <1>6, SMTT(30) DEF Inv, MasterInv, MasterType, Listed, Prefix

(* The master's step from one place of its loops to another, when it       *)
(* changes neither its list nor its children.                              *)
LEMMA StepKeepsInv ==
    ASSUME Inv, M \in Running, UNCHANGED <<proc, new>>,
           \/ pc = "bind" /\ pc' \in {"fork", "serve"}
           \/ pc = "fork" /\ pc' \in {"wait", "serve"}
           \/ pc = "again" /\ pc' = "wait"
    PROVE  Inv'
BY DEF Inv, MasterInv, MasterType, Listed, Prefix, Children, Running

(* fork() returns p: a child that is in no list yet.                       *)
LEMMA ForkAddsChild ==
    ASSUME Inv, M \in Running, NEW p \in Pid, NEW t,
           \/ Forked(p, first_child(proc[M]), t) \/ Forked(p, later_child(proc[M]), t)
    PROVE  /\ proc' = [q \in Pid |-> proc'[q]] /\ proc'[M] = proc[M] /\ p # M
           /\ proc[p].st = "free" /\ new' = p
           /\ \A q \in Pid \ {p} : proc'[q] = proc[q]
<1>1. PICK c : proc' = [proc EXCEPT ![p] = c]
  BY DEF Forked
<1>2. proc = [q \in Pid |-> proc[q]]
  BY DEF Inv
<1> QED BY <1>1, <1>2, WorkersAssumption DEF Forked

(* In the first loop Forks counts the filled entries.                      *)
LEMMA ForksIsPrefix ==
    ASSUME NEW k \in 0..N, Prefix(k)
    PROVE  Forks = k
<1>1. {j \in 1..core_worker_num : proc[M].list[j] # NoPid} = 1..k
  BY WorkersAssumption, SMT DEF Prefix, N
<1>2. k \in Int /\ Cardinality(1..k) = k
  <2>1. k \in Int /\ 1 \in Int /\ k >= 0
    BY SMT
  <2>2. Cardinality(1..k) = IF 1 > k THEN 0 ELSE k - 1 + 1
    BY <2>1, FS_Interval
  <2> QED BY <2>1, <2>2, SMT
<1> QED BY <1>1, <1>2 DEF Forks

(* The child that was just forked gets the first empty entry.              *)
LEMMA EnlistKeepsInv ==
    ASSUME Inv, enlist
    PROVE  Inv'
<1>1. /\ M \in Running /\ pc = "enlist" /\ pc' = "fork" /\ new' = NoPid
      /\ proc' = [proc EXCEPT ![M].core_is_master = TRUE, ![M].list[Forks + 1] = new]
  BY DEF enlist, At
<1>2. MasterInv /\ proc = [q \in Pid |-> proc[q]]
  BY <1>1 DEF Inv
<1>3. PICK k \in 0..N : k < N /\ Prefix(k)
  BY <1>1, <1>2 DEF MasterInv
<1>4. Forks = k /\ k + 1 \in 1..(N + 1) /\ k + 1 \in 0..N
  BY <1>3, ForksIsPrefix, WorkersAssumption, SMT DEF N
<1> DEFINE l == proc[M].list
           r == [st |-> "run", core_is_master |-> TRUE, port |-> proc[M].port,
                 traced |-> proc[M].traced, list |-> [l EXCEPT ![k + 1] = new]]
<1>5. proc' = [proc EXCEPT ![M] = r]
  <2>1. proc' = [proc EXCEPT ![M] = [[proc[M] EXCEPT !.core_is_master = TRUE]
                                        EXCEPT !.list = [l EXCEPT ![k + 1] = new]]]
    BY <1>1, <1>2, <1>4 DEF MasterInv, MasterType
  <2>2. [[proc[M] EXCEPT !.core_is_master = TRUE]
            EXCEPT !.list = [l EXCEPT ![k + 1] = new]] = r
    <3>1. PICK x, c, d, e, f, y :
              /\ x = proc[M] /\ f = l /\ c = x.core_is_master /\ d = x.port /\ e = x.traced
              /\ y = [l EXCEPT ![k + 1] = new]
      OBVIOUS
    <3>2. x = [st |-> "run", core_is_master |-> c, port |-> d, traced |-> e, list |-> f]
      BY <1>2, <3>1 DEF MasterInv, MasterType
    <3>3. PICK b : b = TRUE
      OBVIOUS
    <3>4. [[x EXCEPT !.core_is_master = b] EXCEPT !.list = y]
            = [st |-> "run", core_is_master |-> b, port |-> d, traced |-> e, list |-> y]
      <4>1. [x EXCEPT !.core_is_master = b]
              = [st |-> "run", core_is_master |-> b, port |-> d, traced |-> e, list |-> f]
        BY <3>2, SMT
      <4>2. PICK z : z = [x EXCEPT !.core_is_master = b]
        OBVIOUS
      <4>3. z = [st |-> "run", core_is_master |-> b, port |-> d, traced |-> e, list |-> f]
        BY <4>1, <4>2
      <4>4. [z EXCEPT !.list = y]
              = [st |-> "run", core_is_master |-> b, port |-> d, traced |-> e, list |-> y]
        BY <4>3, SMT
      <4> QED BY <4>2, <4>4
    <3> QED BY <3>1, <3>3, <3>4
  <2> HIDE DEF r
  <2> QED BY <2>1, <2>2
<1>6. /\ r.st = "run" /\ r.list = [l EXCEPT ![k + 1] = new]
      /\ r = [st |-> "run", core_is_master |-> r.core_is_master, port |-> r.port,
              traced |-> r.traced, list |-> r.list]
  OBVIOUS
<1> HIDE DEF r
<1>7. /\ proc' = [q \in Pid |-> proc'[q]] /\ proc'[M] = r
      /\ \A q \in Pid \ {M} : proc'[q] = proc[q]
  BY <1>2, <1>5, WorkersAssumption
<1>8. l \in [1..(N + 1) -> Pid \cup {NoPid}] /\ l[N + 1] = NoPid /\ new \in Pid
  BY <1>1, <1>2 DEF MasterInv, MasterType
<1>9. MasterType'
  <2>1. N + 1 \in 1..(N + 1) /\ N + 1 # k + 1
    BY <1>3, WorkersAssumption, SMT DEF N
  <2> QED BY <1>6, <1>7, <1>8, <2>1 DEF MasterType
<1>10. \A j \in 1..(N + 1) : proc'[M].list[j] = IF j = k + 1 THEN new ELSE l[j]
  BY <1>4, <1>6, <1>7, <1>8
<1>11. Children' = Children
  BY <1>7 DEF Children
<1>12. Prefix(k + 1)'
  BY <1>3, <1>4, <1>8, <1>10, WorkersAssumption, SMTT(30) DEF Prefix, N
<1>13. ASSUME NEW p \in Children PROVE Listed(p)'
  <2>1. CASE p = new
    BY <1>4, <1>10, <2>1 DEF Listed
  <2>2. CASE p # new
    <3>1. PICK j \in 1..(N + 1) : l[j] = p
      BY <1>2, <2>2 DEF MasterInv, Listed
    <3>2. p \in Pid
      BY DEF Children
    <3>3. j # k + 1
      BY <1>3, <1>4, <3>1, <3>2, WorkersAssumption, SMT DEF Prefix
    <3> QED BY <1>10, <3>1, <3>3 DEF Listed
  <2> QED BY <2>1, <2>2
<1>14. MasterInv'
  BY <1>1, <1>4, <1>9, <1>11, <1>12, <1>13 DEF MasterInv
<1> QED BY <1>7, <1>14 DEF Inv

(* The new child takes the entry of the one that was reaped.               *)
LEMMA ReplaceKeepsInv ==
    ASSUME Inv, replace
    PROVE  Inv'
<1> DEFINE l == proc[M].list
           same == {j \in DOMAIN l : l[j] = reaped}
<1>1. /\ M \in Running /\ pc = "replace" /\ pc' = "wait" /\ new' = NoPid
      /\ same # {} => LET i == CHOOSE i \in same : \A j \in same : i <= j
                      IN  proc' = [proc EXCEPT ![M].list[i] = new]
  BY DEF replace, At
<1>2. MasterInv /\ proc = [q \in Pid |-> proc[q]]
  BY <1>1 DEF Inv
<1>3. l \in [1..(N + 1) -> Pid \cup {NoPid}] /\ l[N + 1] = NoPid /\ new \in Pid
  BY <1>1, <1>2 DEF MasterInv, MasterType
<1>4. reaped \in Pid /\ Listed(reaped) /\ (reaped \in Children => reaped = new)
  BY <1>1, <1>2 DEF MasterInv
<1>5. PICK i \in same : proc' = [proc EXCEPT ![M].list[i] = new]
  <2>1. DOMAIN l = 1..(N + 1) /\ 1..(N + 1) \in SUBSET Nat
    BY <1>3, WorkersAssumption, SMT DEF N
  <2>2. PICK j \in 1..(N + 1) : l[j] = reaped
    BY <1>4 DEF Listed
  <2>3. same \in SUBSET Nat /\ same # {}
    BY <2>1, <2>2
  <2>4. PICK x \in same : \A y \in same : x <= y
    BY <2>3, LeastEntry
  <2> QED BY <1>1, <2>3, <2>4
<1>6. i \in 1..(N + 1) /\ l[i] = reaped
  BY <1>3, <1>5
<1> DEFINE r == [st |-> "run", core_is_master |-> proc[M].core_is_master,
                 port |-> proc[M].port, traced |-> proc[M].traced,
                 list |-> [l EXCEPT ![i] = new]]
<1>7. proc' = [proc EXCEPT ![M] = r]
  <2>1. proc' = [proc EXCEPT ![M] = [proc[M] EXCEPT !.list = [l EXCEPT ![i] = new]]]
    BY <1>2, <1>5 DEF MasterInv, MasterType
  <2>2. [proc[M] EXCEPT !.list = [l EXCEPT ![i] = new]] = r
    <3>1. PICK x, c, d, e, f, y :
              /\ x = proc[M] /\ f = l /\ c = x.core_is_master /\ d = x.port /\ e = x.traced
              /\ y = [l EXCEPT ![i] = new]
      OBVIOUS
    <3>2. x = [st |-> "run", core_is_master |-> c, port |-> d, traced |-> e, list |-> f]
      BY <1>2, <3>1 DEF MasterInv, MasterType
    <3>3. [x EXCEPT !.list = y]
            = [st |-> "run", core_is_master |-> c, port |-> d, traced |-> e, list |-> y]
      BY <3>2, SMT
    <3> QED BY <3>1, <3>3
  <2> HIDE DEF r
  <2> QED BY <2>1, <2>2
<1>8. /\ r.st = "run" /\ r.list = [l EXCEPT ![i] = new]
      /\ r = [st |-> "run", core_is_master |-> r.core_is_master, port |-> r.port,
              traced |-> r.traced, list |-> r.list]
  OBVIOUS
<1> HIDE DEF r
<1>9. /\ proc' = [q \in Pid |-> proc'[q]] /\ proc'[M] = r
      /\ \A q \in Pid \ {M} : proc'[q] = proc[q]
  BY <1>2, <1>7, WorkersAssumption
<1>10. MasterType'
  <2>1. N + 1 \in 1..(N + 1) /\ i # N + 1
    BY <1>3, <1>4, <1>6, WorkersAssumption, SMT DEF N
  <2> QED BY <1>3, <1>8, <1>9, <2>1, SMT DEF MasterType
<1>11. \A j \in 1..(N + 1) : proc'[M].list[j] = IF j = i THEN new ELSE l[j]
  BY <1>3, <1>6, <1>8, <1>9
<1>12. Children' = Children
  BY <1>9 DEF Children
<1>13. ASSUME NEW p \in Children PROVE Listed(p)'
  <2>1. CASE p = new
    BY <1>6, <1>11, <2>1 DEF Listed
  <2>2. CASE p # new
    <3>1. PICK j \in 1..(N + 1) : l[j] = p
      BY <1>2, <2>2 DEF MasterInv, Listed
    <3>2. j # i
      BY <1>4, <1>6, <2>2, <3>1
    <3> QED BY <1>11, <3>1, <3>2 DEF Listed
  <2> QED BY <2>1, <2>2
<1>14. MasterInv'
  BY <1>1, <1>10, <1>12, <1>13 DEF MasterInv
<1> QED BY <1>9, <1>14 DEF Inv

(* Both loops fork into a pid that no process has.                         *)
LEMMA ForkKeepsInv ==
    ASSUME Inv, NEW p \in Pid, fork_worker(p) \/ fork_again(p)
    PROVE  Inv'
<1>1. /\ M \in Running /\ UNCHANGED reaped
      /\ \/ pc = "fork" /\ pc' = "enlist" /\ Forks < core_worker_num
         \/ pc = "again" /\ pc' = "replace"
  BY DEF fork_worker, fork_again, At
<1>2. MasterInv
  BY <1>1 DEF Inv
<1>3. PICK t : \/ Forked(p, first_child(proc[M]), t)
               \/ Forked(p, later_child(proc[M]), t)
  BY DEF fork_worker, fork_again
<1>4. /\ proc' = [q \in Pid |-> proc'[q]] /\ proc'[M] = proc[M] /\ p # M
      /\ proc[p].st = "free" /\ new' = p
      /\ \A q \in Pid \ {p} : proc'[q] = proc[q]
  BY <1>1, <1>3, ForkAddsChild
<1>5. \A q \in Children' : q = p \/ q \in Children
  BY <1>4 DEF Children
<1>6. MasterType'
  BY <1>2, <1>4 DEF MasterInv, MasterType
<1>7. \A q : Listed(q)' <=> Listed(q)
  BY <1>4 DEF Listed
<1>8. \A q \in Children' : Listed(q)' \/ q = new'
  BY <1>1, <1>2, <1>4, <1>5, <1>7, WorkersAssumption DEF MasterInv, Children
<1>9. CASE pc = "fork"
  <2>1. PICK k \in 0..N : Prefix(k)
    BY <1>2, <1>9 DEF MasterInv
  <2>2. k < N
    BY <1>1, <1>9, <2>1, ForksIsPrefix DEF N
  <2>3. Prefix(k)'
    BY <1>4, <2>1 DEF Prefix
  <2>4. MasterInv'
    BY <1>1, <1>4, <1>6, <1>8, <1>9, <2>2, <2>3 DEF MasterInv
  <2> QED BY <1>4, <2>4 DEF Inv
<1>10. CASE pc = "again"
  <2>1. /\ reaped \in Pid /\ Listed(reaped) /\ (reaped \in Children => reaped = new)
        /\ new = NoPid
    BY <1>2, <1>10 DEF MasterInv
  <2>2. reaped \notin Children
    BY <2>1, WorkersAssumption DEF Children
  <2>3. reaped' \in Pid /\ Listed(reaped)' /\ (reaped' \in Children' => reaped' = new')
    BY <1>1, <1>4, <1>5, <1>7, <2>1, <2>2
  <2>4. MasterInv'
    BY <1>1, <1>4, <1>6, <1>8, <1>10, <2>3 DEF MasterInv
  <2> QED BY <1>4, <2>4 DEF Inv
<1> QED BY <1>1, <1>9, <1>10

(* A child is reaped: its pid is free, and its entry the next to fill.     *)
LEMMA WaitKeepsInv ==
    ASSUME Inv, NEW p \in Pid, wait_child(p)
    PROVE  Inv'
<1>1. /\ M \in Running /\ pc = "wait" /\ pc' = "again" /\ UNCHANGED new /\ reaped' = p
      /\ proc[p].st = "zombie" /\ proc' = [proc EXCEPT ![p] = free]
  BY DEF wait_child, At
<1>2. MasterInv /\ proc = [q \in Pid |-> proc[q]]
  BY <1>1 DEF Inv
<1>3. p # M
  BY <1>1 DEF Running
<1>4. /\ proc' = [q \in Pid |-> proc'[q]] /\ proc'[M] = proc[M] /\ proc'[p] = free
      /\ \A q \in Pid \ {p} : proc'[q] = proc[q]
  BY <1>1, <1>2, <1>3, WorkersAssumption
<1>5. p \in Children /\ p \notin Children' /\ Children' \subseteq Children
  BY <1>1, <1>3, <1>4 DEF Children, free
<1>6. new = NoPid /\ new # p /\ Listed(p)
  BY <1>1, <1>2, <1>5, WorkersAssumption DEF MasterInv
<1>7. \A q : Listed(q)' <=> Listed(q)
  BY <1>4 DEF Listed
<1>8. MasterType'
  BY <1>2, <1>4 DEF MasterInv, MasterType
<1>9. \A q \in Children' : Listed(q)' \/ q = new'
  BY <1>1, <1>2, <1>5, <1>7 DEF MasterInv
<1>10. reaped' \in Pid /\ Listed(reaped)' /\ (reaped' \in Children' => reaped' = new')
  BY <1>1, <1>5, <1>6, <1>7
<1>11. MasterInv'
  BY <1>1, <1>6, <1>8, <1>9, <1>10 DEF MasterInv
<1> QED BY <1>4, <1>11 DEF Inv

(* Every step of the master, of a worker and of the system.                *)
LEMMA NextInv == Inv /\ [Next]_vars => Inv'
<1> SUFFICES ASSUME Inv, [Next]_vars PROVE Inv'
  OBVIOUS
<1>1. CASE bind_pools \/ set_timmer \/ fork_again_fails
  BY <1>1, StepKeepsInv DEF bind_pools, set_timmer, fork_again_fails, At
<1>2. CASE fork_fails
  BY <1>2, ExitKeepsInv, WorkersAssumption DEF fork_fails
<1>3. CASE enlist
  BY <1>3, EnlistKeepsInv
<1>4. CASE replace
  BY <1>4, ReplaceKeepsInv
<1>5. ASSUME NEW p \in Pid, fork_worker(p) \/ fork_again(p) PROVE Inv'
  BY <1>5, ForkKeepsInv
<1>6. ASSUME NEW p \in Pid, wait_child(p) PROVE Inv'
  BY <1>6, WaitKeepsInv
<1>7. ASSUME NEW p \in Pid, crash(p) \/ worker_leaves(p) \/ signal_handler(p) PROVE Inv'
  BY <1>7, ExitKeepsInv DEF crash, worker_leaves, signal_handler
<1>8. ASSUME UNCHANGED <<proc, pc, new, reaped>> PROVE Inv'
  BY <1>8 DEF Inv, MasterInv, MasterType, Listed, Prefix, Children, Running
<1>9. ASSUME NEW p \in Pid, sigterm(p) PROVE Inv'
  BY <1>8, <1>9 DEF sigterm
<1>10. CASE UNCHANGED vars
  BY <1>8, <1>10 DEF vars
<1> QED BY <1>1, <1>2, <1>3, <1>4, <1>5, <1>6, <1>7, <1>9, <1>10 DEF Next, master_loop

(* Once the master has handled a SIGTERM it is gone, and every process     *)
(* that still runs has one pending.                                        *)
ToldInv == told => M \notin Running /\ Running \subseteq term

(* Whoever ends, the others run on.                                        *)
LEMMA ExitRunning ==
    ASSUME NEW p \in Pid, Exit(p)
    PROVE  Running' = Running \ {p}
<1>1. \A q \in Pid : proc'[q] = IF q = p /\ q \in Running
                                THEN IF q # M /\ M \in Running \ {p} THEN [st |-> "zombie"]
                                                                     ELSE free
                                ELSE IF M = p /\ proc[q].st = "zombie" THEN free ELSE proc[q]
  BY DEF Exit, Without
<1>2. [st |-> "zombie"].st = "zombie" /\ free.st = "free"
  BY DEF free
<1>3. \A q \in Pid : proc'[q].st = "run" <=> proc[q].st = "run" /\ q # p
  BY <1>1, <1>2 DEF Running
<1> QED BY <1>3 DEF Running

(* The handler of the master signals its group and ends the master.        *)
LEMMA ToldStep == Inv /\ ToldInv /\ [Next]_vars => ToldInv'
<1> SUFFICES ASSUME Inv, ToldInv, [Next]_vars PROVE ToldInv'
  OBVIOUS
<1>1. CASE M \in Running /\ UNCHANGED told
  BY <1>1 DEF ToldInv
<1>2. CASE master_loop
  <2>1. M \in Running /\ UNCHANGED told
    BY <1>2 DEF master_loop, bind_pools, fork_fails, enlist, set_timmer, fork_again_fails,
               replace, fork_worker, wait_child, fork_again, At
  <2> QED BY <1>1, <2>1
<1>3. ASSUME NEW p \in Pid, crash(p) \/ worker_leaves(p) PROVE ToldInv'
  <2>1. Running' = Running \ {p} /\ term' = term \ {p} /\ UNCHANGED told
    BY <1>3, ExitRunning DEF crash, worker_leaves
  <2> QED BY <2>1 DEF ToldInv
<1>4. ASSUME NEW p \in Pid, sigterm(p) PROVE ToldInv'
  <2>1. Running' = Running /\ term' = term \cup {p} /\ UNCHANGED told
    BY <1>4 DEF sigterm, Running
  <2> QED BY <2>1 DEF ToldInv
<1>5. ASSUME NEW p \in Pid, signal_handler(p) PROVE ToldInv'
  <2>1. /\ p \in Running /\ Running' = Running \ {p} /\ term' = (term \cup killed(p)) \ {p}
        /\ told' = (told \/ (p = M /\ proc[p].core_is_master))
    BY <1>5, ExitRunning DEF signal_handler
  <2>2. CASE told
    BY <2>1, <2>2 DEF ToldInv
  <2>3. CASE p = M /\ proc[p].core_is_master
    <3>1. proc[M].list[N + 1] = NoPid /\ N + 1 \in 1..(N + 1)
      BY <2>1, <2>3, WorkersAssumption, SMTT(30) DEF Inv, MasterInv, MasterType, N
    <3>2. killed(p) = Running
      BY <2>3, <3>1 DEF killed, N
    <3> QED BY <2>1, <2>3, <3>2 DEF ToldInv
  <2>4. CASE ~told'
    BY <2>4 DEF ToldInv
  <2> QED BY <2>1, <2>2, <2>3, <2>4
<1>6. CASE UNCHANGED vars
  BY <1>6 DEF vars, ToldInv, Running
<1> QED BY <1>2, <1>3, <1>4, <1>5, <1>6 DEF Next

(* While the master of core_master_loop() waits for its children, its list *)
(* names each of them, the running and the dead, however deaths, signals   *)
(* and failed forks have interleaved and whatever pids the system hands    *)
(* out again; and when it has handled a SIGTERM, so will every process     *)
(* that is left, the child not yet listed too: the last entry of           *)
(* core_worker_list is 0, and kill(0) reaches them all.                    *)
THEOREM WorkersAreKnown == Spec => []Known
<1>1. Inv /\ ToldInv => Known
  <2> SUFFICES ASSUME Inv, At("wait"), NEW p \in Children PROVE p \in Range(proc[M].list)
    BY DEF Known, ToldInv
  <2>1. MasterInv
    BY DEF Inv, At
  <2>2. new = NoPid /\ p \in Pid
    BY <2>1 DEF MasterInv, At, Children
  <2>3. Listed(p)
    BY <2>1, <2>2, WorkersAssumption DEF MasterInv
  <2> QED BY <2>1, <2>3 DEF Listed, Range, MasterInv, MasterType
<1>2. Init => ToldInv
  BY DEF Init, ToldInv
<1> QED BY <1>1, <1>2, InitInv, NextInv, ToldStep, PTL DEF Spec
=============================================================================
