------------------------------- MODULE Workers -------------------------------
(***************************************************************************)
(* The processes of an instance started with -n N, N > 1: the master binds *)
(* the addresses, forks the workers, starts the etcd timer and replaces    *)
(* the workers that die (core_master_loop); every process inherits the     *)
(* master's list of workers and its flags by fork, so that a worker forked *)
(* in the second loop differs from those of the first one.  Signals are    *)
(* delivered between any two steps (signal_handler).                       *)
(***************************************************************************)
EXTENDS Naturals, Sequences, FiniteSets, Functions

CONSTANTS
  Pid, M, NoPid,   \* process ids, the master's, and 0
  core_worker_num, \* -n; at least 2, and fewer than Pid has without M
  MaxDeaths,       \* bound: workers that crash or leave
  MaxSignals,      \* bound: signals sent from outside
  StepsFail        \* bind, fork, the timer and the trace file may fail

ASSUME WorkersAssumption ==
  /\ M \in Pid /\ NoPid \notin Pid
  /\ core_worker_num \in Nat
  /\ StepsFail \in BOOLEAN

VARIABLES
  proc,    \* what each process is and what it has inherited
  pc,      \* where the master is in core_master_loop
  new,     \* the child it has just forked and not yet listed
  reaped,  \* the child wait() has just returned
  term,    \* processes with a SIGTERM pending
  pidfile, \* the pid file exists
  told,    \* the master has run its SIGTERM handler as the master
  deaths, signals

vars == <<proc, pc, new, reaped, term, pidfile, told, deaths, signals>>

free == [st |-> "free"]

Init ==
  /\ proc = [p \in Pid |-> IF p = M
       THEN [st |-> "run", core_is_master |-> FALSE, port |-> "given",
             traced |-> FALSE,
             list |-> [i \in 1 .. core_worker_num + 1 |-> NoPid]]
       ELSE free]
  /\ pc = "bind" /\ new = NoPid /\ reaped = NoPid
  /\ term = {} /\ pidfile = TRUE /\ told = FALSE
  /\ deaths = 0 /\ signals = 0

Running == {p \in Pid : proc[p].st = "run"}
Children == {p \in Pid \ {M} : proc[p].st # "free"}
At(step) == M \in Running /\ pc = step

\* core_worker_each: the addresses are bound once before the workers bind
\* them again; when that fails the master goes on alone
bind_pools ==
  /\ At("bind")
  /\ \/ pc' = "fork"
     \/ StepsFail /\ pc' = "serve"
  /\ UNCHANGED <<proc, new, reaped, term, pidfile, told, deaths, signals>>

----------------------------------------------------------------------------
(* the end of a process                                                    *)

\* a child of the master waits to be reaped; init reaps the others
Without(ps) ==
  [p \in Pid |-> IF p \in ps /\ p \in Running
                 THEN IF p # M /\ M \in Running \ ps THEN [st |-> "zombie"]
                                                    ELSE free
                 ELSE IF M \in ps /\ proc[p].st = "zombie" THEN free
                 ELSE proc[p]]

Exit(p) == proc' = Without({p})

\* killed by a signal it cannot handle, or SIGINT
crash(p) ==
  /\ p \in Running /\ deaths < MaxDeaths
  /\ deaths' = deaths + 1
  /\ Exit(p)
  /\ term' = term \ {p}
  /\ UNCHANGED <<pc, new, reaped, pidfile, told, signals>>

\* core_start or core_loop fails in a worker: main ends with nc_post_run
worker_leaves(p) ==
  /\ p \in Running /\ p # M /\ deaths < MaxDeaths
  /\ deaths' = deaths + 1
  /\ Exit(p)
  /\ pidfile' = FALSE
  /\ term' = term \ {p}
  /\ UNCHANGED <<pc, new, reaped, told, signals>>

sigterm(p) ==
  /\ p \in Running \ term /\ signals < MaxSignals
  /\ signals' = signals + 1
  /\ term' = term \cup {p}
  /\ UNCHANGED <<proc, pc, new, reaped, pidfile, told, deaths>>

\* signal_handler: whoever takes itself for the master signals every entry of
\* its list; kill(0) of an empty entry reaches the whole process group
Faulty_killed(p) ==
  LET l == proc[p].list
  IN IF ~proc[p].core_is_master THEN {}
     ELSE Running \cap {l[i] : i \in 1 .. core_worker_num}

killed(p) ==
  LET l == proc[p].list
      entries == {l[i] : i \in 1 .. core_worker_num + 1}
  IN IF ~proc[p].core_is_master THEN {}
     ELSE IF NoPid \in entries THEN Running ELSE Running \cap entries

signal_handler(p) ==
  /\ p \in Running /\ p \in term
  /\ term' = (term \cup killed(p)) \ {p}
  /\ told' = (told \/ (p = M /\ proc[p].core_is_master))
  /\ Exit(p)
  /\ UNCHANGED <<pc, new, reaped, pidfile, deaths, signals>>

----------------------------------------------------------------------------
(* core_master_loop                                                        *)

\* a child of the first loop knows that it is not the master, counts its
\* statistics port one up and opens the trace file
first_child(c) == [c EXCEPT !.core_is_master = FALSE, !.port = "next"]

\* a child of the second loop is a copy of the master
later_child(c) == c

Forked(p, child, traced) ==
  /\ proc[p].st = "free" /\ p # M
  /\ proc' = [proc EXCEPT ![p] = [child EXCEPT !.traced = traced]]
  /\ new' = p

Forks == Cardinality({i \in 1 .. core_worker_num : proc[M].list[i] # NoPid})

fork_worker(p) ==
  /\ At("fork") /\ Forks < core_worker_num
  /\ \E traced \in {TRUE} \cup {~StepsFail} :
       Forked(p, first_child(proc[M]), traced)
  /\ pc' = "enlist"
  /\ UNCHANGED <<reaped, term, pidfile, told, deaths, signals>>

\* the master exits and leaves the workers it has forked so far
fork_fails ==
  /\ At("fork") /\ Forks < core_worker_num /\ StepsFail
  /\ Exit(M)
  /\ term' = term \ {M}
  /\ UNCHANGED <<pc, new, reaped, pidfile, told, deaths, signals>>

enlist ==
  /\ At("enlist")
  /\ proc' = [proc EXCEPT ![M].core_is_master = TRUE,
                          ![M].list[Forks + 1] = new]
  /\ new' = NoPid
  /\ pc' = "fork"
  /\ UNCHANGED <<reaped, term, pidfile, told, deaths, signals>>

\* when the timer cannot be set core_master_loop returns, and the master goes
\* on to serve clients like a worker
set_timmer ==
  /\ At("fork") /\ Forks = core_worker_num
  /\ \/ pc' = "wait"
     \/ StepsFail /\ pc' = "serve"
  /\ UNCHANGED <<proc, new, reaped, term, pidfile, told, deaths, signals>>

wait_child(p) ==
  /\ At("wait") /\ proc[p].st = "zombie"
  /\ proc' = [proc EXCEPT ![p] = free]
  /\ reaped' = p
  /\ pc' = "again"
  /\ UNCHANGED <<new, term, pidfile, told, deaths, signals>>

Faulty_fork_again(p) ==
  /\ At("again")
  /\ Forked(p, later_child(proc[M]), proc[M].traced)
  /\ pc' = "serve"
  /\ UNCHANGED <<reaped, term, pidfile, told, deaths, signals>>

fork_again(p) ==
  /\ At("again")
  /\ Forked(p, later_child(proc[M]), proc[M].traced)
  /\ pc' = "replace"
  /\ UNCHANGED <<reaped, term, pidfile, told, deaths, signals>>

\* logged, and the worker is not replaced
fork_again_fails ==
  /\ At("again") /\ StepsFail
  /\ reaped' = NoPid
  /\ pc' = "wait"
  /\ UNCHANGED <<proc, new, term, pidfile, told, deaths, signals>>

\* the first entry with the dead worker's pid becomes the new one's
Faulty_replace ==
  /\ At("replace")
  /\ proc' = [proc EXCEPT ![M].list[1] = new]
  /\ new' = NoPid /\ reaped' = NoPid
  /\ pc' = "wait"
  /\ UNCHANGED <<term, pidfile, told, deaths, signals>>

replace ==
  LET l == proc[M].list
      same == {i \in DOMAIN l : l[i] = reaped}
  IN /\ At("replace")
     /\ proc' = IF same = {} THEN proc
                ELSE LET i == CHOOSE i \in same : \A j \in same : i <= j
                     IN [proc EXCEPT ![M].list[i] = new]
     /\ new' = NoPid /\ reaped' = NoPid
     /\ pc' = "wait"
     /\ UNCHANGED <<term, pidfile, told, deaths, signals>>

master_loop ==
  \/ bind_pools \/ fork_fails \/ enlist \/ set_timmer
  \/ fork_again_fails \/ replace
  \/ \E p \in Pid : fork_worker(p) \/ wait_child(p) \/ fork_again(p)

Next ==
  \/ master_loop
  \/ \E p \in Pid :
       crash(p) \/ worker_leaves(p) \/ sigterm(p) \/ signal_handler(p)

Spec == Init /\ [][Next]_vars

FairSpec ==
  /\ Spec
  /\ WF_vars(master_loop)
  /\ WF_vars(\E p \in Pid : signal_handler(p))

----------------------------------------------------------------------------
Workers == Running \ {M}

\* While the master waits, its list names every worker it has to replace or
\* to stop, however deaths, signals and failed forks have interleaved
\* (core_worker_list in both loops); and once it has handled a SIGTERM, no
\* process runs that has not been sent one, whether or not it was listed
\* (signal_handler).
Known ==
  /\ At("wait") => Children \subseteq Range(proc[M].list)
  /\ told => Running \subseteq term

\* A SIGTERM handled by the master ends every process of the instance, also
\* the child that is forked but not yet in the list: the list has one entry
\* that stays 0, and kill(0) reaches the group (nc_signal.c:122).  A signal
\* that comes before core_is_master is set, after the first fork, is not one.
AllStop == told ~> Running = {}

\* A worker that dies is replaced for as long as the master waits for its
\* children.
Replaced ==
  (At("wait") /\ Cardinality(Workers) < core_worker_num)
    ~> (Cardinality(Workers) = core_worker_num \/ M \notin Running)

\* "set stats monitoring port" (nc.c:231): a worker that serves its
\* statistics does so on that port.
GivenPort == \A p \in Workers : proc[p].port = "given"

\* "-L" (README.md:31, requests are traced in the proxy): with the trace file
\* readable, every worker the master has listed traces its requests.
Traced == At("wait") => \A p \in Workers : proc[p].traced

\* "Set pid file to filename" (man/nutcracker.8:70): the file is there while
\* the process it names runs.
PidfileKept == M \in Running => pidfile
=============================================================================
