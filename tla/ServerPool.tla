----------------------------- MODULE ServerPool -----------------------------
(***************************************************************************)
(* One server pool of a worker: how it picks a server for a request, opens *)
(* connections to it, ejects a server that keeps failing, and takes it     *)
(* back when its retry time has come.  Every action is one call from the   *)
(* event loop and is atomic.                                               *)
(*                                                                         *)
(* Deadlines (next_retry, next_rebuild) are kept relative to now: as the   *)
(* ticks that are left, Passed once the clock is beyond them.  The code    *)
(* only compares them with now and with each other while both lie in the   *)
(* future, so nothing is lost, and time needs no bound.  A next_retry of 0 *)
(* is a deadline that has passed; a next_rebuild of 0 is NoRebuild.        *)
(*                                                                         *)
(* A key's hash may be anything, so the continuum is given by the number   *)
(* of points each server has on it, and a request may go to any server     *)
(* that has one.                                                           *)
(***************************************************************************)
EXTENDS Integers, FiniteSets, FiniteSetsExt, Functions

CONSTANTS
    NServer,            \* number of servers of the pool
    Weight,             \* Weight[s]: weight of server s
    Dist,               \* dist_type
    AutoEject,          \* auto_eject_hosts
    FailureLimit,       \* server_failure_limit
    RetryTimeout,       \* server_retry_timeout, in ticks
    ServerConnections,  \* server_connections
    DoPreconnect,       \* preconnect
    MaxAtOnce,          \* bound: connections to a server that connect() makes
                        \* at once, without EINPROGRESS, over the whole run
    PointsPerServer,    \* KETAMA_POINTS_PER_SERVER
    Addition            \* ..._CONTINUUM_ADDITION

Server == 0..(NServer - 1)

ASSUME PoolAssumption ==
    /\ NServer \in Nat \ {0}
    /\ Weight \in [Server -> Nat \ {0}]
    /\ Dist \in {"ketama", "modula", "random"}
    /\ AutoEject \in BOOLEAN
    /\ FailureLimit \in Nat
    /\ RetryTimeout \in Nat
    /\ ServerConnections \in Nat \ {0}
    /\ DoPreconnect \in BOOLEAN
    /\ MaxAtOnce \in Nat
    /\ PointsPerServer \in Nat \ {0} /\ PointsPerServer % 4 = 0
    /\ Addition \in Nat

Passed == -1
NoRebuild == -2

VARIABLES
    pool,       \* retry, fails: next_retry and failure_count of each server;
                \* rebuild: next_rebuild;  live: the servers nlive_server counts;
                \* points: points of each server on the continuum;
                \* slots: nserver_continuum
    connecting, \* connecting[s]: connections being made to s
    connected,  \* connected[s]: connections made to s
    gauge,      \* gauge[s]: the statistic server_connections of s
    toOpen,     \* servers server_pool_preconnect() still has to go through
    age,        \* history: ticks since s was last ejected
    answered    \* history: servers whose next_retry an answer has cleared since

vars == <<pool, connecting, connected, gauge, toOpen, age, answered>>

-----------------------------------------------------------------------------
(* The continuum.                                                          *)

(* What a loop over the servers of the pool adds up.                       *)
SumOf(f) ==
    LET upto[k \in 0..NServer] == IF k = 0 THEN 0 ELSE upto[k - 1] + f[k - 1]
    IN  upto[NServer]

(* total_weight                                                            *)
Total(S) == SumOf([s \in Server |-> IF s \in S THEN Weight[s] ELSE 0])

(* Servers (modula: weights) that the continuum needs room for.            *)
Faulty_Demand(live) == Cardinality(live)
Demand(live) == IF Dist = "modula" THEN Total(live) ELSE Cardinality(live)

(* pointer_per_server; ketama's floating point share is taken as exact.    *)
Faulty_PointsOf(s, live) ==
    CASE Dist = "ketama" -> 4 * (1 + (Weight[s] * PointsPerServer * Cardinality(live))
                                        \div (4 * Total(live)))
      [] Dist = "modula" -> Weight[s]
      [] Dist = "random" -> 1
PointsOf(s, live) ==
    CASE Dist = "ketama" -> 4 * ((Weight[s] * PointsPerServer * Cardinality(live))
                                    \div (4 * Total(live)))
      [] Dist = "modula" -> Weight[s]
      [] Dist = "random" -> 1

Capacity(slots) == slots * (IF Dist = "ketama" THEN PointsPerServer ELSE 1)

(* ncontinuum                                                              *)
NContinuum(p) == SumOf(p.points)

(* Servers that a key can be dispatched to.                                *)
Owners(p) == {s \in Server : p.points[s] # 0}

-----------------------------------------------------------------------------
(* server_pool_run(): ketama_update(), modula_update(), random_update().   *)

Faulty_Live(retry) == {s \in Server : AutoEject => retry[s] <= 1}
Live(retry) == {s \in Server : AutoEject => retry[s] <= 0}

Faulty_NextRebuild(retry, out) ==
    IF out = {} THEN NoRebuild ELSE Max({retry[s] : s \in out})
NextRebuild(retry, out) ==
    IF out = {} THEN NoRebuild ELSE Min({retry[s] : s \in out})

server_pool_run(p) ==
    LET live == Live(p.retry)
    IN  [retry   |-> [s \in Server |-> IF s \in live THEN Passed ELSE p.retry[s]],
         fails   |-> p.fails,
         rebuild |-> NextRebuild(p.retry, Server \ live),
         live    |-> live,
         points  |-> IF live = {} THEN p.points
                     ELSE [s \in Server |-> IF s \in live THEN PointsOf(s, live) ELSE 0],
         slots   |-> IF live # {} /\ Demand(live) > p.slots
                     THEN Demand(live) + Addition ELSE p.slots]

(* failure_count = 0; next_retry = d                                       *)
Assign(p, s, d) ==
    [retry   |-> [p.retry EXCEPT ![s] = d],
     fails   |-> [p.fails EXCEPT ![s] = 0],
     rebuild |-> p.rebuild,
     live    |-> p.live,
     points  |-> p.points,
     slots   |-> p.slots]

(* One more connection of s has failed.                                    *)
Ejects(p, s) == AutoEject /\ p.fails[s] + 1 >= FailureLimit

server_failure(p, s) ==
    IF Ejects(p, s)
    THEN server_pool_run(Assign(p, s, RetryTimeout))
    ELSE [p EXCEPT !.fails[s] = IF AutoEject THEN @ + 1 ELSE @]

(* An answer of s has arrived.                                             *)
Faulty_server_ok(p, s) ==
    IF p.fails[s] = 0 THEN p
    ELSE [Assign(p, s, Passed) EXCEPT !.rebuild = NoRebuild]
server_ok(p, s) ==
    IF p.fails[s] = 0 THEN p ELSE Assign(p, s, Passed)

(* server_pool_update() fails with ECONNREFUSED, or returns the pool.      *)
Pending(p) == AutoEject /\ p.rebuild # NoRebuild
Faulty_Refused(p) == FALSE
Refused(p) == Pending(p) /\ p.rebuild >= 0 /\ p.live = {}
server_pool_update(p) ==
    IF Pending(p) /\ p.rebuild < 0 THEN server_pool_run(p) ELSE p

-----------------------------------------------------------------------------
PoolInit ==
    server_pool_run([retry   |-> [s \in Server |-> Passed],
                     fails   |-> [s \in Server |-> 0],
                     rebuild |-> NoRebuild,
                     live    |-> {},
                     points  |-> [s \in Server |-> 0],
                     slots   |-> 0])

Init ==
    /\ pool = PoolInit
    /\ connecting = [s \in Server |-> 0]
    /\ connected = [s \in Server |-> 0]
    /\ gauge = [s \in Server |-> 0]
    /\ toOpen = IF DoPreconnect THEN Server ELSE {}
    /\ age = [s \in Server |-> 0]
    /\ answered = {}

(* The history of the step in which a connection of s fails.               *)
Fail(p, s) ==
    /\ pool' = server_failure(p, s)
    /\ age' = IF Ejects(p, s) THEN [age EXCEPT ![s] = 0] ELSE age
    /\ answered' = IF Ejects(p, s) THEN answered \ {s} ELSE answered

Full(s) == connecting[s] + connected[s] = ServerConnections

(* server_conn() and server_connect(), closing the connection on an error. *)
Reuse(p, s) ==
    /\ Full(s)
    /\ pool' = p
    /\ UNCHANGED <<connecting, connected, age, answered>>

ConnectInProgress(p, s) ==
    /\ ~Full(s)
    /\ connecting' = [connecting EXCEPT ![s] = @ + 1]
    /\ pool' = p
    /\ UNCHANGED <<connected, age, answered>>

(* Such a connection is not counted in gauge, so the difference counts it. *)
ConnectAtOnce(p, s) ==
    /\ ~Full(s) /\ connected[s] - gauge[s] < MaxAtOnce
    /\ connected' = [connected EXCEPT ![s] = @ + 1]
    /\ pool' = p
    /\ UNCHANGED <<connecting, age, answered>>

ConnectFails(p, s) ==
    /\ ~Full(s)
    /\ Fail(p, s)
    /\ UNCHANGED <<connecting, connected>>

Open(p, s) ==
    /\ \/ Reuse(p, s)
       \/ ConnectInProgress(p, s)
       \/ ConnectAtOnce(p, s)
       \/ ConnectFails(p, s)
    /\ UNCHANGED gauge

(* server_each_preconnect(), before the event loop starts.                 *)
Preconnect(s) ==
    /\ s \in toOpen /\ \A t \in toOpen : s <= t
    /\ toOpen' = toOpen \ {s}
    /\ Open(pool, s)

(* server_pool_conn() for a request.                                       *)
PoolConn ==
    LET p == server_pool_update(pool)
    IN  /\ toOpen = {}
        /\ ~Refused(pool)
        /\ \E s \in Owners(p) : Open(p, s)
        /\ UNCHANGED toOpen

(* server_connected(), when a connecting socket becomes writable.          *)
ServerConnected(s) ==
    /\ toOpen = {} /\ connecting[s] > 0
    /\ connecting' = [connecting EXCEPT ![s] = @ - 1]
    /\ connected' = [connected EXCEPT ![s] = @ + 1]
    /\ gauge' = [gauge EXCEPT ![s] = @ + 1]
    /\ UNCHANGED <<pool, toOpen, age, answered>>

(* server_ok(), from rsp_forward().                                        *)
ServerOk(s) ==
    /\ toOpen = {} /\ connected[s] > 0
    /\ pool' = server_ok(pool, s)
    /\ answered' = IF pool.fails[s] = 0 THEN answered ELSE answered \cup {s}
    /\ UNCHANGED <<connecting, connected, gauge, toOpen, age>>

(* server_close() of a connection that is being made or is made.           *)
CloseConnecting(s) ==
    /\ toOpen = {} /\ connecting[s] > 0
    /\ connecting' = [connecting EXCEPT ![s] = @ - 1]
    /\ Fail(pool, s)
    /\ UNCHANGED <<connected, gauge, toOpen>>

Faulty_CloseConnected(s) ==
    /\ toOpen = {} /\ connected[s] > 0
    /\ connected' = [connected EXCEPT ![s] = @ - 1]
    /\ Fail(pool, s)
    /\ UNCHANGED <<connecting, gauge, toOpen>>
CloseConnected(s) ==
    /\ toOpen = {} /\ connected[s] > 0
    /\ connected' = [connected EXCEPT ![s] = @ - 1]
    /\ gauge' = [gauge EXCEPT ![s] = @ - 1]
    /\ Fail(pool, s)
    /\ UNCHANGED <<connecting, toOpen>>

(* The clock goes on.  Deadlines stop at Passed, ages beyond RetryTimeout. *)
Left(d) == IF d > Passed THEN d - 1 ELSE d
Tick ==
    /\ pool' = [pool EXCEPT !.retry = [s \in Server |-> Left(pool.retry[s])],
                            !.rebuild = Left(pool.rebuild)]
    /\ age' = [s \in Server |-> IF age[s] <= RetryTimeout THEN age[s] + 1 ELSE age[s]]
    /\ UNCHANGED <<connecting, connected, gauge, toOpen, answered>>

Next ==
    \/ \E s \in Server : \/ Preconnect(s)
                         \/ ServerConnected(s)
                         \/ ServerOk(s)
                         \/ CloseConnecting(s)
                         \/ CloseConnected(s)
    \/ PoolConn
    \/ Tick

Spec == Init /\ [][Next]_vars

(* Time goes on, and requests for this pool keep coming.                   *)
FairSpec == Spec /\ WF_vars(Tick) /\ WF_vars(PoolConn)
                 /\ WF_vars(\E s \in Server : Preconnect(s))
-----------------------------------------------------------------------------
(* Properties.                                                             *)

(* A server that is not counted as live has a rebuild of the continuum     *)
(* scheduled, for no later than its retry timeout after it was last        *)
(* ejected, whatever was ejected, rebuilt or answered in the meantime: no  *)
(* call of server_pool_run() forgets a server or puts it off.              *)
BoundedOutage ==
    \A s \in Server \ pool.live :
        /\ pool.rebuild # NoRebuild
        /\ pool.rebuild + age[s] <= RetryTimeout

(* A request that server_pool_update() lets through is dispatched to a     *)
(* live server, on which no retry time is running.  In particular the      *)
(* stale continuum that is kept when no server is live is never used.      *)
RoutesToLive ==
    LET p == server_pool_update(pool)
    IN  ~Refused(pool) =>
            Owners(p) \subseteq {s \in p.live : p.retry[s] <= 0}

(* The continuum is never empty, as the dispatch functions assert, and     *)
(* never holds more points than it was allocated for.                      *)
ContinuumFits ==
    /\ NContinuum(pool) > 0
    /\ NContinuum(pool) <= Capacity(pool.slots)

(* "# active server connections": the statistic server_connections of a    *)
(* server is the number of its connections that are made.                  *)
GaugeCounts == gauge = connected

(* A server comes back only after it has been out for the retry timeout,   *)
(* or if a connection that survived its ejection has brought an answer:    *)
(* the rebuilds that other servers cause do not take it back early.        *)
ReturnsAfterTimeout ==
    [][\A s \in pool'.live \ pool.live :
           age[s] >= RetryTimeout \/ s \in answered]_vars

(* redis_fragment_argx() and memcache_fragment_retrieval() group keys in a *)
(* table of ncontinuum entries ("ncontinuum is the number of backend       *)
(* redis/memcache server") by the index of their server: every index that  *)
(* dispatch can return is within the table.                                *)
FragmentTable == \A s \in Owners(pool) : s < NContinuum(pool)

(* A server that has been ejected is taken back in the end, as long as     *)
(* requests keep coming: also when all servers are out and requests are    *)
(* refused, and when its other connections fail and eject it again.        *)
EjectedReturns == \A s \in Server : s \notin pool.live ~> s \in pool.live
=============================================================================
