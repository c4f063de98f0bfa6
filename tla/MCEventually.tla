---------------------------- MODULE MCEventually ----------------------------
(***************************************************************************)
(* What must happen in the end, for TLC: messages are sent, clients are    *)
(* accepted, counts are reported, workers are replaced and stopped, and    *)
(* the instance is registered with etcd.  A behaviour is one of one part,  *)
(* which never changes; the variables of the others are idle.              *)
(***************************************************************************)
EXTENDS Naturals, Sequences, FiniteSets, Functions

CONSTANTS M, p1, p2, p3, NoPid,         \* processes
          t1, l1, l2, l3, None, Bad     \* a timer thread and leases

VARIABLES part,
          sizes, queue, queued, wire, done, send_ready, err,
          kind, gen, free_connq, ncurr_cconn, came, backlog, ready,
          batch, recv_ready, emfile,
          current, shadow, sum, aggregate, updated, wpc, apc, at, asked,
          reported,
          proc, pc, new, reaped, term, pidfile, told, deaths, signals,
          first_conn_etcd, lease, thr, alive, key, claimed, lost, expired

sendVars == <<sizes, queue, queued, wire, done, send_ready, err>>
connVars == <<kind, gen, free_connq, ncurr_cconn, came, backlog, ready,
              batch, recv_ready, emfile>>
statsVars == <<current, shadow, sum, aggregate, updated, wpc, apc, at,
               asked, reported>>
workerVars == <<proc, pc, new, reaped, term, pidfile, told, deaths, signals>>
etcdVars == <<first_conn_etcd, lease, thr, alive, key, claimed, lost, expired>>
vars == <<part, sendVars, connVars, statsVars, workerVars, etcdVars>>

-----------------------------------------------------------------------------
\* Messages with one mbuf, several, empty ones, and none.
Chains == {<<<<2, 1>>, <<>>, <<1>>, <<0, 2>>>>,
           <<<<>>, <<0>>, <<1, 1, 1>>, <<>>>>,
           <<<<1>>, <<1, 0, 2>>, <<0>>, <<>>, <<1>>>>,
           <<<<1, 1, 1, 1, 1>>, <<2>>>>}
Send == INSTANCE SendChain WITH Queues <- Chains, NC_IOV_MAX <- 3

\* Clients that do not go away between the handshake and the accept.
Conns == INSTANCE Connections WITH
           Slot <- 1..4, Listener <- 1, MaxClients <- 3, Gens <- 1, max_nfd <- 5,
           max_nsconn <- 1, RESERVED_FDS <- 3, OtherFds <- 2, Word <- 256,
           Aborts <- FALSE

Counts == INSTANCE Stats WITH
            NMetric <- 2, Kind <- <<"counter", "counter">>, Delta <- {1, 2},
            Time <- {1}, MaxTotal <- 2

Master == INSTANCE Workers WITH
            Pid <- {M, p1, p2, p3}, core_worker_num <- 2, MaxDeaths <- 1,
            MaxSignals <- 2, StepsFail <- FALSE

\* One timer thread at a time; the first request of all is answered, and so
\* are those that write the key.
Etcd == INSTANCE Registration WITH
          Thread <- {t1}, Lease <- {l1, l2, l3}, len <- [l \in {l1, l2, l3} |-> 2],
          Lost <- {"grant", "ttl", "keep"}, MaxLost <- 3, MaxExpired <- 3,
          OmitsTTL <- TRUE, Overlap <- FALSE

-----------------------------------------------------------------------------
idle == "idle"

NoSend ==
    /\ sizes = idle /\ queue = idle /\ queued = idle /\ wire = idle
    /\ done = idle /\ send_ready = idle /\ err = idle
NoConns ==
    /\ kind = idle /\ gen = idle /\ free_connq = idle /\ ncurr_cconn = idle
    /\ came = idle /\ backlog = idle /\ ready = idle /\ batch = idle
    /\ recv_ready = idle /\ emfile = idle
NoStats ==
    /\ current = idle /\ shadow = idle /\ sum = idle /\ aggregate = idle
    /\ updated = idle /\ wpc = idle /\ apc = idle /\ at = idle
    /\ asked = idle /\ reported = idle
NoWorkers ==
    /\ proc = idle /\ pc = idle /\ new = idle /\ reaped = idle /\ term = idle
    /\ pidfile = idle /\ told = idle /\ deaths = idle /\ signals = idle
NoEtcd ==
    /\ first_conn_etcd = idle /\ lease = idle /\ thr = idle /\ alive = idle
    /\ key = idle /\ claimed = idle /\ lost = idle /\ expired = idle

Init ==
    \/ /\ part = "send" /\ Send!Init
       /\ NoConns /\ NoStats /\ NoWorkers /\ NoEtcd
    \/ /\ part = "connections" /\ Conns!Init
       /\ NoSend /\ NoStats /\ NoWorkers /\ NoEtcd
    \/ /\ part = "stats" /\ Counts!Init
       /\ NoSend /\ NoConns /\ NoWorkers /\ NoEtcd
    \/ /\ part = "workers" /\ Master!Init
       /\ NoSend /\ NoConns /\ NoStats /\ NoEtcd
    \/ /\ part = "etcd" /\ Etcd!Init
       /\ NoSend /\ NoConns /\ NoStats /\ NoWorkers

\* A step of one component leaves the others alone.
OfSend == UNCHANGED <<part, connVars, statsVars, workerVars, etcdVars>>
OfConns == UNCHANGED <<part, sendVars, statsVars, workerVars, etcdVars>>
OfStats == UNCHANGED <<part, sendVars, connVars, workerVars, etcdVars>>
OfWorkers == UNCHANGED <<part, sendVars, connVars, statsVars, etcdVars>>
OfEtcd == UNCHANGED <<part, sendVars, connVars, statsVars, workerVars>>

\* The aggregator's epoll_wait does not fail, as in the FairSpec of Stats.
Next ==
    \/ part = "send" /\ Send!Next /\ OfSend
    \/ part = "connections" /\ Conns!Next /\ OfConns
    \/ part = "stats" /\ Counts!Work /\ OfStats
    \/ part = "workers" /\ Master!Next /\ OfWorkers
    \/ part = "etcd" /\ Etcd!Next /\ OfEtcd

-----------------------------------------------------------------------------
(***************************************************************************)
(* Fairness, as each component's FairSpec states it.  Since part never     *)
(* changes, a conjunct can hold an action of every part: it says of each   *)
(* behaviour what the conjunct of its own component says.                  *)
(***************************************************************************)
\* The event loops and the master go on, counts are handed over, and the
\* timer fires.
Loops ==
    \/ /\ part = "send" /\ OfSend
       /\ Send!enqueue \/ Send!msg_send \/ Send!nothing_to_send
    \/ part = "connections" /\ Conns!Loop /\ OfConns
    \/ part = "stats" /\ Counts!swap /\ OfStats
    \/ part = "workers" /\ Master!master_loop /\ OfWorkers
    \/ part = "etcd" /\ Etcd!timer_thread(t1) /\ OfEtcd

\* The aggregator runs, signals are delivered, and the timer's thread goes on.
Runs ==
    \/ part = "stats" /\ Counts!Aggregator /\ OfStats
    \/ part = "workers" /\ (\E p \in {M, p1, p2, p3} : Master!signal_handler(p)) /\ OfWorkers
    \/ part = "etcd" /\ thr[t1] # Etcd!idle /\ Etcd!Step(t1) /\ OfEtcd

\* The peer takes bytes again and again, and a lease that is not refreshed
\* expires in the end.
Recurs ==
    \/ part = "send" /\ Send!Accepted /\ OfSend
    \/ /\ part = "etcd" /\ OfEtcd
       /\ \E l \in {l1, l2, l3} : l # lease.id /\ Etcd!expire(l)

FairSpec == /\ Init /\ [][Next]_vars
            /\ WF_vars(Loops) /\ WF_vars(Runs) /\ SF_vars(Recurs)

-----------------------------------------------------------------------------
\* The bytes msg_send_chain() gave to the kernel and those of the messages
\* still queued are those of the messages in their order, send_done is called
\* once for each message, after its last byte, and every message is done in
\* the end, whatever part of it each writev takes.
AllSent ==
    /\ [](part = "send" => Send!WireInOrder /\ Send!DoneWhole)
    /\ part = "send" ~> part = "send" /\ (err \/ Len(done) = Len(sizes))

\* A client that waits in the backlog of the edge triggered listener is
\* noticed: an edge, an event or proxy_accept() is still to come.  Every client
\* that connects is taken out of the backlog, unless the listening socket was
\* closed (proxy_accept, proxy_recv).
Served ==
    /\ [](part = "connections" => Conns!NoneForgotten)
    /\ (part = "connections" /\ backlog > 0)
         ~> (part = "connections" /\ (backlog = 0 \/ kind[1] # "proxy"))

\* Every count of the worker reaches the sum that is reported (stats_swap,
\* stats_aggregate).
CountsArrive ==
    \A m \in 1..2, k \in 1..2 : (part = "stats" /\ Counts!Total[m] >= k)
                                  ~> (part = "stats" /\ sum[m] >= k)

\* A worker that dies is replaced for as long as the master waits for its
\* children (core_master_loop), and a SIGTERM handled by the master ends every
\* process of the instance, also the child that is forked and not yet in its
\* list (nc_signal.c).
Supervised ==
    /\ (part = "workers" /\ Master!At("wait") /\ Cardinality(Master!Workers) < 2)
         ~> (part = "workers" /\ (Cardinality(Master!Workers) = 2 \/ M \notin Master!Running))
    /\ (part = "workers" /\ told) ~> (part = "workers" /\ Master!Running = {})

\* Once no request is under way, the key is bound to the lease in the buffer
\* or is going to be applied for again (connect_etcd, first_apply_key), and
\* the instance is registered again and again, however often its lease expires
\* and requests fail.
Registered == /\ [](part = "etcd" => Etcd!OneLease)
              /\ []<>(part = "etcd" => key # None /\ key = lease.id)
=============================================================================
