---------------------------- MODULE Connections ----------------------------
(***************************************************************************)
(* Connections as the event loop sees them: the pool of struct conn        *)
(* (nc_connection.c), the listening socket and its limit (nc_proxy.c,      *)
(* core_calc_connections), and the dispatch of a batch of events, each of  *)
(* which carries the address of a struct conn (event_wait of               *)
(* event/nc_epoll.c, core_core, core_close and core_timeout of nc_core.c). *)
(*                                                                         *)
(* A struct is a slot.  conn_put gives slots to the head of a free list    *)
(* and conn_get takes them from there, so that a slot soon serves another  *)
(* connection; gen tells the connections of one slot apart.  Requests and  *)
(* replies are in Pipeline; here a client's request may open a connection  *)
(* to a server, and any connection may end.                                *)
(***************************************************************************)
EXTENDS Integers, Sequences, FiniteSets, SequencesExt, FiniteSetsExt

CONSTANTS Slot,           \* addresses of struct conn
          Listener,       \* the one of the listening socket
          MaxClients,     \* bound: clients that ever connect
          Gens,           \* bound: gen counts modulo Gens
          max_nfd,        \* the limit on file descriptors
          max_nsconn,     \* connections to servers the configuration allows
          RESERVED_FDS,
          OtherFds,       \* descriptors in use for the rest
          Word,           \* 2^32: the size of a uint32_t
          Aborts          \* a client may give up in the backlog: ECONNABORTED

ASSUME SlotAssumption == IsFiniteSet(Slot) /\ Listener \in Slot
ASSUME LimitAssumption ==
    /\ Gens \in Nat \ {0} /\ Word \in Nat \ {0}
    /\ {MaxClients, max_nfd, max_nsconn, RESERVED_FDS, OtherFds} \subseteq Nat

VARIABLES kind,         \* of each slot: "new", "free", "proxy", "client", "server"
          gen,          \* how many connections the slot has served (% Gens)
          free_connq,   \* the free list
          ncurr_cconn,  \* clients, as counted by conn_get and conn_put
          came,         \* clients that have connected so far
          backlog,      \* those the kernel holds for the listening socket
          ready,        \* slots with an event epoll has not reported yet
          batch,        \* reported events not handled yet: [slot, gen]
          recv_ready,   \* the listening socket is being accepted from
          emfile        \* accept has failed for want of a descriptor

vars == <<kind, gen, free_connq, ncurr_cconn, came, backlog, ready, batch,
          recv_ready, emfile>>

Of(k) == {s \in Slot : kind[s] = k}
Live == Of("client") \cup Of("server")
Fds == OtherFds + Cardinality(Live)

\* core_calc_connections, in unsigned arithmetic.
max_ncconn == (max_nfd - max_nsconn - RESERVED_FDS) % Word

\* What is open beside the connections has been reserved, and the limit of
\* core_calc_connections is not below zero.
DescriptorsReserved ==
    /\ OtherFds < RESERVED_FDS
    /\ max_nsconn + RESERVED_FDS <= max_nfd
    /\ max_nfd < Word

Init == /\ kind = [s \in Slot |-> IF s = Listener THEN "proxy" ELSE "new"]
        /\ gen = [s \in Slot |-> 0]
        /\ free_connq = <<>>
        /\ ncurr_cconn = 0
        /\ came = 0 /\ backlog = 0
        /\ ready = {} /\ batch = <<>>
        /\ recv_ready = FALSE /\ emfile = FALSE

-----------------------------------------------------------------------------
(* The pool.                                                               *)

\* conn_get: the head of the free list, or memory for a new one.
conn_get(s, k) ==
    /\ IF free_connq # <<>> THEN s = Head(free_connq) ELSE kind[s] = "new"
    /\ free_connq' = IF free_connq = <<>> THEN <<>> ELSE Tail(free_connq)
    /\ kind' = [kind EXCEPT ![s] = k]
    /\ gen' = [gen EXCEPT ![s] = (@ + 1) % Gens]
    /\ ncurr_cconn' = IF k = "client" THEN ncurr_cconn + 1 ELSE ncurr_cconn

\* The client is counted out at both ends of its life.
Faulty_conn_put(s) ==
    /\ free_connq' = <<s>> \o free_connq
    /\ kind' = [kind EXCEPT ![s] = "free"]
    /\ ncurr_cconn' = ncurr_cconn
    /\ UNCHANGED gen

\* close: unref and conn_put.
conn_put(s) ==
    /\ free_connq' = <<s>> \o free_connq
    /\ kind' = [kind EXCEPT ![s] = "free"]
    /\ ncurr_cconn' = IF kind[s] = "client" THEN ncurr_cconn - 1 ELSE ncurr_cconn
    /\ UNCHANGED gen

pool_unchanged == UNCHANGED <<kind, gen, free_connq, ncurr_cconn>>

-----------------------------------------------------------------------------
(* The kernel.                                                             *)

\* A client connects: an edge on the listening socket.
client_connects ==
    /\ came < MaxClients
    /\ came' = came + 1
    /\ backlog' = backlog + 1
    /\ ready' = IF kind[Listener] = "proxy" THEN ready \cup {Listener} ELSE ready
    /\ pool_unchanged
    /\ UNCHANGED <<batch, recv_ready, emfile>>

\* Something comes in on a connection, or it ends.
peer_event(s) ==
    /\ s \in Live \ ready
    /\ ready' = ready \cup {s}
    /\ pool_unchanged
    /\ UNCHANGED <<came, backlog, batch, recv_ready, emfile>>

Idle == batch = <<>> /\ ~recv_ready

\* epoll_wait reports what is ready, in any order.
event_wait ==
    /\ Idle /\ ready # {}
    /\ \E p \in SetToSeqs(ready) :
         batch' = [i \in 1..Len(p) |-> [slot |-> p[i], gen |-> gen[p[i]]]]
    /\ ready' = {}
    /\ pool_unchanged
    /\ UNCHANGED <<came, backlog, recv_ready, emfile>>

-----------------------------------------------------------------------------
(* core_core, for the first event of the batch.  Its test for a connection *)
(* that is already unreferenced never succeeds: see OwnEvents.             *)

conn == Head(batch).slot
Handled == batch' = Tail(batch)

proxy_recv ==
    /\ batch # <<>> /\ ~recv_ready /\ kind[conn] = "proxy"
    /\ Handled
    /\ recv_ready' = TRUE
    /\ pool_unchanged
    /\ UNCHANGED <<came, backlog, ready, emfile>>

\* One connection to the servers more than the configuration allows.
Faulty_core_recv ==
    /\ batch # <<>> /\ ~recv_ready /\ conn \in Live
    /\ Handled
    /\ \/ pool_unchanged
       \/ /\ kind[conn] = "client" /\ Cardinality(Of("server")) <= max_nsconn
          /\ \E s \in Slot : conn_get(s, "server")
    /\ UNCHANGED <<came, backlog, ready, recv_ready, emfile>>

\* A request or a reply; the request may open a connection to a server.
core_recv ==
    /\ batch # <<>> /\ ~recv_ready /\ conn \in Live
    /\ Handled
    /\ \/ pool_unchanged
       \/ /\ kind[conn] = "client" /\ Cardinality(Of("server")) < max_nsconn
          /\ \E s \in Slot : conn_get(s, "server")
    /\ UNCHANGED <<came, backlog, ready, recv_ready, emfile>>

\* All clients of a server that ends are closed with it.
Faulty_core_close ==
    /\ batch # <<>> /\ ~recv_ready /\ conn \in Live
    /\ Handled
    /\ LET gone == IF kind[conn] = "server" THEN {conn} \cup Of("client") ELSE {conn}
       IN /\ free_connq' = SetToSeq(gone) \o free_connq
          /\ kind' = [s \in Slot |-> IF s \in gone THEN "free" ELSE kind[s]]
          /\ ncurr_cconn' = Cardinality(Of("client") \ gone)
          /\ ready' = ready \ gone
    /\ UNCHANGED <<gen, came, backlog, recv_ready, emfile>>

\* An error, the end of the stream, or a failed send: core_close.  A server
\* that goes down makes its clients writable, for their error replies.
core_close ==
    /\ batch # <<>> /\ ~recv_ready /\ conn \in Live
    /\ Handled
    /\ conn_put(conn)
    /\ ready' = (IF kind[conn] = "server" THEN ready \cup Of("client") ELSE ready)
                  \ {conn}
    /\ UNCHANGED <<came, backlog, recv_ready, emfile>>

\* core_timeout runs between two batches.
core_timeout(s) ==
    /\ Idle /\ kind[s] = "server"
    /\ conn_put(s)
    /\ ready' = (ready \cup Of("client")) \ {s}
    /\ UNCHANGED <<came, backlog, batch, recv_ready, emfile>>

-----------------------------------------------------------------------------
(* proxy_accept, once in the loop of proxy_recv.                           *)

\* EAGAIN, or EMFILE: the loop ends.
accept_ends ==
    /\ recv_ready
    /\ backlog = 0 \/ Fds >= max_nfd
    /\ recv_ready' = FALSE
    /\ emfile' = (emfile \/ backlog > 0)
    /\ pool_unchanged
    /\ UNCHANGED <<came, backlog, ready, batch>>

\* ECONNABORTED is taken for EAGAIN: the loop ends, whoever is next in the
\* backlog.
accept_aborted ==
    /\ recv_ready /\ backlog > 0 /\ Aborts
    /\ backlog' = backlog - 1
    /\ recv_ready' = FALSE
    /\ pool_unchanged
    /\ UNCHANGED <<came, ready, batch, emfile>>

\* The loop ends after one client.
Faulty_accept_one ==
    /\ recv_ready /\ backlog > 0 /\ Fds < max_nfd
    /\ backlog' = backlog - 1
    /\ IF ncurr_cconn >= max_ncconn THEN pool_unchanged
       ELSE \E s \in Slot : conn_get(s, "client")
    /\ recv_ready' = FALSE
    /\ UNCHANGED <<came, ready, batch, emfile>>

\* One client is accepted, and closed at once when there are too many.
proxy_accept ==
    /\ recv_ready /\ backlog > 0 /\ Fds < max_nfd
    /\ backlog' = backlog - 1
    /\ IF ncurr_cconn >= max_ncconn THEN pool_unchanged
       ELSE \E s \in Slot : conn_get(s, "client")
    /\ UNCHANGED <<came, ready, batch, recv_ready, emfile>>

\* accept fails, or there is no memory for the client, or it cannot be
\* registered and is closed; the error closes the listening socket too.
accept_fails ==
    /\ recv_ready /\ backlog > 0 /\ Fds < max_nfd
    /\ backlog' \in {backlog, backlog - 1}
    /\ conn_put(Listener)
    /\ ready' = ready \ {Listener}
    /\ recv_ready' = FALSE
    /\ UNCHANGED <<came, batch, emfile>>

Loop == \/ event_wait \/ proxy_recv \/ core_recv \/ core_close
        \/ accept_ends \/ proxy_accept

Next == \/ client_connects \/ accept_fails \/ accept_aborted
        \/ Loop
        \/ \E s \in Slot : peer_event(s) \/ core_timeout(s)

Spec == Init /\ [][Next]_vars

\* The loop goes on; a batch has an end.
FairSpec == Spec /\ WF_vars(Loop)

-----------------------------------------------------------------------------
\* No event of a batch reaches another connection than the one it was for:
\* a struct is not recycled while an event with its address is waiting, even
\* though accepts, new servers and closes happen between two events; nor is
\* it closed, so that the test conn->owner == NULL in core_core is not needed.
OwnEvents ==
    \A i \in 1..Len(batch) : /\ batch[i].gen = gen[batch[i].slot]
                             /\ kind[batch[i].slot] # "free"

\* accept does not run out of descriptors: "We should never reach here because
\* the check for conn_ncurr_cconn() against ctx->max_ncconn should catch this
\* earlier in the cycle".
NeverEmfile == ~emfile

\* The free list holds each closed struct once and nothing else, the count
\* that limits the clients is the number of clients there are, and the limit
\* does its work: accept does not run out of descriptors.
PoolSound ==
    /\ Range(free_connq) = Of("free")
    /\ Len(free_connq) = Cardinality(Of("free"))
    /\ ncurr_cconn = Cardinality(Of("client"))
    /\ DescriptorsReserved => NeverEmfile

\* A client in the backlog is noticed: epoll is edge triggered, so as long as
\* one waits there is an unreported edge, an event in the batch, or the loop
\* is still accepting.
NoneForgotten ==
    backlog > 0 /\ kind[Listener] = "proxy" =>
      \/ recv_ready \/ Listener \in ready
      \/ \E i \in 1..Len(batch) : batch[i].slot = Listener

\* Every client that connects is taken out of the backlog, by an accept or by
\* a close, unless the listening socket was closed.
Served == (backlog > 0) ~> (backlog = 0 \/ kind[Listener] # "proxy")
=============================================================================
