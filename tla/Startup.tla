------------------------------- MODULE Startup -------------------------------
(***************************************************************************)
(* From main to the event loop and back (nc.c, core_start and core_stop of *)
(* nc_core.c, proxy_init of nc_proxy.c, server_pool_preconnect of          *)
(* nc_server.c, the free list of nc_connection.c).  A process acquires its *)
(* parts one after the other; any step may fail, and the parts acquired so *)
(* far are given back by a list of calls written out at that step.  One    *)
(* process: the master and its workers are in Workers.                     *)
(***************************************************************************)
EXTENDS Naturals, Sequences, FiniteSets, SequencesExt

CONSTANTS NPool,       \* pools of the configuration, a server and a listener each
          Conn,        \* struct conn's malloc may return
          MaxClients,  \* clients at a time
          NoConn,      \* NULL
          pid_filename \* is a pid file asked for?

Pool == 1 .. NPool

VARIABLES pc,       \* the step of the start, "run", "undo" or "exit"
          i,        \* the pool the step is at
          todo,     \* the calls still to be made on the way out
          held,     \* what the process holds
          alive,    \* the connections that are allocated
          freeq,    \* free_connq, from its head
          p_conn,   \* pool -> its listening connection
          s_conn,   \* pool -> the connection to its server
          c_conn,   \* pool -> the connections of its clients
          ran,      \* the event loop was reached
          dangling  \* a freed connection was written to

vars == <<pc, i, todo, held, alive, freeq, p_conn, s_conn, c_conn, ran, dangling>>
conns == <<alive, freeq, p_conn, s_conn, c_conn, dangling>>

Init ==
  /\ pc = "log" /\ i = 1 /\ todo = <<>> /\ held = {}
  /\ alive = {} /\ freeq = <<>>
  /\ p_conn = [p \in Pool |-> NoConn]
  /\ s_conn = [p \in Pool |-> NoConn]
  /\ c_conn = [p \in Pool |-> {}]
  /\ ran = FALSE /\ dangling = FALSE

-----------------------------------------------------------------------------
\* nc_post_run and the way out of main
post_run == <<"remove_pidfile", "signal_deinit", "log_deinit">>

\* The calls core_ctx_create makes when the step named fails, and core_start
\* after it
stats_down == <<"stats_destroy", "server_pool_deinit", "conf_destroy", "ctx_free">>
Faulty_unwind(step) ==
  CASE step \in {"log", "daemonize", "signal", "pidfile"} -> post_run
    [] OTHER ->
      (CASE step = "ctx" -> <<>>
         [] step = "conf" -> <<"ctx_free">>
         [] step = "pools" -> <<"conf_destroy", "ctx_free">>
         [] step \in {"limits", "stats"} -> Tail(stats_down)
         [] step = "evb" -> stats_down
         [] step = "preconnect" -> <<"event_base_destroy">> \o stats_down
         [] step = "proxy" ->
              <<"proxy_deinit", "server_pool_disconnect", "event_base_destroy">> \o stats_down)
      \o <<"conn_deinit", "msg_deinit", "mbuf_deinit">> \o post_run
Faulty_unwind_order(step) ==
  CASE step \in {"log", "daemonize", "signal", "pidfile"} -> post_run
    [] OTHER ->
      (CASE step = "ctx" -> <<>>
         [] step = "conf" -> <<"ctx_free">>
         [] step = "pools" -> <<"conf_destroy", "ctx_free">>
         [] step \in {"limits", "stats"} -> Tail(stats_down)
         [] step = "evb" -> stats_down
         [] step = "preconnect" ->
              <<"event_base_destroy", "server_pool_disconnect">> \o stats_down
         [] step = "proxy" ->
              <<"proxy_deinit", "event_base_destroy", "server_pool_disconnect">> \o stats_down)
      \o <<"conn_deinit", "msg_deinit", "mbuf_deinit">> \o post_run
unwind(step) ==
  CASE step \in {"log", "daemonize", "signal", "pidfile"} -> post_run
    [] OTHER ->
      (CASE step = "ctx" -> <<>>
         [] step = "conf" -> <<"ctx_free">>
         [] step = "pools" -> <<"conf_destroy", "ctx_free">>
         [] step \in {"limits", "stats"} -> Tail(stats_down)
         [] step = "evb" -> stats_down
         [] step = "preconnect" ->
              <<"server_pool_disconnect", "event_base_destroy">> \o stats_down
         [] step = "proxy" ->
              <<"proxy_deinit", "server_pool_disconnect", "event_base_destroy">> \o stats_down)
      \o <<"conn_deinit", "msg_deinit", "mbuf_deinit">> \o post_run

\* core_stop
stop ==
  <<"conn_deinit", "msg_deinit", "mbuf_deinit", "proxy_deinit",
    "server_pool_disconnect", "event_base_destroy">> \o stats_down \o post_run

fails ==
  /\ pc' = "undo"
  /\ todo' = unwind(pc)
  /\ UNCHANGED <<i, ran>>

-----------------------------------------------------------------------------
\* The steps that acquire one thing each, in order: nc_pre_run, core_start and
\* core_ctx_create.  nc_daemonize and core_calc_connections acquire nothing.
order == <<"log", "daemonize", "signal", "pidfile", "ctx", "conf", "pools", "limits", "stats",
           "evb", "preconnect">>
following(step) == order[1 + (CHOOSE k \in DOMAIN order : order[k] = step)]
acquired(step) ==
  CASE step = "pidfile" -> IF pid_filename THEN {"pidfile"} ELSE {}
    [] step = "ctx" -> {"mbuf", "msg", "conn", "ctx"}
    [] step \in {"daemonize", "limits"} -> {}
    [] OTHER -> {step}

\* nc_create_pidfile sets nci->pidfile before it writes; the others that fail
\* leave nothing, but for the free lists, which core_start sets up first.
acquires ==
  /\ pc \in ToSet(order) \ {"preconnect"}
  /\ \/ /\ held' = held \cup acquired(pc)
        /\ pc' = following(pc)
        /\ UNCHANGED <<i, todo, ran>>
     \/ /\ held' = held \cup (CASE pc = "pidfile" -> acquired(pc)
                                [] pc = "ctx" -> {"mbuf", "msg", "conn"}
                                [] OTHER -> {})
        /\ fails
  /\ UNCHANGED conns

\* _conn_get takes from the free list or allocates; conn_put puts back at the
\* head of the list, and links the head that was.
Faulty_conn_get(c) ==
  IF freeq # <<>>
  THEN c = Head(freeq) /\ UNCHANGED <<alive, freeq>>
  ELSE c \in Conn \ alive /\ alive' = alive \cup {c} /\ UNCHANGED freeq
conn_get(c) ==
  IF freeq # <<>>
  THEN c = Head(freeq) /\ freeq' = Tail(freeq) /\ UNCHANGED alive
  ELSE c \in Conn \ alive /\ alive' = alive \cup {c} /\ UNCHANGED freeq

put(q, cs) == cs \o q
touches_freed(q) == q # <<>> /\ Head(q) \notin alive

\* server_pool_preconnect, pool by pool: a refused connection is closed again,
\* want of memory ends the start.
preconnect ==
  /\ pc = "preconnect"
  /\ \/ /\ \E c \in Conn :
             /\ conn_get(c)
             /\ s_conn' = [s_conn EXCEPT ![i] = c]
             /\ UNCHANGED dangling
        /\ i' = IF i = NPool THEN 1 ELSE i + 1
        /\ pc' = IF i = NPool THEN "proxy" ELSE pc
        /\ UNCHANGED <<todo, ran>>
     \/ /\ \E c \in Conn :
             \/ freeq # <<>> /\ c = Head(freeq) /\ UNCHANGED <<alive, freeq>>
             \/ /\ freeq = <<>> /\ c \in Conn \ alive
                /\ alive' = alive \cup {c} /\ freeq' = <<c>>
        /\ i' = IF i = NPool THEN 1 ELSE i + 1
        /\ pc' = IF i = NPool THEN "proxy" ELSE pc
        /\ UNCHANGED <<todo, ran, s_conn, dangling>>
     \/ fails /\ UNCHANGED <<alive, freeq, s_conn, dangling>>
     \/ /\ pc' = "proxy" /\ i' = 1      \* preconnect: false
        /\ UNCHANGED <<todo, ran, alive, freeq, s_conn, dangling>>
  /\ UNCHANGED <<held, p_conn, c_conn>>

\* proxy_each_init: a listener that cannot be set up is closed at once, and
\* proxy_init closes those before it.
proxy_each_init ==
  /\ pc = "proxy"
  /\ \/ /\ \E c \in Conn : conn_get(c) /\ p_conn' = [p_conn EXCEPT ![i] = c]
        /\ i' = IF i = NPool THEN 1 ELSE i + 1
        /\ pc' = IF i = NPool THEN "run" ELSE pc
        /\ ran' = (i = NPool)
        /\ UNCHANGED todo
     \/ /\ \E c \in Conn :
             \/ freeq # <<>> /\ c = Head(freeq) /\ UNCHANGED <<alive, freeq>>
             \/ /\ freeq = <<>> /\ c \in Conn \ alive
                /\ alive' = alive \cup {c} /\ freeq' = <<c>>
        /\ fails
        /\ UNCHANGED p_conn
     \/ fails /\ UNCHANGED <<alive, freeq, p_conn>>
  /\ UNCHANGED <<held, s_conn, c_conn, dangling>>

-----------------------------------------------------------------------------
\* The event loop: clients come and go, servers are connected and closed.
accepts(p) ==
  /\ pc = "run"
  /\ Cardinality(UNION {c_conn[q] : q \in Pool}) < MaxClients
  /\ \E c \in Conn : conn_get(c) /\ c_conn' = [c_conn EXCEPT ![p] = @ \cup {c}]
  /\ UNCHANGED <<pc, i, todo, held, p_conn, s_conn, ran, dangling>>

client_close(p, c) ==
  /\ pc = "run" /\ c \in c_conn[p]
  /\ c_conn' = [c_conn EXCEPT ![p] = @ \ {c}]
  /\ freeq' = put(freeq, <<c>>)
  /\ dangling' = (dangling \/ touches_freed(freeq))
  /\ UNCHANGED <<pc, i, todo, held, alive, p_conn, s_conn, ran>>

server_conn(p) ==
  /\ pc = "run" /\ s_conn[p] = NoConn
  /\ \E c \in Conn : conn_get(c) /\ s_conn' = [s_conn EXCEPT ![p] = c]
  /\ UNCHANGED <<pc, i, todo, held, p_conn, c_conn, ran, dangling>>

server_close(p) ==
  /\ pc = "run" /\ s_conn[p] # NoConn
  /\ s_conn' = [s_conn EXCEPT ![p] = NoConn]
  /\ freeq' = put(freeq, <<s_conn[p]>>)
  /\ dangling' = (dangling \/ touches_freed(freeq))
  /\ UNCHANGED <<pc, i, todo, held, alive, p_conn, c_conn, ran>>

\* event_wait fails: nc_run leaves its loop.
core_loop_fails ==
  /\ pc = "run"
  /\ pc' = "undo" /\ todo' = stop
  /\ UNCHANGED <<i, held, ran>> /\ UNCHANGED conns

-----------------------------------------------------------------------------
\* Closing the connections of one kind in the order of the pools
closing(which) == SelectSeq([k \in Pool |-> which[k]], LAMBDA c : c # NoConn)

closes(which) ==
  /\ freeq' = put(freeq, Reverse(closing(which)))
  /\ dangling' = (dangling \/ (closing(which) # <<>> /\ touches_freed(freeq)))

\* conn_deinit frees what is on the list, and leaves the list as it was.
released(call) ==
  CASE call = "remove_pidfile" -> {"pidfile"}
    [] call = "signal_deinit" -> {"signal"}
    [] call = "log_deinit" -> {"log"}
    [] call = "event_base_destroy" -> {"evb"}
    [] call = "stats_destroy" -> {"stats"}
    [] call = "server_pool_deinit" -> {"pools"}
    [] call = "conf_destroy" -> {"conf"}
    [] call = "ctx_free" -> {"ctx"}
    [] call = "conn_deinit" -> {"conn"}
    [] call = "msg_deinit" -> {"msg"}
    [] call = "mbuf_deinit" -> {"mbuf"}
    [] OTHER -> {}

undo ==
  /\ pc = "undo" /\ todo # <<>>
  /\ todo' = Tail(todo)
  /\ held' = held \ released(Head(todo))
  /\ alive' = IF Head(todo) = "conn_deinit" THEN alive \ ToSet(freeq) ELSE alive
  /\ \/ /\ Head(todo) = "proxy_deinit"
        /\ closes(p_conn)
        /\ p_conn' = [p \in Pool |-> NoConn]
        /\ UNCHANGED s_conn
     \/ /\ Head(todo) = "server_pool_disconnect"
        /\ closes(s_conn)
        /\ s_conn' = [p \in Pool |-> NoConn]
        /\ UNCHANGED p_conn
     \/ /\ Head(todo) \notin {"proxy_deinit", "server_pool_disconnect"}
        /\ UNCHANGED <<p_conn, s_conn, freeq, dangling>>
  /\ UNCHANGED <<pc, i, c_conn, ran>>

leaves ==
  /\ pc = "undo" /\ todo = <<>>
  /\ pc' = "exit"
  /\ UNCHANGED <<i, todo, held, ran>> /\ UNCHANGED conns

Next ==
  \/ acquires \/ preconnect \/ proxy_each_init
  \/ \E p \in Pool : accepts(p) \/ server_conn(p) \/ server_close(p)
  \/ \E p \in Pool, c \in Conn : client_close(p, c)
  \/ core_loop_fails \/ undo \/ leaves

Spec == Init /\ [][Next]_vars

-----------------------------------------------------------------------------
Open == (UNION {{p_conn[p], s_conn[p]} : p \in Pool}) \ {NoConn}

(***************************************************************************)
(* Whichever step of the start fails, the process gives back all it had:   *)
(* nothing is held at the exit, every connection was freed, and none was   *)
(* put on a list of connections already freed.                             *)
(***************************************************************************)
FailedStartUnwinds ==
  pc = "exit" => held = {} /\ (~ran => alive = {} /\ ~dangling)

(***************************************************************************)
(* What the handlers of a connection use is there as long as a listener or *)
(* a server connection is open: the event base, the statistics and the     *)
(* pools outlive them on every way out.                                    *)
(***************************************************************************)
PartsOutliveConns ==
  Open # {} => {"ctx", "conf", "pools", "stats", "evb"} \subseteq held

(***************************************************************************)
(* A connection has one place: the free list once, a listener, a server or *)
(* a client.                                                               *)
(***************************************************************************)
OnePlace ==
  pc \notin {"undo", "exit"} =>
    /\ \A j, k \in DOMAIN freeq : freeq[j] = freeq[k] => j = k
    /\ ToSet(freeq) \cap (Open \cup UNION {c_conn[p] : p \in Pool}) = {}
    /\ alive = ToSet(freeq) \cup Open \cup UNION {c_conn[p] : p \in Pool}

(***************************************************************************)
(* The free list is a list of connections: one that was freed is not       *)
(* linked to.                                                              *)
(***************************************************************************)
FreeListLives == ~dangling

(***************************************************************************)
(* server_pool_deinit finds a pool without clients, as it asserts.         *)
(***************************************************************************)
PoolsQuiet ==
  pc = "undo" /\ todo # <<>> /\ Head(todo) = "server_pool_deinit" =>
    \A p \in Pool : c_conn[p] = {} /\ p_conn[p] = NoConn
==============================================================================
