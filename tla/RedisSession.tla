---------------------------- MODULE RedisSession ----------------------------
(***************************************************************************)
(* The sessions on both sides of a redis pool: which client may have its   *)
(* requests forwarded (AUTH answered by the proxy), and what the proxy     *)
(* says on its own account to the server before the requests it forwards:  *)
(* the AUTH of redis_add_auth, put before the first request of a           *)
(* connection, and the SELECT of redis_post_connect, put at the head of    *)
(* the queue once the connection is established.  Their replies are        *)
(* swallowed by rsp_filter.  One server with one connection; the server    *)
(* itself is external.  The order of a client's replies is Pipeline's.     *)
(***************************************************************************)
EXTENDS Naturals, Sequences, SequencesExt

CONSTANTS
  Client,        \* client connections of the pool
  MaxReq,        \* bound: requests per client slot
  require_auth,  \* redis_auth: is configured (and required by the server)
  redis_db,      \* redis_db: of the pool
  Completion,    \* how connect() returns: "at_once", "in_progress", "refused"
  Transient,     \* what the server may answer with -OOM, -BUSY or -LOADING
  AllocFails     \* msg_get and mbuf_get may fail

VARIABLES
  authenticated, \* conn->authenticated of the client connections
  password,      \* the last password the client in each slot gave
  n, base,       \* requests read in a slot; those of its earlier clients
  s,             \* the server connection: its state, authenticated and err
  imsg_q, omsg_q,\* its queues of requests to send and to be answered
  redis,         \* the server's session: authenticated, database, what it read
  replies,       \* its replies on their way to the proxy
  ran,           \* the last client's command the server read
  last           \* the last reply passed on to a client

vars == <<authenticated, password, n, base, s, imsg_q, omsg_q, redis,
          replies, ran, last>>
client_vars == <<authenticated, password, n, base>>
server_vars == <<s, imsg_q, omsg_q, redis, replies>>

nothing == [st |-> "none"]

conn_get == [st |-> "none", authenticated |-> FALSE, err |-> FALSE]

NewSession == [authed |-> FALSE, db |-> 0, in |-> <<>>]

Init ==
  /\ authenticated = [cl \in Client |-> FALSE]
  /\ password = [cl \in Client |-> "none"]
  /\ n = [cl \in Client |-> 0] /\ base = [cl \in Client |-> 0]
  /\ s = conn_get /\ imsg_q = <<>> /\ omsg_q = <<>>
  /\ redis = NewSession /\ replies = <<>>
  /\ ran = nothing /\ last = nothing

conn_authenticated(flag) == require_auth => flag

Message(op, cl, trusted) ==
  [op |-> op, client |-> cl, n |-> n'[cl], swallow |-> op # "command",
   trusted |-> trusted]

AUTH(cl) == Message("AUTH", cl, FALSE)

SELECT == [op |-> "SELECT", swallow |-> TRUE]

----------------------------------------------------------------------------
(* the client's side                                                       *)

\* AUTH changes the client's standing, everything else is answered by it
redis_handle_auth_req(cl, given) ==
  /\ password' = [password EXCEPT ![cl] = given]
  /\ authenticated' =
       IF require_auth THEN [authenticated EXCEPT ![cl] = (given = "right")]
                       ELSE authenticated

\* requests the proxy answers itself: AUTH, SET_SLOW_THRESHOLD, PING and
\* SELECT of an authenticated client, and whatever a stranger asks for
redis_reply(cl) ==
  /\ \/ \E given \in {"right", "wrong"} : redis_handle_auth_req(cl, given)
     \/ UNCHANGED <<authenticated, password>>
  /\ last' = [st |-> "local", client |-> cl]
  /\ UNCHANGED <<ran, server_vars>>

Answered(cl, st) == last' = [st |-> st, client |-> cl]

\* server_close: every request queued or sent is answered with an error,
\* the proxy's own are dropped; what the server had not read is lost
server_close ==
  /\ s' = conn_get
  /\ imsg_q' = <<>> /\ omsg_q' = <<>> /\ replies' = <<>>
  /\ redis' = NewSession

\* redis_add_auth and the request, in this order, at the tail of the queue;
\* the connection counts as authenticated from then on
Faulty_enqueue(cl, conn, m) ==
  /\ imsg_q' = imsg_q \o <<m>>
       \o (IF conn_authenticated(conn.authenticated) THEN <<>> ELSE <<AUTH(cl)>>)
  /\ s' = [conn EXCEPT !.authenticated = @ \/ require_auth]

enqueue(cl, conn, m) ==
  /\ imsg_q' = imsg_q
       \o (IF conn_authenticated(conn.authenticated) THEN <<>> ELSE <<AUTH(cl)>>)
       \o <<m>>
  /\ s' = [conn EXCEPT !.authenticated = @ \/ require_auth]

\* no memory for the AUTH: the request fails and the connection is marked
add_auth_fails(cl, conn) ==
  /\ AllocFails /\ ~conn_authenticated(conn.authenticated)
  /\ s' = [conn EXCEPT !.err = TRUE]
  /\ Answered(cl, "error")
  /\ UNCHANGED <<imsg_q, omsg_q, redis, replies>>

req_forward(cl) ==
  LET trusted == ~require_auth \/ password[cl] = "right"
      Conn(st) == [s EXCEPT !.st = st]
      On(conn) == \/ /\ enqueue(cl, conn, Message("command", cl, trusted))
                     /\ UNCHANGED <<omsg_q, redis, replies, last>>
                  \/ add_auth_fails(cl, conn)
  IN /\ \/ s.err /\ server_close /\ Answered(cl, "error")
        \/ s.st = "none" /\ ~s.err /\ "refused" \in Completion
             /\ server_close /\ Answered(cl, "error")
        \/ s.st = "none" /\ ~s.err /\ "at_once" \in Completion
             /\ On(Conn("connected"))
        \/ s.st = "none" /\ ~s.err /\ "in_progress" \in Completion
             /\ On(Conn("connecting"))
        \/ s.st # "none" /\ ~s.err /\ On(s)
     /\ UNCHANGED <<authenticated, password, ran>>

req_recv_done(cl) ==
  /\ n[cl] < MaxReq
  /\ n' = [n EXCEPT ![cl] = @ + 1]
  /\ UNCHANGED base
  /\ \/ redis_reply(cl)
     \/ conn_authenticated(authenticated[cl]) /\ req_forward(cl)

\* client_close: the requests still with the server are swallowed later, and
\* the slot goes to another client
Faulty_client_close(cl) ==
  /\ base' = [base EXCEPT ![cl] = n[cl]]
  /\ authenticated' = [authenticated EXCEPT ![cl] = FALSE]
  /\ password' = [password EXCEPT ![cl] = "none"]
  /\ omsg_q' = [i \in DOMAIN omsg_q |->
                  IF omsg_q[i].op = "command" /\ omsg_q[i].client = cl
                  THEN [omsg_q[i] EXCEPT !.swallow = TRUE] ELSE omsg_q[i]]
  /\ UNCHANGED <<n, s, imsg_q, redis, replies, ran, last>>

Faulty_client_close_keeps(cl) ==
  LET Swallow(q) == [i \in DOMAIN q |->
        IF q[i].op = "command" /\ q[i].client = cl
        THEN [q[i] EXCEPT !.swallow = TRUE] ELSE q[i]]
  IN /\ base' = [base EXCEPT ![cl] = n[cl]]
     /\ password' = [password EXCEPT ![cl] = "none"]
     /\ imsg_q' = Swallow(imsg_q) /\ omsg_q' = Swallow(omsg_q)
     /\ UNCHANGED <<authenticated, n, s, redis, replies, ran, last>>

client_close(cl) ==
  LET Swallow(q) == [i \in DOMAIN q |->
        IF q[i].op = "command" /\ q[i].client = cl
        THEN [q[i] EXCEPT !.swallow = TRUE] ELSE q[i]]
  IN /\ base' = [base EXCEPT ![cl] = n[cl]]
     /\ authenticated' = [authenticated EXCEPT ![cl] = FALSE]
     /\ password' = [password EXCEPT ![cl] = "none"]
     /\ imsg_q' = Swallow(imsg_q) /\ omsg_q' = Swallow(omsg_q)
     /\ UNCHANGED <<n, s, redis, replies, ran, last>>

----------------------------------------------------------------------------
(* the server's side                                                       *)

\* redis_post_connect: SELECT goes ahead of whatever waits for the connection
Faulty_post_connect ==
  IF redis_db = 0 THEN imsg_q ELSE Append(imsg_q, SELECT)

post_connect ==
  IF redis_db = 0 THEN imsg_q ELSE <<SELECT>> \o imsg_q

\* EPOLLOUT: the first one finds the connection established; then k of the
\* queued requests are written
msg_send(k) ==
  /\ s.st # "none" /\ ~s.err
  /\ s' = [s EXCEPT !.st = "connected"]
  /\ \E q \in IF s.st = "connecting"
              THEN {post_connect} \cup (IF AllocFails THEN {imsg_q} ELSE {})
              ELSE {imsg_q} :
       /\ k \in 0 .. Len(q)
       /\ s.st = "connecting" \/ k > 0
       /\ imsg_q' = SubSeq(q, k + 1, Len(q))
       /\ omsg_q' = omsg_q \o SubSeq(q, 1, k)
       /\ redis' = [redis EXCEPT !.in = @ \o SubSeq(q, 1, k)]
  /\ UNCHANGED <<client_vars, replies, ran, last>>

\* rsp_filter and rsp_forward: the reply belongs to the oldest request sent
Faulty_rsp_recv_done ==
  /\ replies # <<>>
  /\ LET req == Head(omsg_q)
         rsp == Head(replies)
     IN /\ replies' = Tail(replies)
        /\ omsg_q' = IF req.swallow /\ rsp.st = "refused" THEN omsg_q
                                                          ELSE Tail(omsg_q)
        /\ last' = IF req.swallow THEN last
                   ELSE [st |-> "reply", client |-> req.client, n |-> req.n,
                         of |-> rsp.of]
        /\ UNCHANGED <<s, imsg_q, redis>>
  /\ UNCHANGED <<client_vars, ran>>

rsp_recv_done ==
  /\ replies # <<>>
  /\ LET req == Head(omsg_q)
         rsp == Head(replies)
     IN \/ /\ rsp.st = "transient"
           /\ server_close
           /\ UNCHANGED last
        \/ /\ rsp.st # "transient"
           /\ replies' = Tail(replies)
           /\ omsg_q' = Tail(omsg_q)
           /\ last' = IF req.swallow THEN last
                      ELSE [st |-> "reply", client |-> req.client,
                            n |-> req.n, of |-> rsp.of]
           /\ UNCHANGED <<s, imsg_q, redis>>
  /\ UNCHANGED <<client_vars, ran>>

\* an error, a timeout or the end of the stream on the server connection
core_close ==
  /\ s.st # "none"
  /\ server_close
  /\ UNCHANGED <<client_vars, ran, last>>

\* the server reads its commands in order; it refuses all but AUTH until the
\* session is authenticated, and may be busy for a while
server_executes ==
  /\ redis.in # <<>>
  /\ LET m == Head(redis.in)
         refused == require_auth /\ ~redis.authed /\ m.op # "AUTH"
     IN \/ /\ redis' = [redis EXCEPT
                 !.in = Tail(@),
                 !.authed = @ \/ m.op = "AUTH",
                 !.db = IF m.op = "SELECT" /\ ~refused THEN redis_db ELSE @]
           /\ replies' = Append(replies,
                [st |-> IF refused THEN "refused" ELSE "ok", of |-> m])
           /\ ran' = IF m.op = "command"
                     THEN [st |-> IF refused THEN "refused" ELSE "ran",
                           trusted |-> m.trusted, db |-> redis.db]
                     ELSE ran
        \/ /\ m.op \in Transient
           /\ redis' = [redis EXCEPT !.in = Tail(@)]
           /\ replies' = Append(replies, [st |-> "transient", of |-> m])
           /\ UNCHANGED ran
  /\ UNCHANGED <<client_vars, s, imsg_q, omsg_q, last>>

Next ==
  \/ \E cl \in Client : req_recv_done(cl) \/ client_close(cl)
  \/ \E k \in 0 .. Len(imsg_q) + 1 : msg_send(k)
  \/ rsp_recv_done \/ core_close \/ server_executes

Spec == Init /\ [][Next]_vars

----------------------------------------------------------------------------
\* Every command that reaches the server comes from a client whose last
\* password was the right one (req_filter, and client_close and conn_get
\* leaving nothing of it to the next client in the slot).
Trusted == ran.st # "none" => ran.trusted

\* No client's command is refused for want of the proxy's own AUTH: on every
\* connection AUTH goes first, whatever failed or was closed before it
\* (redis_add_auth, conn_get).
NotRefused == ran.st # "refused"

\* A client only gets the reply of its own request: the replies to AUTH and
\* SELECT and to the requests of a client that has gone are swallowed, and
\* leave the later replies matched (rsp_filter).
OwnReply ==
  last.st = "reply" =>
    /\ last.of.op = "command"
    /\ last.of.client = last.client /\ last.of.n = last.n

\* What is passed on to a slot was asked by the client that is in it now.
NotToSuccessor ==
  [][last' # last /\ last'.st = "reply" => last'.n > base[last'.client]]_vars

\* "redis database to connect to" (nc_server.h:114): every command runs in
\* the database of the pool.
DbSelected == ran.st = "ran" => ran.db = redis_db
=============================================================================
