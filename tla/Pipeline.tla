------------------------------ MODULE Pipeline ------------------------------
(***************************************************************************)
(* The request pipeline of one worker process: client connections, server  *)
(* connections, the requests and fragments that move between their queues, *)
(* and the request timeouts.  The process is a single threaded event loop, *)
(* so every action below is one callback of core_core() or one iteration   *)
(* of core_timeout(), and is atomic.                                       *)
(*                                                                         *)
(* A client's out queue (omsg_q) holds requests in arrival order; the      *)
(* fragments of a request vector stand directly behind it, so outq[c] is a *)
(* sequence of requests and the fragments of n are the live messages       *)
(* <<n, i>> with i > 0.                                                    *)
(*                                                                         *)
(* A definition named Faulty_... is the one below it with a plausible bug; *)
(* it is used for mutation testing only.                                   *)
(***************************************************************************)
EXTENDS Integers, FiniteSets, Sequences, Functions

CONSTANTS
    Client,         \* slots for client connections (ctx->max_ncconn)
    SConn,          \* slots for server connections, of all servers
    NoConn,         \* NULL: no connection
    MaxReq,         \* bound: requests over the whole run
    MaxFrag,        \* bound: fragments of one request vector
    ReqKind,        \* the kinds of request clients send
    PoolMayRefuse,  \* may server_pool_conn() return NULL?
    HasTimeout,     \* is "timeout:" configured for the pool?
    NoticeLogged    \* is the log level LOG_NOTICE (the default) or above?

Vector == {"mget", "mset"}     \* mset stands for DEL and MSET alike
Kind == {"single", "noreply", "local"} \cup Vector

ASSUME ConstAssumption ==
    /\ MaxReq \in Nat /\ MaxFrag \in Nat
    /\ NoConn \notin SConn /\ NoConn \notin Client
    /\ ReqKind \subseteq Kind
    /\ PoolMayRefuse \in BOOLEAN
    /\ HasTimeout \in BOOLEAN
    /\ NoticeLogged \in BOOLEAN

Req == 1..MaxReq
Msg == Req \X (0..MaxFrag)

(***************************************************************************)
(* <<n, 0>> is request n as the client sent it, <<n, i>> its i-th          *)
(* fragment.  A response is the set of backend answers it is made of; the  *)
(* two responses the proxy writes itself have a name each.  An empty set   *)
(* is no response, NullMsg no message.                                     *)
(***************************************************************************)
Top(n) == <<n, 0>>
NullMsg == <<0, 0>>
ErrRsp == <<0, 1>>
LocalRsp == <<0, 2>>
Response == SUBSET (Msg \cup {ErrRsp, LocalRsp})

VARIABLES
    nreq,       \* requests received so far
    kind,       \* kind[n]: what request n asks for
    nfrag,      \* nfrag[n]: number of fragments of n (msg->nfrag)
    owner,      \* owner[n]: client connection of n (msg->owner)
    live,       \* messages that are allocated, i.e. not in free_msgq
    done,       \* msg->done
    error,      \* msg->error
    swallow,    \* msg->swallow
    fdone,      \* vectors whose fragments are all answered (msg->fdone)
    ferror,     \* vectors marked in error (msg->ferror)
    nfrag_done, \* frag_owner->nfrag_done
    peer,       \* msg->peer: the response, {} for NULL
    fwd         \* the message req_recv_done() forwards next, in its loop

VARIABLES
    open,       \* client connections that are open
    outq,       \* client omsg_q
    eof,        \* clients whose sending half is closed (conn->eof)
    cerr,       \* clients with conn->err set
    cact,       \* clients with write interest registered (send_active)
    half        \* clients whose head reply is partly written

VARIABLES
    sstate,     \* server connection: closed, connecting or connected
    inq,        \* server imsg_q
    svq,        \* server omsg_q
    sact,       \* server connections with write interest registered
    tmo,        \* the timeout tree: pairs <<message, server connection>>
    backend     \* requests on the wire, in order, not answered yet

VARIABLES
    asked,      \* history: requests of this connection that want a reply
    got,        \* history: requests whose reply is completely written
    torn,       \* history: clients that saw a reply cut off and restarted
    crashed     \* the worker dereferenced NULL in req_log()

msgVars == <<nreq, kind, nfrag, owner, live, done, error, swallow, fdone,
             ferror, nfrag_done, peer, fwd>>
cliVars == <<open, outq, eof, cerr, cact, half>>
srvVars == <<sstate, inq, svq, sact, tmo, backend>>
hisVars == <<asked, got, torn, crashed>>
vars == <<msgVars, cliVars, srvVars, hisVars>>

(* Every variable has its type: Types all but the counters of the vectors, *)
(* of which it says that each request has one, and TypeOK that they count. *)
Types ==
    /\ nreq \in 0..MaxReq
    /\ kind \in [Req -> Kind]
    /\ nfrag \in [Req -> 0..MaxFrag]
    /\ owner \in [Req -> Client \cup {NoConn}]
    /\ live \subseteq Msg /\ done \subseteq Msg /\ error \subseteq Msg
    /\ swallow \subseteq Msg /\ fdone \subseteq Req /\ ferror \subseteq Req
    /\ nfrag_done = [n \in Req |-> nfrag_done[n]]
    /\ peer \in [Msg -> Response]
    /\ fwd \in Msg \cup {NullMsg}
    /\ open \subseteq Client /\ eof \subseteq Client /\ cerr \subseteq Client
    /\ cact \subseteq Client /\ half \subseteq Client /\ torn \subseteq Client
    /\ outq \in [Client -> Seq(Req)]
    /\ asked \in [Client -> Seq(Req)] /\ got \in [Client -> Seq(Req)]
    /\ sstate \in [SConn -> {"closed", "connecting", "connected"}]
    /\ inq \in [SConn -> Seq(Msg)] /\ svq \in [SConn -> Seq(Msg)]
    /\ backend \in [SConn -> Seq(Msg)]
    /\ sact \subseteq SConn
    /\ tmo \subseteq Msg \X SConn
    /\ crashed \in BOOLEAN

TypeOK == Types /\ nfrag_done \in [Req -> Nat]

(***************************************************************************)
(* Nothing is connected to the proxy yet; server_pool_preconnect() may     *)
(* have opened some of the server connections.                             *)
(***************************************************************************)
Init ==
    /\ nreq = 0
    /\ kind = [n \in Req |-> "single"]
    /\ nfrag = [n \in Req |-> 0]
    /\ owner = [n \in Req |-> NoConn]
    /\ live = {} /\ done = {} /\ error = {} /\ swallow = {}
    /\ fdone = {} /\ ferror = {}
    /\ nfrag_done = [n \in Req |-> 0]
    /\ peer = [m \in Msg |-> {}]
    /\ fwd = NullMsg
    /\ open = {} /\ eof = {} /\ cerr = {} /\ cact = {} /\ half = {}
    /\ outq = [c \in Client |-> <<>>]
    /\ sstate \in [SConn -> {"closed", "connecting"}]
    /\ sact = {s \in SConn : sstate[s] = "connecting"}
    /\ inq = [s \in SConn |-> <<>>] /\ svq = [s \in SConn |-> <<>>]
    /\ backend = [s \in SConn |-> <<>>]
    /\ tmo = {}
    /\ asked = [c \in Client |-> <<>>] /\ got = [c \in Client |-> <<>>]
    /\ torn = {} /\ crashed = FALSE

-----------------------------------------------------------------------------

(***************************************************************************)
(* req_done() and req_error() on request n, with the done flags and the    *)
(* fragment counters of the moment of the call.                            *)
(***************************************************************************)
Frags(n) == {m \in live : m[1] = n /\ m[2] > 0}

Faulty_req_done(n, dn, nd) == Top(n) \in dn

req_done(n, dn, nd) ==
    /\ Top(n) \in dn
    /\ kind[n] \in Vector => \/ n \in fdone
                             \/ nd[n] >= nfrag[n] /\ Frags(n) \subseteq dn

req_error(n) ==
    \/ Top(n) \in error
    \/ kind[n] \in Vector /\ (n \in ferror \/ \E f \in Frags(n) : f \in error)

(***************************************************************************)
(* A vector found done for the first time is coalesced: its response is    *)
(* put together from those of the fragments.  An MGET with a fragment that *)
(* has no response gives up by setting the client connection's err.  H is  *)
(* the set of requests req_done() is called on, pr the responses by then.  *)
(***************************************************************************)
Completed(H, dn, nd) ==
    {n \in H : kind[n] \in Vector /\ n \notin fdone /\ req_done(n, dn, nd)}

Coalesce(V, pr) ==
    [m \in Msg |-> IF m[2] = 0 /\ m[1] \in V
                   THEN UNION {pr[f] : f \in Frags(m[1])} ELSE pr[m]]

CoalesceErr(V, pr) ==
    {c \in Client : \E n \in V : /\ owner[n] = c /\ kind[n] = "mget"
                                 /\ \E f \in Frags(n) : pr[f] = {}}

(***************************************************************************)
(* Whoever completes a message looks at the head of its client's queue and *)
(* registers write interest if the head is done.                           *)
(***************************************************************************)
Heads(C) == {outq[c][1] : c \in {x \in C : outq[x] # <<>>}}

Faulty_WriteReady(C, dn, nd) == {c \in C : outq[c] # <<>> /\ outq[c][1] \in fdone}

WriteReady(C, dn, nd) ==
    {c \in C : outq[c] # <<>> /\ req_done(outq[c][1], dn, nd)}

Notify(C, dn, nd, pr) ==
    LET new == Completed(Heads(C), dn, nd)
    IN  /\ fdone' = fdone \cup new
        /\ peer' = Coalesce(new, pr)
        /\ cerr' = cerr \cup CoalesceErr(new, pr)
        /\ cact' = cact \cup WriteReady(C, dn, nd)

(***************************************************************************)
(* req_put() on the messages S: the timeout entries go with them, and      *)
(* req_log() follows the response of a request that has keys, be it there  *)
(* or not; the worker crashes unless the compiler moved that load behind   *)
(* the returns that follow it.  msg_tmo_insert() starts the clock of a     *)
(* message on its way to server connection s.                              *)
(***************************************************************************)
req_log(S, pr) ==
    crashed' \in {FALSE, NoticeLogged /\ \E m \in S : /\ m[2] = 0 /\ pr[m] = {}
                                                      /\ kind[m[1]] \in {"single", "noreply"}}

Faulty_TmoOf(S) == {}

TmoOf(S) == {t \in tmo : t[1] \in S}

Faulty_msg_tmo_insert(m, s) ==
    IF HasTimeout /\ inq[s] = <<>> THEN {<<m, s>>} ELSE {}

msg_tmo_insert(m, s) ==
    IF HasTimeout /\ kind[m[1]] # "noreply" THEN {<<m, s>>} ELSE {}

(***************************************************************************)
(* The queues of a connection are fifo.                                    *)
(***************************************************************************)
Faulty_enqueue(q, x) == <<x>> \o q

enqueue(q, x) == Append(q, x)

Faulty_Swallowed(m) == FALSE

Swallowed(m) == m \in swallow

-----------------------------------------------------------------------------
(* proxy_accept(): a connection starts with read and write interest.       *)
Accept(c) ==
    /\ c \notin open
    /\ open' = open \cup {c}
    /\ cact' = cact \cup {c}
    /\ asked' = [asked EXCEPT ![c] = <<>>]
    /\ got' = [got EXCEPT ![c] = <<>>]
    /\ torn' = torn \ {c}
    /\ UNCHANGED <<msgVars, outq, eof, cerr, half, srvVars, crashed>>

(***************************************************************************)
(* client_close() with q what is left in the out queue and lv the live     *)
(* messages: what is done is freed, the rest will be swallowed when the    *)
(* server answers.                                                         *)
(***************************************************************************)
Faulty_Queued(q, lv) == {m \in lv : q # <<>> /\ m[1] = q[1]}

Queued(q, lv) == {m \in lv : m[1] \in Range(q)}

client_close(c, q, lv) ==
    /\ live' = lv \ (Queued(q, lv) \cap done)
    /\ swallow' = swallow \cup (Queued(q, lv) \ done)
    /\ tmo' = tmo \ TmoOf(live \ live')
    /\ open' = open \ {c}
    /\ eof' = eof \ {c}
    /\ cact' = cact \ {c}
    /\ half' = half \ {c}
    /\ outq' = [outq EXCEPT ![c] = <<>>]
    /\ cerr' = cerr \ {c}

(***************************************************************************)
(* req_recv_done(): a request is parsed.  A PING or the like is answered   *)
(* here; everything else is forwarded, in fragments if it is a vector.  A  *)
(* read event may bring several requests; ClientError stands for the close *)
(* at its end if conn->err is set by then.                                 *)
(***************************************************************************)
ClientRecv(c, k, nf) ==
    LET n == nreq + 1
        new == {Top(n)} \cup {<<n, i>> : i \in 1..nf}
    IN  /\ c \in open \ eof
        /\ nreq < MaxReq
        /\ nf > 0 <=> k \in Vector
        /\ nreq' = n
        /\ kind' = [kind EXCEPT ![n] = k]
        /\ nfrag' = [nfrag EXCEPT ![n] = nf]
        /\ owner' = [owner EXCEPT ![n] = c]
        /\ live' = live \cup new
        /\ done' = IF k \in Vector \cup {"local"} THEN done \cup {Top(n)} ELSE done
        /\ peer' = IF k = "local" THEN [peer EXCEPT ![Top(n)] = {LocalRsp}] ELSE peer
        /\ cact' = IF k = "local" THEN cact \cup {c} ELSE cact
        /\ fwd' = CASE k = "local" -> NullMsg
                    [] k \in Vector -> <<n, 1>>
                    [] OTHER -> Top(n)
        /\ outq' = IF k = "noreply" THEN outq ELSE [outq EXCEPT ![c] = enqueue(@, n)]
        /\ asked' = IF k = "noreply" THEN asked ELSE [asked EXCEPT ![c] = Append(@, n)]
        /\ UNCHANGED <<error, swallow, fdone, ferror, nfrag_done, open, eof,
                       cerr, half, srvVars, got, torn, crashed>>

(***************************************************************************)
(* req_forward() of the message at hand, to the connection the pool picks. *)
(***************************************************************************)
NextFwd == IF fwd[2] > 0 /\ fwd[2] < nfrag[fwd[1]]
           THEN <<fwd[1], fwd[2] + 1>> ELSE NullMsg

Forward(s) ==
    /\ fwd # NullMsg
    /\ fwd' = NextFwd
    /\ sstate' = IF sstate[s] = "closed"
                 THEN [sstate EXCEPT ![s] = "connecting"] ELSE sstate
    /\ sact' = IF inq[s] = <<>> THEN sact \cup {s} ELSE sact
    /\ inq' = [inq EXCEPT ![s] = enqueue(@, fwd)]
    /\ tmo' = tmo \cup msg_tmo_insert(fwd, s)
    /\ UNCHANGED <<nreq, kind, nfrag, owner, live, done, error, swallow, fdone,
                   ferror, nfrag_done, peer, cliVars, svq, backend, hisVars>>

(* req_forward_error(): server_pool_conn() returned NULL.                  *)
ForwardError ==
    /\ fwd # NullMsg
    /\ PoolMayRefuse
    /\ fwd' = NextFwd
    /\ done' = done \cup {fwd}
    /\ error' = error \cup {fwd}
    /\ IF kind[fwd[1]] = "noreply"
       THEN /\ live' = live \ {fwd}
            /\ req_log({fwd}, peer)
            /\ UNCHANGED <<fdone, peer, cerr, cact>>
       ELSE /\ Notify({owner[fwd[1]]}, done', nfrag_done, peer)
            /\ UNCHANGED <<live, crashed>>
    /\ UNCHANGED <<nreq, kind, nfrag, owner, swallow, ferror, nfrag_done,
                   open, outq, eof, half, srvVars, asked, got, torn>>

(***************************************************************************)
(* The client closes its sending half or says quit.  The connection is     *)
(* closed at once if nothing is outstanding on it.                         *)
(***************************************************************************)
ClientEof(c) ==
    /\ c \in open \ eof
    /\ IF outq[c] = <<>> \/ c \in cerr
       THEN client_close(c, outq[c], live) /\ req_log(live \ live', peer)
       ELSE /\ eof' = eof \cup {c}
            /\ UNCHANGED <<live, swallow, tmo, open, cact, half, outq, cerr, crashed>>
    /\ UNCHANGED <<nreq, kind, nfrag, owner, done, error, fdone, ferror,
                   nfrag_done, peer, fwd, sstate, inq, svq, sact, backend,
                   asked, got, torn>>

(* The client connection fails: core_error(), or recv or send in error.    *)
ClientError(c) ==
    /\ c \in open
    /\ client_close(c, outq[c], live)
    /\ req_log(live \ live', peer)
    /\ UNCHANGED <<nreq, kind, nfrag, owner, done, error, fdone, ferror,
                   nfrag_done, peer, fwd, sstate, inq, svq, sact, backend,
                   asked, got, torn>>

(* Nothing is outstanding and nothing will come: the connection is done.   *)
Faulty_Finished(c, q) == FALSE

Finished(c, q) == q = <<>> /\ c \in eof

(***************************************************************************)
(* msg_send() on a client connection: the replies of the r requests at the *)
(* head of the queue that are done form one chain, of which the socket     *)
(* takes k completely and, if p, a part of the next.  Building the chain   *)
(* coalesces vectors and makes the error replies anew; it also ends the    *)
(* fragments of all r, whose own responses are empty by then.              *)
(***************************************************************************)
ClientSend(c, r, k, p) ==
    LET ready == {outq[c][i] : i \in 1..r}
        new == Completed(ready, done, nfrag_done)
        failed == {n \in ready : req_error(n)}
        left == {m \in live : IF m[2] > 0 THEN m[1] \notin ready
                              ELSE \A i \in 1..k : m[1] # outq[c][i]}
        rest == SubSeq(outq[c], k + 1, Len(outq[c]))
    IN  /\ c \in open \cap cact
        /\ \A i \in 1..r : req_done(outq[c][i], done, nfrag_done)
        /\ r < Len(outq[c]) => ~req_done(outq[c][r + 1], done, nfrag_done)
        /\ p => k < r
        /\ fdone' = fdone \cup new
        /\ ferror' = ferror \cup {n \in failed : kind[n] \in Vector}
        /\ peer' = [m \in Msg |-> IF m[2] = 0 /\ m[1] \in failed
                                  THEN {ErrRsp} ELSE Coalesce(new, peer)[m]]
        /\ got' = [got EXCEPT ![c] = @ \o SubSeq(outq[c], 1, k)]
        /\ torn' = IF c \in half /\ outq[c][1] \in failed /\ (k > 0 \/ p)
                   THEN torn \cup {c} ELSE torn
        /\ IF \/ c \in cerr \cup CoalesceErr(new, peer)
              \/ Finished(c, rest)
           THEN client_close(c, rest, left)
           ELSE /\ live' = left
                /\ tmo' = tmo \ TmoOf(live \ left)
                /\ outq' = [outq EXCEPT ![c] = rest]
                /\ cact' = IF k = r THEN cact \ {c} ELSE cact
                /\ half' = IF p \/ (c \in half /\ k = 0)
                           THEN half \cup {c} ELSE half \ {c}
                /\ UNCHANGED <<swallow, open, eof, cerr>>
        /\ req_log(live \ live', peer')
        /\ UNCHANGED <<nreq, kind, nfrag, owner, done, error, nfrag_done, fwd,
                       sstate, inq, svq, sact, backend, asked>>

-----------------------------------------------------------------------------
(***************************************************************************)
(* msg_send() on a server connection, one request at a time: the connect   *)
(* is noticed, the request is put on the wire and waits in the out queue.  *)
(* A noreply request is freed.                                             *)
(***************************************************************************)
ServerSend(s) ==
    /\ s \in sact
    /\ sstate' = [sstate EXCEPT ![s] = "connected"]
    /\ IF inq[s] = <<>>
       THEN /\ sact' = sact \ {s}
            /\ UNCHANGED <<live, inq, svq, backend, tmo, crashed>>
       ELSE LET m == Head(inq[s])
            IN  /\ inq' = [inq EXCEPT ![s] = Tail(@)]
                /\ sact' = IF Tail(inq[s]) = <<>> THEN sact \ {s} ELSE sact
                /\ IF kind[m[1]] = "noreply"
                   THEN /\ live' = live \ {m}
                        /\ tmo' = tmo \ TmoOf({m})
                        /\ req_log({m}, peer)
                        /\ UNCHANGED <<svq, backend>>
                   ELSE /\ svq' = [svq EXCEPT ![s] = enqueue(@, m)]
                        /\ backend' = [backend EXCEPT ![s] = Append(@, m)]
                        /\ UNCHANGED <<live, tmo, crashed>>
    /\ UNCHANGED <<nreq, kind, nfrag, owner, done, error, swallow, fdone, ferror,
                   nfrag_done, peer, fwd, cliVars, asked, got, torn>>

(***************************************************************************)
(* rsp_recv_done(): the backend's next answer is paired with the request   *)
(* at the head of the out queue.  If the client is gone the answer is      *)
(* swallowed.  bad: the answer is of a type no fragment expects.           *)
(***************************************************************************)
ServerRecv(s, bad) ==
    /\ backend[s] # <<>> /\ svq[s] # <<>>
    /\ LET m == Head(svq[s])
           n == m[1]
           nd == IF m[2] > 0 THEN [nfrag_done EXCEPT ![n] = @ + 1] ELSE nfrag_done
       IN  /\ bad => m[2] > 0
           /\ backend' = [backend EXCEPT ![s] = Tail(@)]
           /\ svq' = [svq EXCEPT ![s] = Tail(@)]
           /\ tmo' = tmo \ TmoOf({m})
           /\ done' = done \cup {m}
           /\ IF Swallowed(m)
              THEN /\ live' = live \ {m}
                   /\ req_log({m}, peer)
                   /\ UNCHANGED <<error, nfrag_done, fdone, peer, cerr, cact>>
              ELSE /\ error' = IF bad THEN error \cup {m} ELSE error
                   /\ nfrag_done' = nd
                   /\ Notify({owner[n]}, done', nd,
                             [peer EXCEPT ![m] = {Head(backend[s])}])
                   /\ UNCHANGED <<live, crashed>>
    /\ UNCHANGED <<nreq, kind, nfrag, owner, swallow, ferror, fwd, open, outq, eof,
                   half, sstate, inq, sact, asked, got, torn>>

Faulty_FragsIn(n, S) == {m \in S : m[1] = n /\ m[2] = 1}

FragsIn(n, S) == {m \in S : m[1] = n /\ m[2] > 0}

(***************************************************************************)
(* server_close(): what is left in the queues fails, unless nobody waits   *)
(* for it, and the answers still on the wire are lost with the connection. *)
(***************************************************************************)
server_close(s, tm) ==
    LET pending == Range(inq[s]) \cup Range(svq[s])
        gone == {m \in pending : Swallowed(m) \/ kind[m[1]] = "noreply"}
        failed == pending \ gone
        nd == [n \in Req |-> nfrag_done[n] + Cardinality(FragsIn(n, failed))]
    IN  /\ live' = live \ gone
        /\ req_log(gone, peer)
        /\ done' = done \cup failed
        /\ error' = error \cup failed
        /\ nfrag_done' = nd
        /\ Notify({owner[m[1]] : m \in failed}, done', nd, peer)
        /\ tmo' = {t \in tm : t[1] \notin gone \cup Range(svq[s])}
        /\ sstate' = [sstate EXCEPT ![s] = "closed"]
        /\ sact' = sact \ {s}
        /\ inq' = [inq EXCEPT ![s] = <<>>]
        /\ svq' = [svq EXCEPT ![s] = <<>>]
        /\ backend' = [backend EXCEPT ![s] = <<>>]
        /\ UNCHANGED <<nreq, kind, nfrag, owner, swallow, ferror, fwd,
                       open, outq, eof, half, asked, got, torn>>

(***************************************************************************)
(* The server connection ends: the backend closed or reset it, refused the *)
(* connect, or sent an answer that rsp_filter() takes for a failure.       *)
(***************************************************************************)
ServerError(s) ==
    /\ sstate[s] # "closed"
    /\ server_close(s, tmo)

(***************************************************************************)
(* core_timeout(): an expired entry takes its server connection down; the  *)
(* entry of a request that is done or failed is just dropped.              *)
(***************************************************************************)
CoreTimeout(m, s) ==
    /\ <<m, s>> \in tmo
    /\ IF m \in done \cup error
       THEN /\ tmo' = tmo \ {<<m, s>>}
            /\ UNCHANGED <<msgVars, cliVars, sstate, inq, svq, sact, backend, hisVars>>
       ELSE server_close(s, tmo \ {<<m, s>>})

-----------------------------------------------------------------------------
Callback ==
    \/ \E c \in Client : Accept(c) \/ ClientEof(c) \/ ClientError(c)
    \/ \E c \in Client, k \in ReqKind, nf \in 0..MaxFrag : ClientRecv(c, k, nf)
    \/ \E c \in Client : \E r \in 0..Len(outq[c]) : \E k \in 0..r, p \in BOOLEAN :
           ClientSend(c, r, k, p)
    \/ \E s \in SConn : ServerSend(s) \/ ServerError(s)
    \/ \E s \in SConn, bad \in BOOLEAN : ServerRecv(s, bad)
    \/ \E m \in Msg, s \in SConn : CoreTimeout(m, s)

Next ==
    /\ ~crashed
    /\ \/ \E s \in SConn : Forward(s)
       \/ ForwardError
       \/ fwd = NullMsg /\ Callback

Spec == Init /\ [][Next]_vars

(***************************************************************************)
(* Fairness.  A client keeps reading, so a chain that is offered to its    *)
(* socket is in the end taken whole; the clock keeps running, so an entry  *)
(* of the timeout tree expires; the forwarding loop goes on.  Nothing is   *)
(* assumed of the backends.                                                *)
(***************************************************************************)
Flush(c) == /\ ~crashed /\ fwd = NullMsg
            /\ \E r \in 0..Len(outq[c]) : ClientSend(c, r, r, FALSE)

Expire == /\ ~crashed /\ fwd = NullMsg
          /\ \E m \in Msg, s \in SConn : CoreTimeout(m, s)

Forwarding == ~crashed /\ (ForwardError \/ \E s \in SConn : Forward(s))

Fairness == /\ \A c \in Client : WF_vars(Flush(c))
            /\ WF_vars(Expire)
            /\ WF_vars(Forwarding)

FairSpec == Spec /\ Fairness

-----------------------------------------------------------------------------
Waiting(s) == Range(inq[s]) \cup Range(svq[s])

Parts(n) == IF kind[n] \in Vector THEN {<<n, i>> : i \in 1..nfrag[n]} ELSE {Top(n)}

(* On an open client connection the replies written so far and the         *)
(* requests still queued are, in this order, what the client asked: no     *)
(* reply overtakes, repeats or skips another (nc_connection.c, the fifo of *)
(* the client's out_q).                                                    *)
ReplyOrder == \A c \in open : asked[c] = got[c] \o outq[c]

(* A reply that was written consists of the backends' answers to exactly   *)
(* the parts of its own request, or is an error if any part failed, no     *)
(* matter which other clients, closed connections and timeouts shared the  *)
(* server connection (rsp_filter, rsp_forward, req_error).                 *)
RightReply ==
    \A c \in Client : \A n \in Range(got[c]) :
        peer[Top(n)] = IF \E m \in Parts(n) : m \in error THEN {ErrRsp}
                       ELSE IF kind[n] = "local" THEN {LocalRsp} ELSE Parts(n)

(* What waits on a server connection is allocated and not done (the        *)
(* assertions of req_send_next and rsp_filter), and unless it is to be     *)
(* swallowed or wants no reply, its client is connected and still queues   *)
(* the request: following msg->owner and msg->frag_owner is safe.          *)
WaitingIsOwned ==
    \A s \in SConn : \A m \in Waiting(s) :
        /\ m \in live \ done
        /\ \/ m \in swallow
           \/ kind[m[1]] = "noreply"
           \/ owner[m[1]] \in open /\ m[1] \in Range(outq[owner[m[1]]])

(* Every allocated message can be reached from a queue, so that somebody   *)
(* will free it; a swallowed or noreply one only from a server connection. *)
NoLeak ==
    \A m \in live :
        \/ \E s \in SConn : m \in Waiting(s)
        \/ /\ m \notin swallow
           /\ \/ m[1] = fwd[1]
              \/ \E c \in open : m[1] \in Range(outq[c])

(* No message is used after it was freed and none is lost, however far it  *)
(* got when its client or its server closed (client_close, server_close).  *)
MessagesOwned == WaitingIsOwned /\ NoLeak

(* An entry of the timeout tree belongs to an allocated message, and if    *)
(* that message is still pending the connection stored with it is open and *)
(* holds the message: core_timeout() closes no other connection.           *)
TimeoutEntries ==
    \A t \in tmo :
        /\ t[1] \in live
        /\ t[1] \in done \/ (sstate[t[2]] # "closed" /\ t[1] \in Waiting(t[2]))

(* With a timeout configured, every request on a server connection that    *)
(* wants a reply has its clock running (req_server_enqueue_imsgq).         *)
ClockRuns ==
    HasTimeout =>
        \A s \in SConn : \A m \in Waiting(s) :
            kind[m[1]] = "noreply" \/ <<m, s>> \in tmo

(* The timeout tree closes the right connection, and any that is silent    *)
(* (msg_tmo_insert, msg_tmo_delete, core_timeout).                         *)
TimeoutsRight == TimeoutEntries /\ ClockRuns

(* Nothing waits for an event that the edge triggered loop will not have   *)
(* again: write interest is registered wherever there is something to      *)
(* write, and a client that closed its half stays only as long as it waits *)
(* for a reply (req_recv_next, rsp_send_next).                             *)
NoLostWakeup ==
    /\ \A c \in open : outq[c] # <<>> /\ req_done(outq[c][1], done, nfrag_done) => c \in cact
    /\ \A s \in SConn : inq[s] # <<>> => s \in sact
    /\ \A c \in open \cap eof : outq[c] # <<>>

(* A request vector is done if all its fragments are: the comment of       *)
(* req_done().                                                             *)
VectorDone ==
    \A c \in open : \A n \in Range(outq[c]) :
        kind[n] \in Vector /\ n # fwd[1] /\ Parts(n) \subseteq done
            => req_done(n, done, nfrag_done)

(* A reply of which a part was written is continued, not restarted: "mbuf  *)
(* was sent partially; process remaining bytes later".                     *)
PartialReplyContinues == torn = {}

(* Freeing a request does not bring the worker down (req_put, req_log).    *)
NoCrash == ~crashed

Service == INSTANCE ReplyService

(* The pipeline, with its servers and fragments hidden, does what          *)
(* ReplyService promises: each client gets the replies to what it asked,   *)
(* in order (req_recv_done to rsp_send_done).                              *)
ServiceSpec == Service!Spec

(* Every request that waits for a reply gets one, or its connection goes,  *)
(* even if the backends never answer.                                      *)
EveryRequestEnds ==
    \A c \in Client, n \in Req : n \in Range(outq[c]) ~> n \notin Range(outq[c])

(* A half-closed connection is closed in the end.                          *)
HalfCloseEnds == \A c \in Client : c \in eof ~> c \notin open

(* Requests and the connections that made them come to an end, through the *)
(* event loop and the timeouts alone (core_loop, core_timeout).            *)
AllEnds == EveryRequestEnds /\ HalfCloseEnds
=============================================================================
