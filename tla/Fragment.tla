------------------------------ MODULE Fragment ------------------------------
(***************************************************************************)
(* A request with many keys is cut into one fragment for each server that  *)
(* holds some of them, and the replies are joined into one (fragment,      *)
(* pre_coalesce and post_coalesce of proto/nc_redis.c and nc_memcache.c,   *)
(* called by req_recv_done of nc_request.c and by rsp_forward and req_done *)
(* as replies come in).  Pipeline models which fragments are sent, lost    *)
(* and counted; here it is what they carry.                                *)
(*                                                                         *)
(* The servers are external: they hold values and answer in order.  The    *)
(* table that maps keys to servers is rebuilt by server_pool_update, which *)
(* each req_forward calls through server_pool_conn.                        *)
(***************************************************************************)
EXTENDS Naturals, Sequences, FiniteSets, SequencesExt, FiniteSetsExt

CONSTANTS Server,     \* continuum indices, 0..n-1
          Key,
          Requests,   \* what the client may send: [type, keys]
          Stores,     \* what the servers may hold: Server -> Key -> value or 0
          Routes,     \* the tables: Key -> Server
          Rebuilt,    \* the tables a rebuild may put in the place of another
          AllocFails  \* whether an allocation may fail while fragmenting

VARIABLES req,       \* the request
          home,      \* the table when the request was cut
          table,     \* the table when its fragments were forwarded
          store,     \* what the servers hold
          before,    \* what they held when the request came
          frags,     \* the fragments: [at, server, st, rsp], at the positions
                     \* of their keys, st "wait", "ok" or "error"
          frag_seq,  \* the fragment of each key position
          integer,   \* the sum of the integer replies (struct msg of req)
          outq,      \* the client's omsg_q: the request 0 and its fragments
          reply      \* what the client is answered: [st, rsp]

vars == <<req, home, table, store, before, frags, frag_seq, integer, outq, reply>>

\* A reply is a sequence of values (0 for nil), <<count>>, or empty for +OK.
waiting == [st |-> "wait", rsp |-> <<>>]
failure == [st |-> "error", rsp |-> <<>>]

redis == req.type # "get"
n == Len(req.keys)

Init == /\ req \in Requests
        /\ home \in Routes /\ table = home
        /\ store \in Stores
        /\ before = store
        /\ frags = <<>> /\ frag_seq = <<>>
        /\ integer = 0
        /\ outq = <<>>
        /\ reply = waiting

-----------------------------------------------------------------------------
(* Cutting the request.                                                    *)

idx(t, i) == t[req.keys[i]]

Positions == [i \in 1..n |-> i]

\* A fragment for each run of keys with one server.
Faulty_fragment ==
    IF redis /\ n = 1 THEN <<>>
    ELSE LET starts == SetToSortSeq({i \in 1..n : i = 1 \/ idx(home, i) # idx(home, i - 1)}, <)
         IN [j \in 1..Len(starts) |->
               SubSeq(Positions, starts[j],
                      IF j = Len(starts) THEN n ELSE starts[j + 1] - 1)]

\* Fragments in the order of the servers, their keys in the order of the
\* request.  A redis request with one key is sent as it is.
fragment ==
    IF redis /\ n = 1 THEN <<>>
    ELSE LET used == SetToSortSeq({idx(home, i) : i \in 1..n}, <)
         IN [j \in 1..Len(used) |->
               SelectSeq(Positions, LAMBDA i : idx(home, i) = used[j])]

\* frag_seq: the fragment of each key.
seq(f) == [i \in 1..n |-> CHOOSE j \in 1..Len(f) : i \in Range(f[j])]

\* req_forward sends a fragment where its first key maps to, in table t.
forward(f, t) == [at |-> f, server |-> idx(t, f[1]), st |-> "wait", rsp |-> <<>>]

\* The handler: cut, queue the request with its fragments behind it, and
\* forward.  The first forward may find that the table is to be rebuilt.
\* When there is no memory for the client's reply the request has failed, and
\* its fragments are sent all the same.
req_recv_done(made) ==
    /\ outq = <<>>
    /\ made \/ (AllocFails /\ fragment # <<>>)
    /\ table' \in {home} \cup Rebuilt
    /\ LET cut == IF fragment = <<>> THEN <<Positions>> ELSE fragment
       IN /\ frags' = [j \in 1..Len(cut) |-> forward(cut[j], table')]
          /\ frag_seq' = IF fragment = <<>> THEN <<>> ELSE seq(fragment)
          /\ outq' = <<0>> \o [j \in 1..Len(fragment) |-> j]
    /\ reply' = IF made THEN waiting ELSE failure
    /\ UNCHANGED <<req, home, store, before, integer>>

\* An allocation fails after the first k fragments are queued.  The request
\* is put in the client's queue and answered with an error, and the handler
\* goes on to queue it again: with the fragments there are, or by itself.
fragment_fails(k) ==
    /\ AllocFails
    /\ outq = <<>>
    /\ fragment # <<>> /\ k < Len(fragment)
    /\ frags' = [j \in 1..k |-> forward(fragment[j], home)]
    /\ frag_seq' = seq(fragment)
    /\ outq' = <<0, 0>> \o [j \in 1..k |-> j]
    /\ reply' = failure
    /\ UNCHANGED <<req, home, table, store, before, integer>>

-----------------------------------------------------------------------------
(* The servers (external).                                                 *)

word(f, i) == req.keys[frags[f].at[i]]
size(f) == Len(frags[f].at)

\* The value of key k after the pairs of fragment f are stored.
stored(f, k, old) ==
    LET last == {i \in 1..size(f) : word(f, i) = k}
    IN IF last = {} THEN old ELSE frags[f].at[Max(last)]

Answer(f, s) ==
    CASE req.type = "mget" -> [i \in 1..size(f) |-> s[word(f, i)]]
      [] req.type = "get"  -> SelectSeq([i \in 1..size(f) |-> s[word(f, i)]],
                                        LAMBDA v : v # 0)
      [] req.type = "del"  -> <<Cardinality({word(f, i) : i \in
                                  {j \in 1..size(f) : s[word(f, j)] # 0}})>>
      [] req.type = "mset" -> <<>>

Effect(f, s) ==
    [k \in Key |-> CASE req.type = "mset" -> stored(f, k, s[k])
                     [] req.type = "del" /\ k \in {word(f, i) : i \in 1..size(f)} -> 0
                     [] OTHER -> s[k]]

-----------------------------------------------------------------------------
(* Joining the replies.                                                    *)

\* copy_bulk: the next bulk of a fragment's reply goes to the client's; a
\* memcache reply may have no more.
copy_bulk(a, j) ==
    IF a.left[j] = <<>> THEN a
    ELSE [out |-> Append(a.out, Head(a.left[j])),
          left |-> [a.left EXCEPT ![j] = Tail(@)]]

\* The replies are joined in the order of the fragments.
Faulty_post_coalesce(g, sum) ==
    CASE req.type \in {"mget", "get"} ->
           FlattenSeq([j \in 1..Len(g) |-> g[j].rsp])
      [] req.type = "del"  -> <<sum>>
      [] req.type = "mset" -> <<>>

\* The replies to fragments g are joined key by key, or added up.
post_coalesce(g, sum) ==
    CASE req.type \in {"mget", "get"} ->
           FoldLeft(copy_bulk, [out |-> <<>>, left |-> [j \in 1..Len(g) |-> g[j].rsp]],
                    frag_seq).out
      [] req.type = "del"  -> <<sum>>
      [] req.type = "mset" -> <<>>

\* A redis integer is added up as the reply comes in.
pre_coalesce(f) == IF req.type = "del" /\ frag_seq # <<>> /\ f.st = "ok"
                   THEN integer + f.rsp[1] ELSE integer

\* An MSET has failed when all of its parts have.
Faulty_failed(g) ==
    IF req.type = "mset" THEN \A i \in 1..Len(g) : g[i].st = "error"
    ELSE \E i \in 1..Len(g) : g[i].st = "error"

failed(g) == \E i \in 1..Len(g) : g[i].st = "error"

\* The reply to fragment j comes in, or the fragment fails; when it is the
\* last one the client is answered.  One error makes an error of the whole.
rsp_recv_done(j) ==
    LET s == store[frags[j].server]
        answered == [frags[j] EXCEPT !.st = "ok", !.rsp = Answer(j, s)]
        complete(g) == \A i \in 1..Len(g) : g[i].st # "wait"
    IN /\ reply = waiting
       /\ frags[j].st = "wait"
       /\ \E f \in {answered, [frags[j] EXCEPT !.st = "error"]} :
            LET g == [frags EXCEPT ![j] = f] IN
              /\ frags' = g
              /\ integer' = pre_coalesce(f)
              /\ reply' = IF ~complete(g) THEN waiting
                          ELSE IF failed(g) THEN failure
                          ELSE [st |-> "ok", rsp |-> IF frag_seq = <<>> THEN f.rsp
                                                     ELSE post_coalesce(g, integer')]
              /\ store' = IF f.st = "error" THEN store
                          ELSE [store EXCEPT ![f.server] = Effect(j, s)]
       /\ UNCHANGED <<req, home, table, before, frag_seq, outq>>

Next == \/ \E made \in BOOLEAN : req_recv_done(made)
        \/ \E k \in 0..Cardinality(Server) : fragment_fails(k)
        \/ \E j \in 1..Len(frags) : rsp_recv_done(j)

Spec == Init /\ [][Next]_vars

-----------------------------------------------------------------------------
Hit(i) == before[idx(home, i)][req.keys[i]]

\* What one server with all the keys would answer.  A memcache client is
\* given each value there is; each names its key, so their order is free.
Expected ==
    CASE req.type \in {"mget", "get"} -> [i \in 1..n |-> Hit(i)]
      [] req.type = "del" -> <<Cardinality({req.keys[i] : i \in
                                              {j \in 1..n : Hit(j) # 0}})>>
      [] req.type = "mset" -> <<>>

Count(s, v) == Cardinality({i \in 1..Len(s) : s[i] = v})

\* Whatever order the replies come in, the client is answered as if one
\* server had all the keys: MGET has the value of its i-th key in the i-th
\* place, however often a key is repeated; get has each value found, as often
\* as it was asked for; DEL counts each key once; or there is an error.
ReplyWhole ==
    reply.st = "ok" =>
      IF req.type = "get"
      THEN \A v \in Range(reply.rsp) \cup (Range(Expected) \ {0}) :
             Count(reply.rsp, v) = Count(Expected, v)
      ELSE reply.rsp = Expected

\* After a successful MSET each key holds the last value the request gives it
\* and no other key has changed, although the pairs went to several servers.
MsetApplied ==
    reply.st = "ok" /\ req.type = "mset" =>
      \A s \in Server, k \in Key :
        LET at == {i \in 1..n : req.keys[i] = k /\ home[k] = s}
        IN store[s][k] = IF at = {} THEN before[s][k] ELSE Max(at)

\* Every key is in one fragment, and there are no more fragments than servers.
OneFragmentEach ==
    frag_seq # <<>> =>
      /\ Len(frags) <= Cardinality(Server)
      /\ reply.st # "error" =>
           \A i \in 1..n : \E j \in 1..Len(frags) :
             /\ frag_seq[i] = j
             /\ {k \in 1..Len(frags) : i \in Range(frags[k].at)} = {j}

\* Every key is asked for, or stored, at the server it maps to: "all the keys
\* map to the same backend will group into one fragment".
AskedAtHome ==
    \A j \in 1..Len(frags) : \A i \in Range(frags[j].at) :
      idx(table, i) = frags[j].server

\* A message is once in the queue it is answered from.
OnceQueued == \A i, k \in 1..Len(outq) : outq[i] = outq[k] => i = k
=============================================================================
