------------------------------- MODULE MCWire -------------------------------
(***************************************************************************)
(* What travels on the connections, for TLC: the four parsers, requests    *)
(* that are cut into fragments, the mbufs of the fragments and those of    *)
(* the reply put together from theirs.  The components do not share state, *)
(* so a behaviour is one of one part, which never changes; the variables   *)
(* of the others are idle.                                                 *)
(***************************************************************************)
EXTENDS Naturals, Sequences

VARIABLES part,
          stream, rd, mhdr, r, got,                          \* parsers
          err,                                               \* parsers, join
          join, cut,                                         \* join
          c,                                                 \* join, split
          next,                                              \* split
          req,                                               \* split, fragment
          home, table, store, before, frags, frag_seq, integer, outq, reply

parserVars == <<stream, rd, mhdr, r, got>>
joinVars == <<join, cut>>
fragmentVars == <<home, table, store, before, frags, frag_seq, integer, outq, reply>>

Word(ch, n) == [i \in 1..n |-> ch]

-----------------------------------------------------------------------------
(* Pipelines of redis requests.                                            *)

Cmd(n, a) == [name |-> n, args |-> a]

\* Keys up to the size of an mbuf and values beyond it, of each argument list.
Alone ==
    {<<Cmd("get", <<Word("a", n)>>)>> : n \in {1, 10, 11, 12}}
    \cup {<<Cmd("set", <<Word("a", 1), Word("b", n)>>)>> : n \in {0, 2, 14}}
    \cup {<<Cmd("mget", <<Word("a", 2), Word("b", n)>>)>> : n \in {0, 11}}
    \cup {<<Cmd("mset", <<Word("a", 1), Word("b", n), Word("c", 2),
                          Word("d", 1)>>)>> : n \in {1, 13}}
    \cup {<<Cmd("eval", <<Word("a", 3), <<"1", "0">>, Word("k", 2),
                          Word("v", 1)>>)>>}
    \cup {<<Cmd("linsert", <<Word("a", 1), Word("b", 1), Word("c", 9),
                             Word("d", 1)>>)>>,
          <<Cmd("hincrby", <<Word("a", 2), Word("b", 1), Word("c", 1)>>)>>}

\* Requests that follow one another, some of them not acceptable.
Pipelined ==
    {<<Cmd("ping", <<>>), Cmd("get", <<Word("a", 3)>>), Cmd("incr", <<Word("b", 1)>>)>>,
     <<Cmd("hget", <<Word("a", 1), Word("b", 1)>>), Cmd("hget", <<Word("c", 1)>>)>>,
     <<Cmd("del", <<Word("a", 1)>>), Cmd("mset", <<Word("b", 1)>>)>>,
     <<Cmd("get", <<>>), Cmd("ping", <<>>)>>,
     <<Cmd("setex", <<Word("a", 1), Word("b", 2), Word("c", 1)>>), Cmd("quit", <<>>)>>,
     <<Cmd("ttl", <<Word("a", 1)>>), Cmd("blpop", <<Word("b", 1)>>)>>,
     <<Cmd("eval", <<Word("a", 1), <<"0">>, Word("k", 1)>>)>>}

RedisRequests ==
    INSTANCE RedisRequest WITH Requests <- Alone \cup Pipelined, MbufSize <- 12

-----------------------------------------------------------------------------
(* Sequences of redis replies.                                             *)

Status == [kind |-> "STATUS"]
Err(code, n) == [kind |-> "ERROR", code |-> code, size |-> n, text |-> TRUE]
Num(n) == [kind |-> "INTEGER", value |-> n]
Bytes(n) == [kind |-> "BULK", size |-> n]
Nil == [kind |-> "NIL"]
NoArray == [kind |-> "NOARRAY"]
Array(s) == [kind |-> "MULTIBULK", of |-> s]

\* Replies longer than an mbuf, missing ones, and those that follow them.
RedisAnswers ==
    {<<Bytes(n), Num(17)>> : n \in {0, 1, 3, 4, 5, 10, 20}}
    \cup {<<Array(<<Bytes(n), Nil, Bytes(1)>>), Status>> : n \in {0, 2, 3, 4, 5}}
    \cup {<<Array(<<Num(1), Status, Bytes(n), Num(12)>>)>> : n \in 1..4}
    \cup {<<Array(<<Bytes(1), Array(<<Bytes(n), Bytes(2)>>)>>), Nil>> : n \in {1, 11}}
    \cup {<<Nil, Status, Nil>>, <<Array(<<>>), NoArray, Num(5)>>,
          <<Err("ERR", 3), Num(3)>>, <<Err("BUSY", 4), Nil>>,
          <<Err("MYERR", 5), Status>>}

RedisReplies ==
    INSTANCE RedisResponse WITH Replies <- RedisAnswers, MbufSize <- 12

-----------------------------------------------------------------------------
(* Pipelines of memcache requests.                                         *)

Mc(n, k, v, y) == [name |-> n, keys |-> k, size |-> v, noreply |-> y]

\* Retrievals longer than an mbuf, storage commands whose block is, keys up
\* to the limit and beyond it.
MemcacheCommands ==
    {<<Mc("get", <<Word("a", n), Word("b", 8), Word("c", 10), Word("a", 7)>>,
          0, FALSE), Mc("quit", <<>>, 0, FALSE)>> : n \in {1, 2, 9}}
    \cup {<<Mc("gets", <<Word("a", n)>>, 0, FALSE)>> : n \in {0, 10, 11}}
    \cup {<<Mc("set", <<Word("a", 2)>>, n, y), Mc("get", <<Word("b", 1)>>, 0, FALSE)>>
          : n \in {0, 12, 34}, y \in BOOLEAN}
    \cup {<<Mc("cas", <<Word("a", 1)>>, n, TRUE), Mc("incr", <<Word("b", 10)>>, 0, TRUE)>>
          : n \in {1, 20}}
    \cup {<<Mc("append", <<Word("c", 1)>>, 3, FALSE), Mc("touch", <<Word("b", 2)>>, 0, FALSE)>>,
          <<Mc("get", <<Word("n", 1)>>, 0, FALSE), Mc("delete", <<Word("b", 2)>>, 0, TRUE)>>,
          <<Mc("delete", <<Word("b", 2)>>, 0, FALSE)>>}

MemcacheRequests ==
    INSTANCE MemcacheRequest WITH Requests <- MemcacheCommands, MbufSize <- 32,
                                  MEMCACHE_MAX_KEY_LENGTH <- 10

-----------------------------------------------------------------------------
(* Sequences of memcache replies.                                          *)

Val(k, n, cas) == [key |-> k, size |-> n, cas |-> cas]
Values(s) == [kind |-> "VALUES", of |-> s]
Line(w) == [kind |-> w]

\* One, two and no values, their blocks of every size around an mbuf's, so
\* that each byte of the lines is cut by an mbuf's end in one of them.
MemcacheAnswers ==
    {<<Values(<<Val(1, n, FALSE)>>), Line("STORED")>> : n \in 0..32}
    \cup {<<Values(<<Val(3, n, TRUE), Val(2, 1, TRUE)>>)>> : n \in 0..26}
    \cup {<<Values(<<>>), Values(<<Val(2, 3, FALSE)>>)>>}
    \cup {<<Line(w), Line("DELETED"), Values(<<>>)>> :
          w \in {"NUM", "SERVER_ERROR", "ERROR", "NOT_FOUND"}}

MemcacheReplies ==
    INSTANCE MemcacheResponse WITH Replies <- MemcacheAnswers, MbufSize <- 24

-----------------------------------------------------------------------------
(* Requests cut into fragments: keys and values of many lengths, for two   *)
(* servers.                                                                *)

KeySizes == {1, 2, 5, 10, 12}
ValSizes == {0, 1, 3, 7, 10, 15, 30}
Msets == {[type |-> "mset", keys |-> <<Word("k", i), Word("k", j), Word("k", 3)>>,
           vals |-> <<Word("v", a), Word("v", b), Word("v", 2)>>, to |-> t]
          : i \in KeySizes, j \in {1, 10}, a \in ValSizes, b \in ValSizes,
            t \in {<<1, 2, 1>>, <<2, 2, 1>>}}
Others == {[type |-> t, keys |-> <<Word("k", i), Word("k", j), Word("k", k)>>,
            vals |-> <<>>, to |-> <<1, 2, 1>>]
           : t \in {"mget", "del", "get"}, i \in KeySizes, j \in {1, 10}, k \in KeySizes}

Split == INSTANCE SplitRequest WITH Splits <- Msets \cup Others, MbufSize <- 16

-----------------------------------------------------------------------------
(* Replies put together: words of many lengths, so that cuts fall on every *)
(* part of a bulk.                                                         *)

Sizes == {0, 1, 2, 3, 5, 8, 10, 13}
RedisJoins ==
    {[redis |-> TRUE, parts |-> <<<<Word("a", i), Word("b", j)>>, <<Word("x", k)>>>>,
      order |-> o] : i \in Sizes, j \in Sizes, k \in {0, 3, 11},
                     o \in {<<1, 2, 1>>, <<2, 1, 1>>}}
    \cup {[redis |-> TRUE, parts |-> <<<<Word("a", i), <<"-">>, Word("b", 2)>>>>,
           order |-> <<1, 1, 1>>] : i \in Sizes}

\* In the last ones the servers miss some of the keys asked for.
MemcacheJoins ==
    {[redis |-> FALSE, parts |-> <<<<Word("a", i), Word("b", j)>>, <<Word("x", k)>>>>,
      order |-> o] : i \in Sizes, j \in Sizes, k \in {0, 3, 11},
                     o \in {<<1, 2, 1>>, <<2, 1, 2, 1>>}}
    \cup {[redis |-> FALSE, parts |-> <<<<>>, <<Word("x", k)>>>>,
           order |-> <<1, 2, 1, 2>>] : k \in Sizes}

Join == INSTANCE JoinReplies WITH Joins <- RedisJoins \cup MemcacheJoins, MbufSize <- 12

-----------------------------------------------------------------------------
(* The life of a fragmented request: three keys over three servers, every  *)
(* request of up to four keys.                                             *)

MaxKeys == 4
Servers == 0..2
Keys == 1..3

\* Up to renaming, the ways three keys map to servers.
Tables == {[k \in Keys |-> 1],
           [k \in Keys |-> IF k = 2 THEN 0 ELSE 2],
           [k \in Keys |-> CASE k = 1 -> 2 [] k = 2 -> 0 [] k = 3 -> 1]}

\* Each server holds its own value, which is no position, of the keys in h.
Holding(h) == [s \in Servers |->
                 [k \in Keys |-> IF k \in h THEN 10 * (s + 1) + k ELSE 0]]

Fragments == INSTANCE Fragment WITH
               Server <- Servers, Key <- Keys,
               Requests <- [type : {"mget", "del", "mset", "get"},
                            keys : UNION {[1..k -> Keys] : k \in 1..MaxKeys}],
               Stores <- {Holding(h) : h \in SUBSET Keys},
               Routes <- Tables, Rebuilt <- {}, AllocFails <- TRUE

-----------------------------------------------------------------------------
idle == "idle"

NoParser == stream = idle /\ rd = idle /\ mhdr = idle /\ r = idle /\ got = idle
NoJoin == join = idle /\ cut = idle
NoFragment ==
    /\ home = idle /\ table = idle /\ store = idle /\ before = idle /\ frags = idle
    /\ frag_seq = idle /\ integer = idle /\ outq = idle /\ reply = idle

Init ==
    \/ /\ \/ part = "redis_request" /\ RedisRequests!Recv!Init
          \/ part = "redis_response" /\ RedisReplies!Recv!Init
          \/ part = "memcache_request" /\ MemcacheRequests!Recv!Init
          \/ part = "memcache_response" /\ MemcacheReplies!Recv!Init
       /\ NoJoin /\ c = idle /\ next = idle /\ req = idle /\ NoFragment
    \/ /\ part = "split" /\ Split!Init
       /\ NoParser /\ err = idle /\ NoJoin /\ NoFragment
    \/ /\ part = "join" /\ Join!Init
       /\ NoParser /\ next = idle /\ req = idle /\ NoFragment
    \/ /\ part = "fragment" /\ Fragments!Init
       /\ NoParser /\ err = idle /\ NoJoin /\ c = idle /\ next = idle

Next ==
    /\ \/ /\ \/ part = "redis_request" /\ RedisRequests!Recv!Next
             \/ part = "redis_response" /\ RedisReplies!Recv!Next
             \/ part = "memcache_request" /\ MemcacheRequests!Recv!Next
             \/ part = "memcache_response" /\ MemcacheReplies!Recv!Next
          /\ UNCHANGED <<joinVars, c, next, req, fragmentVars>>
       \/ /\ part = "split" /\ Split!Next
          /\ UNCHANGED <<parserVars, err, joinVars, fragmentVars>>
       \/ /\ part = "join" /\ Join!Next
          /\ UNCHANGED <<parserVars, next, req, fragmentVars>>
       \/ /\ part = "fragment" /\ Fragments!Next
          /\ UNCHANGED <<parserVars, err, joinVars, c, next>>
    /\ UNCHANGED part

Spec == Init /\ [][Next]_<<part, parserVars, err, joinVars, c, next, req, fragmentVars>>

-----------------------------------------------------------------------------
\* However a pipeline is cut into reads and mbufs, redis_parse_req() and
\* memcache_parse_req() find the requests that were sent, with their keys, as
\* soon as the last byte is there.  The mbufs left behind hold exactly the
\* bytes read, every key lies in one of them (msg_backend_idx() hashes it in
\* place), and a client is only dropped for a request that the proxy does not
\* accept, never because of where a read or an mbuf ended.
RequestsRead ==
    /\ part = "redis_request" =>
         /\ RedisRequests!RequestsKept /\ RedisRequests!Prompt
         /\ RedisRequests!OnlyBadRejected /\ RedisRequests!KeysContiguous
         /\ RedisRequests!Recv!BytesTile
    /\ part = "memcache_request" =>
         /\ MemcacheRequests!RequestsKept /\ MemcacheRequests!Prompt
         /\ MemcacheRequests!OnlyBadRejected /\ MemcacheRequests!KeysContiguous
         /\ MemcacheRequests!Recv!BytesTile

\* redis_parse_rsp() and memcache_parse_rsp() end each reply where the server
\* ended it and as soon as it did, so that every reply is matched with its own
\* request; no server connection is given up for a well-formed reply; and the
\* header of an array and the END line, which pre_coalesce() cuts off, are
\* where narg_start, narg_end and end say.
RepliesRead ==
    /\ part = "redis_response" =>
         /\ RedisReplies!RepliesKept /\ RedisReplies!Prompt
         /\ RedisReplies!NoneRejected /\ RedisReplies!HeaderFirst
         /\ RedisReplies!Recv!BytesTile
    /\ part = "memcache_response" =>
         /\ MemcacheReplies!RepliesKept /\ MemcacheReplies!Prompt
         /\ MemcacheReplies!NoneRejected /\ MemcacheReplies!EndFound
         /\ MemcacheReplies!Recv!BytesTile

\* Each fragment that redis_fragment_argx() and memcache_fragment_retrieval()
\* write is the request for its keys and nothing else; the keys noted in it
\* are its keys, and each lies in one mbuf of it.
SplitWhole == part = "split" => Split!FragmentBytes /\ Split!KeysWhole

\* The reply put together by post_coalesce() holds the value of each key, in
\* the order in which the client asked, and leaves the replies to the
\* fragments empty; while chains are split and mbufs change hands, every mbuf
\* is in one message or on the free list.
JoinedWhole ==
    part = "join" => Join!JoinedBytes /\ Join!FragmentsEmpty /\ Join!MbufsKept

\* The reply to a fragmented request is what one server would have answered,
\* whatever the order in which the fragments are answered; a server is asked
\* at most once for it, and an MSET answered with OK is applied at the home of
\* each key (fragment, post_coalesce).
ReplyWhole ==
    part = "fragment" =>
        Fragments!ReplyWhole /\ Fragments!OneFragmentEach /\ Fragments!MsetApplied
=============================================================================
