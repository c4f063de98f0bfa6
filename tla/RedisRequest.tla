---------------------------- MODULE RedisRequest ----------------------------
(***************************************************************************)
(* The parser of redis requests (redis_parse_req of proto/nc_redis.c) on   *)
(* the messages of MsgRecv.  A request is an array of bulk strings; the    *)
(* parser must find its command, its keys and its end however the bytes    *)
(* were cut into reads and mbufs.                                          *)
(*                                                                         *)
(* A byte is a string.  A command is sent as its name in the first byte of *)
(* a word of the name's length: the parser looks names up by length first. *)
(***************************************************************************)
EXTENDS Parsing

CONSTANTS Requests,  \* the pipelines a client may send: sequences of requests
          MbufSize   \* mbuf_data_size()

VARIABLES stream, rd, mhdr, r, got, err

-----------------------------------------------------------------------------
(* The commands of each length, and their argument lists.                  *)

name3 == {"get", "set", "ttl", "del"}
name4 == {"pttl", "decr", "dump", "hdel", "hget", "hlen", "hset", "incr",
          "llen", "lpop", "lrem", "lset", "rpop", "sadd", "spop", "srem",
          "type", "mget", "mset", "zadd", "zrem", "eval", "sort", "ping",
          "quit", "auth"}
name5 == {"hkeys", "hmget", "hmset", "hvals", "hscan", "lpush", "ltrim",
          "rpush", "scard", "sdiff", "setex", "setnx", "smove", "sscan",
          "zcard", "zrank", "zscan", "pfadd"}
name6 == {"append", "bitpos", "decrby", "exists", "expire", "getbit",
          "getset", "psetex", "hsetnx", "incrby", "lindex", "lpushx",
          "lrange", "rpushx", "select", "setbit", "sinter", "strlen",
          "sunion", "zcount", "zrange", "zscore"}
name7 == {"persist", "pexpire", "hexists", "hgetall", "hincrby", "linsert",
          "zincrby", "evalsha", "restore", "pfcount", "pfmerge"}
name8 == {"expireat", "bitcount", "getrange", "setrange", "smembers",
          "zrevrank"}
name9 == {"pexpireat", "rpoplpush", "sismember", "zrevrange", "zlexcount",
          "threshold"}
name10 == {"sdiffstore"}
name11 == {"incrbyfloat", "sinterstore", "srandmember", "sunionstore",
           "zinterstore", "zunionstore", "zrangebylex"}
name12 == {"hincrbyfloat"}
name13 == {"zrangebyscore"}
name14 == {"zremrangebylex"}
name15 == {"zremrangebyrank"}
name16 == {"zremrangebyscore", "zrevrangebyscore"}

names == <<{}, {}, name3, name4, name5, name6, name7, name8, name9, name10,
           name11, name12, name13, name14, name15, name16>>

redis_argz == {"ping", "quit"}
redis_arg0 == {"exists", "persist", "pttl", "ttl", "type", "dump", "decr",
               "get", "incr", "strlen", "hgetall", "hkeys", "hlen", "hvals",
               "llen", "lpop", "rpop", "scard", "smembers", "spop", "zcard",
               "pfcount", "auth", "select", "threshold"}
redis_arg1 == {"expire", "expireat", "pexpire", "pexpireat", "append",
               "decrby", "getbit", "getset", "incrby", "incrbyfloat",
               "setnx", "hexists", "hget", "lindex", "lpushx", "rpoplpush",
               "rpushx", "sismember", "zrank", "zrevrank", "zscore"}
redis_arg2 == {"getrange", "psetex", "setbit", "setex", "setrange",
               "hincrby", "hincrbyfloat", "hset", "hsetnx", "lrange", "lrem",
               "lset", "ltrim", "smove", "zcount", "zlexcount", "zincrby",
               "zremrangebylex", "zremrangebyrank", "zremrangebyscore",
               "restore"}
redis_arg3 == {"linsert"}
redis_argn == {"sort", "bitcount", "bitpos", "set", "hdel", "hmget", "hmset",
               "hscan", "lpush", "rpush", "sadd", "sdiff", "sdiffstore",
               "sinter", "sinterstore", "srem", "sunion", "sunionstore",
               "srandmember", "sscan", "pfadd", "pfmerge", "zadd",
               "zinterstore", "zrange", "zrangebyscore", "zrem", "zrevrange",
               "zrangebylex", "zrevrangebyscore", "zunionstore", "zscan"}
redis_argx == {"mget", "del"}
redis_argkvx == {"mset"}
redis_argeval == {"eval", "evalsha"}

-----------------------------------------------------------------------------
(* The parser.  In r, struct msg, token is the position where the token    *)
(* being read starts, 0 for NULL; rlen is the length of the next word and  *)
(* rnarg the number of arguments left.                                     *)

msg_get == [state |-> "SW_START", pos |-> 1, token |-> 0, rlen |-> 0,
            rnarg |-> 0, narg |-> 0, type |-> "UNKNOWN", keys |-> <<>>,
            result |-> "AGAIN"]

\* SW_START, SW_NARG: the number of arguments.  (The test for '*' is
\* commented out in the code.)
Narg(q, p, ch) ==
    IF q.token = 0
    THEN Go([q EXCEPT !.token = p, !.rnarg = 0, !.state = "SW_NARG"], p)
    ELSE IF isdigit(ch) THEN Go([q EXCEPT !.rnarg = @ * 10 + digit(ch)], p)
    ELSE IF ch = CR /\ q.rnarg # 0
    THEN Go([q EXCEPT !.narg = q.rnarg, !.token = 0,
                      !.state = "SW_NARG_LF"], p)
    ELSE Error(q)

\* The states SW_*_LEN: the length of a word, "ok" being what the state
\* demands of it.
Length(q, p, ch, ok, next) ==
    IF q.token = 0
    THEN IF ch = "$" THEN Go([q EXCEPT !.token = p, !.rlen = 0], p)
                     ELSE Error(q)
    ELSE IF isdigit(ch) THEN Go([q EXCEPT !.rlen = @ * 10 + digit(ch)], p)
    ELSE IF ch = CR /\ ok /\ q.rnarg # 0
    THEN Go([q EXCEPT !.rnarg = @ - 1, !.token = 0, !.state = next], p)
    ELSE Error(q)

\* A key that fills an mbuf with its CR is refused.
Faulty_KeyLength(q, p, ch) ==
    Length(q, p, ch, q.rlen < MbufSize - 1, "SW_KEY_LEN_LF")

KeyLength(q, p, ch) == Length(q, p, ch, q.rlen < MbufSize, "SW_KEY_LEN_LF")

ArgLength(q, p, ch, next) == Length(q, p, ch, p - q.token > 1, next)

\* A word the proxy reads must lie in one mbuf: the token marks its start
\* until its last byte and the CR after it are there; accepted is what the
\* parser does with the word then.
start(q, p) == IF q.token = 0 THEN p ELSE q.token

Token(s, b, q, p, accepted) ==
    LET m == start(q, p) + q.rlen
    IN IF m >= b.last THEN Go([q EXCEPT !.token = start(q, p)], b.last - 1)
       ELSE IF s[m] # CR THEN Error(q)
       ELSE accepted

\* SW_REQ_TYPE: commands are looked up by length and name.
Type(s, b, q, p) ==
    LET t == start(q, p)
        a == [q EXCEPT !.rlen = 0, !.token = 0]
    IN Token(s, b, q, p,
             IF q.rlen \in DOMAIN names /\ s[t] \in names[q.rlen]
             THEN Go([a EXCEPT !.type = s[t], !.state = "SW_REQ_TYPE_LF"], t + q.rlen)
             ELSE Error(a))

\* The key starts where this read starts, not where its token does.
Faulty_Key(s, b, q, p) ==
    LET m == start(q, p) + q.rlen
    IN Token(s, b, q, p, Go([q EXCEPT !.rlen = 0, !.token = 0, !.state = "SW_KEY_LF",
                                      !.keys = Append(@, <<p, m>>)], m))

\* SW_KEY: the key is kept as the positions of its ends.
Key(s, b, q, p) ==
    LET m == start(q, p) + q.rlen
    IN Token(s, b, q, p, Go([q EXCEPT !.rlen = 0, !.token = 0, !.state = "SW_KEY_LF",
                                      !.keys = Append(@, <<start(q, p), m>>)], m))

\* SW_ARG2: for EVAL the number of keys, which must be one or more.
Arg2(s, b, q, p) ==
    LET t == IF q.token = 0 /\ q.type \in redis_argeval THEN p ELSE q.token
        a == Skip(s, b, [q EXCEPT !.token = t], p, "SW_ARG2_LF")
        w == SubSeq(s, t, a.p - 1)
    IN IF a.out # "go" \/ a.q.state = "SW_ARG2" \/ q.type \notin redis_argeval
       THEN a
       ELSE IF /\ w # <<>> /\ \A i \in 1..Len(w) : isdigit(w[i])
               /\ \E i \in 1..Len(w) : w[i] # "0"
       THEN [a EXCEPT !.q.token = 0] ELSE Error(q)

-----------------------------------------------------------------------------
(* What follows a word, by the arguments its command takes.                *)

Exactly(q, n, next) == IF q.rnarg = n THEN next ELSE "error"
Unless0(q, next) == IF q.rnarg = 0 THEN "done" ELSE next

AfterType(q) ==
    CASE q.type \in redis_argz -> "done"
      [] q.type \notin redis_argz /\ q.narg = 1 -> "error"
      [] q.type \in redis_argeval /\ q.narg # 1 -> "SW_ARG1_LEN"
      [] OTHER -> "SW_KEY_LEN"

AfterKey(q) ==
    CASE q.type \in redis_arg0 -> Exactly(q, 0, "done")
      [] q.type \in redis_arg1 -> Exactly(q, 1, "SW_ARG1_LEN")
      [] q.type \in redis_arg2 -> Exactly(q, 2, "SW_ARG1_LEN")
      [] q.type \in redis_arg3 -> Exactly(q, 3, "SW_ARG1_LEN")
      [] q.type \in redis_argn -> Unless0(q, "SW_ARG1_LEN")
      [] q.type \in redis_argx -> Unless0(q, "SW_KEY_LEN")
      [] q.type \in redis_argkvx -> IF q.narg % 2 = 0 THEN "error"
                                    ELSE "SW_ARG1_LEN"
      [] q.type \in redis_argeval -> Unless0(q, "SW_ARGN_LEN")
      [] OTHER -> "error"

AfterArg1(q) ==
    CASE q.type \in redis_arg1 -> Exactly(q, 0, "done")
      [] q.type \in redis_arg2 -> Exactly(q, 1, "SW_ARG2_LEN")
      [] q.type \in redis_arg3 -> Exactly(q, 2, "SW_ARG2_LEN")
      [] q.type \in redis_argn -> Unless0(q, "SW_ARGN_LEN")
      [] q.type \in redis_argeval -> IF q.rnarg < 2 THEN "error"
                                     ELSE "SW_ARG2_LEN"
      [] q.type \in redis_argkvx -> Unless0(q, "SW_KEY_LEN")
      [] OTHER -> "error"

AfterArg2(q) ==
    CASE q.type \in redis_arg2 -> Exactly(q, 0, "done")
      [] q.type \in redis_arg3 -> Exactly(q, 1, "SW_ARG3_LEN")
      [] q.type \in redis_argn -> Unless0(q, "SW_ARGN_LEN")
      [] q.type \in redis_argeval -> IF q.rnarg < 1 THEN "error"
                                     ELSE "SW_KEY_LEN"
      [] OTHER -> "error"

AfterArg3(q) ==
    CASE q.type \in redis_arg3 -> Exactly(q, 0, "done")
      [] q.type \in redis_argn -> Unless0(q, "SW_ARGN_LEN")
      [] OTHER -> "error"

\* The last argument is not seen to be the last.
Faulty_AfterArgN(q) == IF q.type \in redis_argn \cup redis_argeval
                       THEN "SW_ARGN_LEN" ELSE "error"

AfterArgN(q) == IF q.type \in redis_argn \cup redis_argeval
                THEN Unless0(q, "SW_ARGN_LEN") ELSE "error"

EndOfWord(q, p, ch, after) ==
    IF ch # LF \/ after = "error" THEN Error(q)
    ELSE IF after = "done" THEN Done(q, p)
    ELSE Go([q EXCEPT !.state = after], p)

Step(s, b, q, p) ==
    LET ch == s[p] IN
      CASE q.state \in {"SW_START", "SW_NARG"} -> Narg(q, p, ch)
        [] q.state = "SW_NARG_LF" -> Linefeed(q, p, ch, "SW_REQ_TYPE_LEN")
        [] q.state = "SW_REQ_TYPE_LEN" ->
             Length(q, p, ch, q.rlen # 0, "SW_REQ_TYPE_LEN_LF")
        [] q.state = "SW_REQ_TYPE_LEN_LF" -> Linefeed(q, p, ch, "SW_REQ_TYPE")
        [] q.state = "SW_REQ_TYPE" -> Type(s, b, q, p)
        [] q.state = "SW_REQ_TYPE_LF" -> EndOfWord(q, p, ch, AfterType(q))
        [] q.state = "SW_KEY_LEN" -> KeyLength(q, p, ch)
        [] q.state = "SW_KEY_LEN_LF" -> Linefeed(q, p, ch, "SW_KEY")
        [] q.state = "SW_KEY" -> Key(s, b, q, p)
        [] q.state = "SW_KEY_LF" -> EndOfWord(q, p, ch, AfterKey(q))
        [] q.state = "SW_ARG1_LEN" -> ArgLength(q, p, ch, "SW_ARG1_LEN_LF")
        [] q.state = "SW_ARG1_LEN_LF" -> Linefeed(q, p, ch, "SW_ARG1")
        [] q.state = "SW_ARG1" -> Skip(s, b, q, p, "SW_ARG1_LF")
        [] q.state = "SW_ARG1_LF" -> EndOfWord(q, p, ch, AfterArg1(q))
        [] q.state = "SW_ARG2_LEN" -> ArgLength(q, p, ch, "SW_ARG2_LEN_LF")
        [] q.state = "SW_ARG2_LEN_LF" -> Linefeed(q, p, ch, "SW_ARG2")
        [] q.state = "SW_ARG2" -> Arg2(s, b, q, p)
        [] q.state = "SW_ARG2_LF" -> EndOfWord(q, p, ch, AfterArg2(q))
        [] q.state = "SW_ARG3_LEN" -> ArgLength(q, p, ch, "SW_ARG3_LEN_LF")
        [] q.state = "SW_ARG3_LEN_LF" -> Linefeed(q, p, ch, "SW_ARG3")
        [] q.state = "SW_ARG3" -> Skip(s, b, q, p, "SW_ARG3_LF")
        [] q.state = "SW_ARG3_LF" -> EndOfWord(q, p, ch, AfterArg3(q))
        [] q.state = "SW_ARGN_LEN" -> ArgLength(q, p, ch, "SW_ARGN_LEN_LF")
        [] q.state = "SW_ARGN_LEN_LF" -> Linefeed(q, p, ch, "SW_ARGN")
        [] q.state = "SW_ARGN" -> Skip(s, b, q, p, "SW_ARGN_LF")
        [] q.state = "SW_ARGN_LF" -> EndOfWord(q, p, ch, AfterArgN(q))

RECURSIVE Scan(_, _, _, _)
Scan(s, b, q, p) ==
    IF p >= b.last THEN MoreBytes(b, q)
    ELSE LET a == Step(s, b, q, p) IN
           IF a.out = "go" THEN Scan(s, b, a.q, a.p + 1) ELSE Ended(a)

redis_parse_req(s, q, b) == Scan(s, b, q, q.pos)

-----------------------------------------------------------------------------
(* What a client sends: a request is its name and its arguments, which are *)
(* words.                                                                  *)

NameWord(name) ==
    LET sizes == {i \in DOMAIN names : name \in names[i]}
        n == IF sizes = {} THEN 5 ELSE CHOOSE i \in sizes : TRUE
    IN [i \in 1..n |-> IF i = 1 THEN name ELSE "x"]

Encode(q) == <<"*">> \o number(Len(q.args) + 1) \o <<CR, LF>>
             \o bulk(NameWord(q.name))
             \o FlattenSeq([i \in 1..Len(q.args) |-> bulk(q.args[i])])

Recv == INSTANCE MsgRecv WITH
          Parse <- redis_parse_req,
          Streams <- {[sent |-> s,
                       bytes |-> FlattenSeq([i \in 1..Len(s) |-> Encode(s[i])])]
                      : s \in Requests}

Spec == Recv!Spec

-----------------------------------------------------------------------------
(* The requests the proxy takes, and the keys it sends them by.            *)

Positive(w) == /\ \A i \in 1..Len(w) : isdigit(w[i])
               /\ \E i \in 1..Len(w) : w[i] # "0"

Arity(q) ==
    LET n == Len(q.args) IN
      \/ q.name \in redis_argz /\ n = 0
      \/ q.name \in redis_arg0 /\ n = 1
      \/ q.name \in redis_arg1 /\ n = 2
      \/ q.name \in redis_arg2 /\ n = 3
      \/ q.name \in redis_arg3 /\ n = 4
      \/ q.name \in redis_argn \cup redis_argx /\ n >= 1
      \/ q.name \in redis_argkvx /\ n >= 2 /\ n % 2 = 0
      \/ q.name \in redis_argeval /\ n >= 3 /\ Positive(q.args[2])

KeysOf(q) ==
    CASE q.name \in redis_argz    -> <<>>
      [] q.name \in redis_argx    -> q.args
      [] q.name \in redis_argkvx  -> [i \in 1..Len(q.args) \div 2 |->
                                       q.args[2 * i - 1]]
      [] q.name \in redis_argeval -> <<q.args[3]>>
      [] OTHER                    -> <<q.args[1]>>

Accepts(q) == /\ Arity(q)
              /\ \A i \in 1..Len(KeysOf(q)) : Len(KeysOf(q)[i]) < MbufSize

Text(k) == SubSeq(stream.bytes, k[1], k[2] - 1)

\* The messages received hold what the stream holds, byte for byte: see
\* BytesTile of MsgRecv (mbuf_split, msg_parsed, msg_repair).
BytesTile == Recv!BytesTile

\* However the bytes of a pipeline are cut into reads and mbufs, the
\* messages given to req_recv_done are its requests, one for one: each ends
\* where the request ends and has its command and its keys.
RequestsKept ==
    /\ Len(got) <= Len(stream.sent)
    /\ \A i \in 1..Len(got) :
         LET q == stream.sent[i]
             h == got[i].mhdr
         IN /\ Last(h).last - h[1].pos = Len(Encode(q))
            /\ got[i].r.type = q.name
            /\ got[i].r.narg = Len(q.args) + 1
            /\ [k \in 1..Len(got[i].r.keys) |-> Text(got[i].r.keys[k])]
                 = KeysOf(q)

\* A request is rejected when it is one the proxy does not take, and never
\* for the places where its bytes were cut.
OnlyBadRejected ==
    err = "EINVAL" => /\ Len(got) < Len(stream.sent)
                      /\ ~Accepts(stream.sent[Len(got) + 1])

\* A key that is hashed to choose a server lies in one mbuf, at the
\* positions kept for it (struct keypos), after every later split.
KeysContiguous ==
    LET whole(k, h) == \E i \in 1..Len(h) : h[i].pos <= k[1] /\ k[2] <= h[i].last
    IN /\ \A i \in 1..Len(got) : \A k \in Range(got[i].r.keys) :
            whole(k, got[i].mhdr)
       /\ \A k \in Range(r.keys) : whole(k, mhdr)

\* As soon as the last byte of a request is in, the request has been delivered: no
\* cut leaves the parser waiting for a byte it already has.
Prompt ==
    err = "" => \A i \in 1..Len(stream.sent) :
      LET upto == FlattenSeq([k \in 1..i |-> Encode(stream.sent[k])])
      IN rd > Len(upto) => Len(got) >= i
=============================================================================
