--------------------------- MODULE MemcacheRequest ---------------------------
(***************************************************************************)
(* The parser of memcache requests (memcache_parse_req of                  *)
(* proto/nc_memcache.c) on the messages of MsgRecv.  A request is a line   *)
(* of words; a storage command is followed by a block of as many bytes as  *)
(* the line says.                                                          *)
(*                                                                         *)
(* A byte is a string; a command, and "noreply", is its first byte         *)
(* followed by "x" up to its length.                                       *)
(***************************************************************************)
EXTENDS Parsing

CONSTANTS Requests,  \* the pipelines a client may send: sequences of requests
          MbufSize,  \* mbuf_data_size()
          MEMCACHE_MAX_KEY_LENGTH  \* below MbufSize: 250 < 512 - 48

VARIABLES stream, rd, mhdr, r, got, err

names == <<{}, {}, {"get", "set", "add", "cas"},
           {"gets", "incr", "decr", "quit"}, {"touch"},
           {"append", "delete"}, {"prepend", "replace"}>>

memcache_storage == {"set", "cas", "add", "replace", "append", "prepend"}
memcache_cas == {"cas"}
memcache_retrieval == {"get", "gets"}
memcache_arithmetic == {"incr", "decr"}
memcache_delete == {"delete"}
memcache_touch == {"touch"}

NoReply == memcache_storage \cup memcache_arithmetic \cup memcache_delete
           \cup memcache_touch

SP == " "
islower(ch) == ch \in UNION Range(names) \cup {"x", "n", "a", "b", "c"}

msg_get == [state |-> "SW_START", pos |-> 1, token |-> 0, rlen |-> 0,
            type |-> "UNKNOWN", narg |-> 0, keys |-> <<>>, noreply |-> FALSE,
            result |-> "AGAIN"]

-----------------------------------------------------------------------------
(* The parser; rlen stands for vlen.                                       *)

Start(q, p, ch) ==
    CASE ch = SP     -> Go(q, p)
      [] islower(ch) -> Go([q EXCEPT !.token = p, !.state = "SW_REQ_TYPE"], p)
      [] OTHER       -> Error(q)

Type(s, q, p, ch) ==
    LET n == p - q.token
        known == n \in DOMAIN names /\ s[q.token] \in names[n]
        a == [q EXCEPT !.token = 0, !.narg = @ + 1, !.type = s[q.token]]
    IN IF ch \notin {SP, CR}
       THEN IF islower(ch) THEN Go(q, p) ELSE Error(q)
       ELSE IF known /\ a.type = "quit"
       THEN Go([a EXCEPT !.state = "SW_CRLF"], p - 1)
       ELSE IF known /\ ch = SP
       THEN Go([a EXCEPT !.state = "SW_SPACES_BEFORE_KEY"], p)
       ELSE Error(q)

AfterKey(q) ==
    CASE q.type \in memcache_storage -> "SW_SPACES_BEFORE_FLAGS"
      [] q.type \in memcache_arithmetic \cup memcache_touch ->
           "SW_SPACES_BEFORE_NUM"
      [] q.type \in memcache_retrieval -> "SW_SPACES_BEFORE_KEYS"
      [] OTHER -> "SW_RUNTO_CRLF"

\* The longest key is refused.
Faulty_Key(q, p, ch) ==
    LET t == IF q.token = 0 THEN p ELSE q.token
        a == [q EXCEPT !.keys = Append(@, <<t, p>>), !.narg = @ + 1,
                       !.token = 0, !.state = AfterKey(q)]
    IN IF ch \notin {SP, CR} THEN Go([q EXCEPT !.token = t], p)
       ELSE IF p - t \notin 1..MEMCACHE_MAX_KEY_LENGTH - 1 THEN Error(q)
       ELSE IF ch = SP THEN Go(a, p)
       ELSE IF q.type \in memcache_storage \cup memcache_arithmetic
       THEN Error(q)
       ELSE Go(a, p - 1)

\* SW_KEY: a key ends at a space or at the end of the line.
Key(q, p, ch) ==
    LET t == IF q.token = 0 THEN p ELSE q.token
        a == [q EXCEPT !.keys = Append(@, <<t, p>>), !.narg = @ + 1,
                       !.token = 0, !.state = AfterKey(q)]
    IN IF ch \notin {SP, CR} THEN Go([q EXCEPT !.token = t], p)
       ELSE IF p - t \notin 1..MEMCACHE_MAX_KEY_LENGTH THEN Error(q)
       ELSE IF ch = SP THEN Go(a, p)
       ELSE IF q.type \in memcache_storage \cup memcache_arithmetic
       THEN Error(q)
       ELSE Go(a, p - 1)

\* Spaces, then a key: the first one, or another of a retrieval.
BeforeKey(q, p, ch) ==
    IF ch = SP THEN Go(q, p)
    ELSE Go([q EXCEPT !.token = 0, !.state = "SW_KEY"], p - 1)

BeforeKeys(q, p, ch) ==
    IF ch = CR THEN Go([q EXCEPT !.state = "SW_ALMOST_DONE"], p)
    ELSE BeforeKey(q, p, ch)

\* The states SW_SPACES_BEFORE_*: spaces, then the first digit of a number.
BeforeNumber(q, p, ch, first, next) ==
    CASE ch = SP -> Go(q, p)
      [] ch \in first -> Go([q EXCEPT !.token = p, !.state = next], p)
      [] OTHER -> Error(q)

\* SW_FLAGS, SW_EXPIRY: a number that a space ends.
Number(q, p, ch, next) ==
    CASE isdigit(ch) -> Go(q, p)
      [] ch = SP     -> Go([q EXCEPT !.token = 0, !.state = next], p)
      [] OTHER       -> Error(q)

\* SW_CAS, SW_NUM: a number that may end the line.
LastNumber(q, p, ch) ==
    CASE isdigit(ch)     -> Go(q, p)
      [] ch \in {SP, CR} -> Go([q EXCEPT !.token = 0,
                                         !.state = "SW_RUNTO_CRLF"], p - 1)
      [] OTHER           -> Error(q)

BeforeVlen(q, p, ch) ==
    CASE ch = SP     -> Go(q, p)
      [] isdigit(ch) -> Go([q EXCEPT !.rlen = digit(ch), !.state = "SW_VLEN"], p)
      [] OTHER       -> Error(q)

\* SW_VLEN: the size of the block, which must reach the next mbuf intact.
Vlen(q, p, ch) ==
    LET cas == q.type \in memcache_cas IN
      CASE isdigit(ch) -> Go([q EXCEPT !.rlen = @ * 10 + digit(ch)], p)
        [] ch = SP \/ (ch = CR /\ ~cas) ->
             Go([q EXCEPT !.token = 0, !.state =
                   IF cas THEN "SW_SPACES_BEFORE_CAS" ELSE "SW_RUNTO_CRLF"],
                p - 1)
        [] OTHER -> Error(q)

\* Every line is taken to have a block after it.
Faulty_EndOfLine(q, p) == Go([q EXCEPT !.state = "SW_RUNTO_VAL"], p)

EndOfLine(q, p) ==
    Go([q EXCEPT !.state = IF q.type \in memcache_storage THEN "SW_RUNTO_VAL"
                           ELSE "SW_ALMOST_DONE"], p)

RunToCrlf(q, p, ch) ==
    CASE ch = SP -> Go(q, p)
      [] ch = "n" /\ q.type \in NoReply ->
           Go([q EXCEPT !.token = p, !.state = "SW_NOREPLY"], p)
      [] ch = CR -> EndOfLine(q, p)
      [] OTHER -> Error(q)

\* The word is read over.
Faulty_NoReplyWord(s, q, p, ch) ==
    IF ch \notin {SP, CR} THEN Go(q, p)
    ELSE IF p - q.token = 7 /\ s[q.token] = "n"
    THEN Go([q EXCEPT !.token = 0, !.state = "SW_AFTER_NOREPLY"], p - 1)
    ELSE Error(q)

NoReplyWord(s, q, p, ch) ==
    IF ch \notin {SP, CR} THEN Go(q, p)
    ELSE IF p - q.token = 7 /\ s[q.token] = "n"
    THEN Go([q EXCEPT !.token = 0, !.noreply = TRUE,
                      !.state = "SW_AFTER_NOREPLY"], p - 1)
    ELSE Error(q)

AfterNoReply(q, p, ch) ==
    CASE ch = SP -> Go(q, p)
      [] ch = CR -> EndOfLine(q, p)
      [] OTHER   -> Error(q)

Crlf(q, p, ch) ==
    CASE ch = SP -> Go(q, p)
      [] ch = CR -> Go([q EXCEPT !.state = "SW_ALMOST_DONE"], p)
      [] OTHER   -> Error(q)

Step(s, b, q, p) ==
    LET ch == s[p]
        minus == Range(digits) \cup {"-"}
    IN CASE q.state = "SW_START" -> Start(q, p, ch)
         [] q.state = "SW_REQ_TYPE" -> Type(s, q, p, ch)
         [] q.state = "SW_SPACES_BEFORE_KEY" -> BeforeKey(q, p, ch)
         [] q.state = "SW_KEY" -> Key(q, p, ch)
         [] q.state = "SW_SPACES_BEFORE_KEYS" -> BeforeKeys(q, p, ch)
         [] q.state = "SW_SPACES_BEFORE_FLAGS" ->
              BeforeNumber(q, p, ch, Range(digits), "SW_FLAGS")
         [] q.state = "SW_FLAGS" -> Number(q, p, ch, "SW_SPACES_BEFORE_EXPIRY")
         [] q.state = "SW_SPACES_BEFORE_EXPIRY" ->
              BeforeNumber(q, p, ch, Range(digits), "SW_EXPIRY")
         [] q.state = "SW_EXPIRY" -> Number(q, p, ch, "SW_SPACES_BEFORE_VLEN")
         [] q.state = "SW_SPACES_BEFORE_VLEN" -> BeforeVlen(q, p, ch)
         [] q.state = "SW_VLEN" -> Vlen(q, p, ch)
         [] q.state = "SW_SPACES_BEFORE_CAS" ->
              BeforeNumber(q, p, ch, Range(digits), "SW_CAS")
         [] q.state = "SW_SPACES_BEFORE_NUM" ->
              BeforeNumber(q, p, ch, minus, "SW_NUM")
         [] q.state \in {"SW_CAS", "SW_NUM"} -> LastNumber(q, p, ch)
         [] q.state = "SW_RUNTO_VAL" -> Linefeed(q, p, ch, "SW_VAL")
         [] q.state = "SW_VAL" -> Skip(s, b, q, p, "SW_ALMOST_DONE")
         [] q.state = "SW_RUNTO_CRLF" -> RunToCrlf(q, p, ch)
         [] q.state = "SW_NOREPLY" -> NoReplyWord(s, q, p, ch)
         [] q.state = "SW_AFTER_NOREPLY" -> AfterNoReply(q, p, ch)
         [] q.state = "SW_CRLF" -> Crlf(q, p, ch)
         [] q.state = "SW_ALMOST_DONE" ->
              IF ch = LF THEN Done(q, p) ELSE Error(q)

RECURSIVE Scan(_, _, _, _)
Scan(s, b, q, p) ==
    IF p >= b.last THEN MoreBytes(b, q)
    ELSE LET a == Step(s, b, q, p) IN
           IF a.out = "go" THEN Scan(s, b, a.q, a.p + 1) ELSE Ended(a)

memcache_parse_req(s, q, b) == Scan(s, b, q, q.pos)

-----------------------------------------------------------------------------
(* What a client sends: [name, keys, size (of the block), noreply].        *)

word(c, n) == [i \in 1..n |-> IF i = 1 THEN c ELSE "x"]

Encode(q) ==
    LET n == CHOOSE i \in DOMAIN names : q.name \in names[i]
        storage == q.name \in memcache_storage
        block == IF storage THEN [i \in 1..q.size |-> "v"] \o <<CR, LF>>
                 ELSE <<>>
        fields == IF storage THEN <<SP, "1", SP, "0", SP>> \o number(q.size)
                  ELSE IF q.name \in memcache_arithmetic THEN <<SP, "4", "2">>
                  ELSE IF q.name \in memcache_touch THEN <<SP, SP, "-", "1">>
                  ELSE <<>>
        unique == IF q.name \in memcache_cas THEN <<SP, "7">> ELSE <<>>
        quiet == IF q.noreply THEN <<SP>> \o word("n", 7) ELSE <<>>
    IN word(q.name, n)
       \o FlattenSeq([i \in 1..Len(q.keys) |-> <<SP>> \o q.keys[i]])
       \o fields \o unique \o quiet \o <<CR, LF>> \o block

Recv == INSTANCE MsgRecv WITH
          Parse <- memcache_parse_req,
          Streams <- {[sent |-> s,
                       bytes |-> FlattenSeq([i \in 1..Len(s) |-> Encode(s[i])])]
                      : s \in Requests}

Spec == Recv!Spec

-----------------------------------------------------------------------------
Accepts(q) == \A i \in 1..Len(q.keys) :
                Len(q.keys[i]) \in 1..MEMCACHE_MAX_KEY_LENGTH

Text(k) == SubSeq(stream.bytes, k[1], k[2] - 1)

\* However the bytes of a pipeline are cut into reads and mbufs, the
\* messages given to req_recv_done are its requests, one for one: each ends
\* where the request ends, block included, and has its command, its keys
\* and its noreply, on which it depends whether an answer is awaited.
RequestsKept ==
    /\ Len(got) <= Len(stream.sent)
    /\ \A i \in 1..Len(got) :
         LET q == stream.sent[i]
             h == got[i].mhdr
         IN /\ Last(h).last - h[1].pos = Len(Encode(q))
            /\ got[i].r.type = q.name
            /\ got[i].r.noreply = q.noreply
            /\ [k \in 1..Len(got[i].r.keys) |-> Text(got[i].r.keys[k])]
                 = q.keys

\* A request is rejected for an empty or too long key and never for the
\* places where its bytes were cut.
OnlyBadRejected ==
    err = "EINVAL" => /\ Len(got) < Len(stream.sent)
                      /\ ~Accepts(stream.sent[Len(got) + 1])

\* A key lies in one mbuf, at the positions kept for it, after every split.
KeysContiguous ==
    LET whole(k, h) == \E i \in 1..Len(h) : h[i].pos <= k[1] /\ k[2] <= h[i].last
    IN /\ \A i \in 1..Len(got) : \A k \in Range(got[i].r.keys) :
            whole(k, got[i].mhdr)
       /\ \A k \in Range(r.keys) : whole(k, mhdr)

\* As soon as the last byte of a request is in, the request has been delivered: no
\* cut leaves the parser waiting for a byte it already has.
Prompt ==
    err = "" => \A i \in 1..Len(stream.sent) :
      LET upto == FlattenSeq([k \in 1..i |-> Encode(stream.sent[k])])
      IN rd > Len(upto) => Len(got) >= i
=============================================================================
