---------------------------- MODULE RedisResponse ----------------------------
(***************************************************************************)
(* The parser of redis replies (redis_parse_rsp of proto/nc_redis.c) on    *)
(* the messages of MsgRecv.  A server's replies follow one another on the  *)
(* connection and each answers the oldest request waiting there, so a      *)
(* reply that ends in the wrong place answers somebody else's request.     *)
(*                                                                         *)
(* A byte is a string; the error code of an error reply is its first byte, *)
(* followed by "x" up to its length.                                       *)
(***************************************************************************)
EXTENDS Parsing

CONSTANTS Replies,   \* what a server may answer: sequences of replies
          MbufSize   \* mbuf_data_size()

VARIABLES stream, rd, mhdr, r, got, err

\* The error codes the proxy knows, by length with the "-".
errors == <<{}, {}, {}, {"ERR", "OOM"}, {"BUSY"}, {}, {"NOAUTH"},
            {"LOADING", "BUSYKEY", "MISCONF"}, {"NOSCRIPT", "READONLY"},
            {"WRONGTYPE", "EXECABORT"}, {"MASTERDOWN", "NOREPLICAS"}>>

msg_get == [state |-> "SW_START", pos |-> 1, token |-> 0, rlen |-> 0,
            rnarg |-> 0, narg |-> 0, narg_start |-> 0, narg_end |-> 0,
            integer |-> 0, type |-> "UNKNOWN", result |-> "AGAIN"]

-----------------------------------------------------------------------------
(* The parser.  Go(q, p - 1) reads the byte at p again in the next state.  *)

Start(q, p, ch) ==
    LET kind(t, next) == Go([q EXCEPT !.type = t, !.state = next], p - 1) IN
      CASE ch = "+" -> kind("STATUS", "SW_STATUS")
        [] ch = "-" -> kind("ERROR", "SW_ERROR")
        [] ch = ":" -> kind("INTEGER", "SW_INTEGER")
        [] ch = "$" -> kind("BULK", "SW_BULK")
        [] ch = "*" -> kind("MULTIBULK", "SW_MULTIBULK")
        [] OTHER    -> Error([q EXCEPT !.type = "UNKNOWN"])

\* SW_ERROR: the code ends at a space or a CR.  Either way the parser goes
\* on to look for a CR.
ErrorCode(s, q, p, ch) ==
    LET t == IF q.token = 0 THEN p ELSE q.token
        known == p - t \in DOMAIN errors /\ s[t + 1] \in errors[p - t]
    IN IF q.token = 0 /\ ch # "-" THEN Error(q)
       ELSE IF ch \notin {" ", CR} THEN Go([q EXCEPT !.token = t], p)
       ELSE Go([q EXCEPT !.token = 0, !.state = "SW_RUNTO_CRLF",
                         !.type = IF known THEN s[t + 1] ELSE @], p)

Integer(q, p, ch) ==
    CASE ch = CR     -> Go([q EXCEPT !.state = "SW_ALMOST_DONE"], p)
      [] ch = "-"    -> Go(q, p)
      [] isdigit(ch) -> Go([q EXCEPT !.integer = @ * 10 + digit(ch)], p)
      [] OTHER       -> Error(q)

\* An element of one line is not counted.
Faulty_Simple(q, p, ch) ==
    Go([q EXCEPT !.state = IF ch = CR THEN "SW_MULTIBULK_ARGN_LF" ELSE @], p)

\* SW_SIMPLE: an element of one line.
Simple(q, p, ch) ==
    IF ch = CR
    THEN Go([q EXCEPT !.state = "SW_MULTIBULK_ARGN_LF", !.rnarg = @ - 1], p)
    ELSE Go(q, p)

\* SW_BULK: the length of a bulk reply, or the -1 of a null one.
Bulk(q, p, ch) ==
    IF q.token = 0
    THEN IF ch = "$" THEN Go([q EXCEPT !.token = p, !.rlen = 0], p)
                     ELSE Error(q)
    ELSE CASE ch = "-" -> Go([q EXCEPT !.state = "SW_RUNTO_CRLF"], p)
           [] isdigit(ch) -> Go([q EXCEPT !.rlen = @ * 10 + digit(ch)], p)
           [] ch = CR /\ p - q.token > 1 ->
                Go([q EXCEPT !.token = 0, !.state = "SW_BULK_LF"], p)
           [] OTHER -> Error(q)

\* The count is remembered from its first digit on.
Faulty_Multibulk(q, p, ch) ==
    IF q.token = 0
    THEN IF ch = "*"
         THEN Go([q EXCEPT !.token = p, !.narg_start = p + 1, !.rnarg = 0], p)
         ELSE Error(q)
    ELSE CASE ch = "-" -> Go([q EXCEPT !.state = "SW_RUNTO_CRLF"], p)
           [] isdigit(ch) -> Go([q EXCEPT !.rnarg = @ * 10 + digit(ch)], p)
           [] ch = CR /\ p - q.token > 1 ->
                Go([q EXCEPT !.narg = q.rnarg, !.narg_end = p, !.token = 0,
                             !.state = "SW_MULTIBULK_NARG_LF"], p)
           [] OTHER -> Error(q)

\* SW_MULTIBULK: the number of elements, and where the proxy finds it again
\* when it joins the replies of a fragmented request.
Multibulk(q, p, ch) ==
    IF q.token = 0
    THEN IF ch = "*"
         THEN Go([q EXCEPT !.token = p, !.narg_start = p, !.rnarg = 0], p)
         ELSE Error(q)
    ELSE CASE ch = "-" -> Go([q EXCEPT !.state = "SW_RUNTO_CRLF"], p)
           [] isdigit(ch) -> Go([q EXCEPT !.rnarg = @ * 10 + digit(ch)], p)
           [] ch = CR /\ p - q.token > 1 ->
                Go([q EXCEPT !.narg = q.rnarg, !.narg_end = p, !.token = 0,
                             !.state = "SW_MULTIBULK_NARG_LF"], p)
           [] OTHER -> Error(q)

\* A missing element is taken for one of a single byte.
Faulty_ElementLength(q, p, ch) ==
    CASE isdigit(ch) -> Go([q EXCEPT !.rlen = @ * 10 + digit(ch)], p)
      [] ch = "-"    -> Go(q, p)
      [] ch = CR /\ p - q.token > 1 /\ q.rnarg # 0 ->
           Go([q EXCEPT !.rnarg = @ - 1, !.token = 0,
                        !.state = "SW_MULTIBULK_ARGN_LEN_LF"], p)
      [] OTHER -> Error(q)

\* A missing element is $-1, the only one of value 1 and three bytes.
ElementLength(q, p, ch) ==
    CASE isdigit(ch) -> Go([q EXCEPT !.rlen = @ * 10 + digit(ch)], p)
      [] ch = "-"    -> Go(q, p)
      [] ch = CR /\ p - q.token > 1 /\ q.rnarg # 0 ->
           LET nil == q.rlen = 1 /\ p - q.token = 3 IN
             Go([q EXCEPT !.rnarg = @ - 1, !.token = 0,
                          !.rlen = IF nil THEN 0 ELSE @,
                          !.state = IF nil THEN "SW_MULTIBULK_ARGN_LF"
                                    ELSE "SW_MULTIBULK_ARGN_LEN_LF"], p)
      [] OTHER -> Error(q)

\* SW_MULTIBULK_ARGN_LEN: the start of an element.  A nested array, the last
\* element of a scan's reply, takes over the count.
Element(q, p, ch) ==
    IF q.token # 0 THEN ElementLength(q, p, ch)
    ELSE CASE ch = "*" -> Go([q EXCEPT !.state = "SW_MULTIBULK"], p - 1)
           [] ch \in {":", "+", "-"} -> Go([q EXCEPT !.state = "SW_SIMPLE"], p)
           [] ch = "$" -> Go([q EXCEPT !.token = p, !.rlen = 0], p)
           [] OTHER -> Error(q)

\* The reply ends one element early.
Faulty_NextElement(q, p, ch) ==
    IF ch # LF THEN Error(q)
    ELSE IF q.rnarg <= 1 THEN Done(q, p)
    ELSE Go([q EXCEPT !.state = "SW_MULTIBULK_ARGN_LEN"], p)

\* The line feed of the array's count, or of an element.
NextElement(q, p, ch) ==
    IF ch # LF THEN Error(q)
    ELSE IF q.rnarg = 0 THEN Done(q, p)
    ELSE Go([q EXCEPT !.state = "SW_MULTIBULK_ARGN_LEN"], p)

Last_LF(q, p, ch) == IF ch = LF THEN Done(q, p) ELSE Error(q)

Step(s, b, q, p) ==
    LET ch == s[p] IN
      CASE q.state = "SW_START" -> Start(q, p, ch)
        [] q.state = "SW_STATUS" -> Go([q EXCEPT !.state = "SW_RUNTO_CRLF"], p)
        [] q.state = "SW_ERROR" -> ErrorCode(s, q, p, ch)
        [] q.state = "SW_INTEGER" ->
             Go([q EXCEPT !.state = "SW_INTEGER_START", !.integer = 0], p)
        [] q.state = "SW_INTEGER_START" -> Integer(q, p, ch)
        [] q.state = "SW_SIMPLE" -> Simple(q, p, ch)
        [] q.state = "SW_RUNTO_CRLF" ->
             Go([q EXCEPT !.state = IF ch = CR THEN "SW_ALMOST_DONE" ELSE @], p)
        [] q.state \in {"SW_ALMOST_DONE", "SW_BULK_ARG_LF"} -> Last_LF(q, p, ch)
        [] q.state = "SW_BULK" -> Bulk(q, p, ch)
        [] q.state = "SW_BULK_LF" -> Linefeed(q, p, ch, "SW_BULK_ARG")
        [] q.state = "SW_BULK_ARG" -> Skip(s, b, q, p, "SW_BULK_ARG_LF")
        [] q.state = "SW_MULTIBULK" -> Multibulk(q, p, ch)
        [] q.state \in {"SW_MULTIBULK_NARG_LF", "SW_MULTIBULK_ARGN_LF"} ->
             NextElement(q, p, ch)
        [] q.state = "SW_MULTIBULK_ARGN_LEN" -> Element(q, p, ch)
        [] q.state = "SW_MULTIBULK_ARGN_LEN_LF" ->
             Linefeed(q, p, ch, "SW_MULTIBULK_ARGN")
        [] q.state = "SW_MULTIBULK_ARGN" ->
             Skip(s, b, q, p, "SW_MULTIBULK_ARGN_LF")

RECURSIVE Scan(_, _, _, _)
Scan(s, b, q, p) ==
    IF p >= b.last THEN MoreBytes(b, q)
    ELSE LET a == Step(s, b, q, p) IN
           IF a.out = "go" THEN Scan(s, b, a.q, a.p + 1) ELSE Ended(a)

redis_parse_rsp(s, q, b) == Scan(s, b, q, q.pos)

-----------------------------------------------------------------------------
(* What a server sends: a reply is [kind, ...]; the elements of an array   *)
(* are replies, and only the last may be an array.                         *)

RECURSIVE Encode(_)
Encode(a) ==
    CASE a.kind = "STATUS"  -> <<"+", "x", "x", CR, LF>>
      [] a.kind = "ERROR"   -> <<"-", a.code>> \o [i \in 1..a.size - 1 |-> "x"]
                               \o (IF a.text THEN <<" ", "x">> ELSE <<>>)
                               \o <<CR, LF>>
      [] a.kind = "INTEGER" -> <<":">> \o number(a.value) \o <<CR, LF>>
      [] a.kind = "BULK"    -> bulk([i \in 1..a.size |-> "x"])
      [] a.kind = "NIL"     -> <<"$", "-", "1", CR, LF>>
      [] a.kind = "NOARRAY" -> <<"*", "-", "1", CR, LF>>
      [] a.kind = "MULTIBULK" ->
           <<"*">> \o number(Len(a.of)) \o <<CR, LF>>
           \o FlattenSeq([i \in 1..Len(a.of) |-> Encode(a.of[i])])

Recv == INSTANCE MsgRecv WITH
          Parse <- redis_parse_rsp,
          Streams <- {[sent |-> s,
                       bytes |-> FlattenSeq([i \in 1..Len(s) |-> Encode(s[i])])]
                      : s \in Replies}

Spec == Recv!Spec

-----------------------------------------------------------------------------
TypeOf(a) ==
    CASE a.kind = "NIL" -> "BULK"
      [] a.kind = "NOARRAY" -> "MULTIBULK"
      [] a.kind = "ERROR" -> IF a.code \in UNION Range(errors) THEN a.code
                             ELSE "ERROR"
      [] OTHER -> a.kind

\* However the bytes are cut, the messages given to rsp_recv_done are the
\* replies the server sent, one for one: each ends where its reply ends and
\* has its kind, and the number a DEL or EXISTS is added up from.
RepliesKept ==
    /\ Len(got) <= Len(stream.sent)
    /\ \A i \in 1..Len(got) :
         LET a == stream.sent[i]
             h == got[i].mhdr
         IN /\ Last(h).last - h[1].pos = Len(Encode(a))
            /\ got[i].r.type = TypeOf(a)
            /\ a.kind = "INTEGER" => got[i].r.integer = a.value

\* A server that keeps to the protocol is never cut off for a bad reply.
NoneRejected == err # "EINVAL"

\* The count of an array of plain elements and its line end, which are cut
\* away when the replies of a fragmented MGET are joined, are at the head of
\* the message's first mbuf (the assertions of redis_pre_coalesce).
HeaderFirst ==
    \A i \in 1..Len(got) :
      LET a == stream.sent[i]
          q == got[i].r
          h == got[i].mhdr[1]
      IN a.kind = "MULTIBULK" /\ (\A e \in Range(a.of) : e.kind # "MULTIBULK") =>
           /\ q.narg_start = h.pos /\ q.narg_start < q.narg_end
           /\ q.narg_end + 2 <= h.last
           /\ q.narg = Len(a.of)

\* As soon as the last byte of a reply is in, the reply has been delivered: no
\* cut leaves the parser waiting for a byte it already has.
Prompt ==
    err = "" => \A i \in 1..Len(stream.sent) :
      LET upto == FlattenSeq([k \in 1..i |-> Encode(stream.sent[k])])
      IN rd > Len(upto) => Len(got) >= i
=============================================================================
