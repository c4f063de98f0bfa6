-------------------------- MODULE MemcacheResponse --------------------------
(***************************************************************************)
(* The parser of memcache replies (memcache_parse_rsp of                   *)
(* proto/nc_memcache.c) on the messages of MsgRecv.  The reply to a get is *)
(* any number of values, each a line and a block, and an END line.  A line *)
(* that the end of an mbuf cuts is moved and read again from its start.    *)
(*                                                                         *)
(* A byte is a string; the first word of a line is its first byte followed *)
(* by "x" up to its length.                                                *)
(***************************************************************************)
EXTENDS Parsing

CONSTANTS Replies,   \* what a server may answer: sequences of replies
          MbufSize   \* mbuf_data_size()

VARIABLES stream, rd, mhdr, r, got, err

SP == " "

\* The first words of a line, by length.
names == <<{}, {}, {"END"}, {}, {"VALUE", "ERROR"}, {"STORED", "EXISTS"},
           {"DELETED", "TOUCHED"}, {}, {"NOT_FOUND"}, {"NOT_STORED"}, {},
           {"CLIENT_ERROR", "SERVER_ERROR"}>>

msg_get == [state |-> "SW_START", pos |-> 1, token |-> 0, rlen |-> 0,
            type |-> "UNKNOWN", end |-> 0, result |-> "AGAIN"]

-----------------------------------------------------------------------------
(* The parser; rlen stands for vlen.  Go(q, p - 1) reads the byte at p     *)
(* again in the next state.                                                *)

Start(q, p, ch) ==
    Go([q EXCEPT !.state = IF isdigit(ch) THEN "SW_RSP_NUM" ELSE "SW_RSP_STR"],
       p - 1)

\* A number keeps the type of the line before it.
Faulty_RspNum(q, p, ch) ==
    LET t == IF q.token = 0 THEN p ELSE q.token IN
      CASE isdigit(ch) -> Go([q EXCEPT !.token = t], p)
        [] ch \in {SP, CR} -> Go([q EXCEPT !.token = 0,
                                           !.state = "SW_CRLF"], p - 1)
        [] OTHER -> Error(q)

RspNum(q, p, ch) ==
    LET t == IF q.token = 0 THEN p ELSE q.token IN
      CASE isdigit(ch) -> Go([q EXCEPT !.token = t], p)
        [] ch \in {SP, CR} -> Go([q EXCEPT !.token = 0, !.type = "NUM",
                                           !.state = "SW_CRLF"], p - 1)
        [] OTHER -> Error(q)

\* A one-word reply falls through to the case of a value.
Faulty_AfterWord(type) ==
    CASE type \in {"CLIENT_ERROR", "SERVER_ERROR"} -> "SW_RUNTO_CRLF"
      [] type \in {"END", "ERROR"} -> "SW_CRLF"
      [] OTHER -> "SW_SPACES_BEFORE_KEY"

AfterWord(type) ==
    CASE type = "VALUE" -> "SW_SPACES_BEFORE_KEY"
      [] type \in {"CLIENT_ERROR", "SERVER_ERROR"} -> "SW_RUNTO_CRLF"
      [] OTHER -> "SW_CRLF"

\* The line may not be read again: its token is forgotten with its word.
Faulty_RspStr(s, q, p, ch) ==
    LET t == IF q.token = 0 THEN p ELSE q.token
        known == p - t \in DOMAIN names /\ s[t] \in names[p - t]
    IN IF ch \notin {SP, CR} THEN Go([q EXCEPT !.token = t], p)
       ELSE IF known
       THEN Go([q EXCEPT !.token = 0, !.type = s[t], !.state = AfterWord(s[t]),
                         !.end = IF s[t] = "END" THEN t ELSE @], p - 1)
       ELSE Error([q EXCEPT !.type = "UNKNOWN"])

\* SW_RSP_STR: the word of the line.  The token stays at its start until the
\* block begins, so that an mbuf's end moves the line as a whole.
RspStr(s, q, p, ch) ==
    LET t == IF q.token = 0 THEN p ELSE q.token
        known == /\ p - t \in DOMAIN names /\ s[t] \in names[p - t]
                 /\ s[t] = "END" => ch = CR
    IN IF ch \notin {SP, CR} THEN Go([q EXCEPT !.token = t], p)
       ELSE IF known
       THEN Go([q EXCEPT !.token = t, !.type = s[t], !.state = AfterWord(s[t]),
                         !.end = IF s[t] = "END" THEN t ELSE @], p - 1)
       ELSE Error([q EXCEPT !.token = t, !.type = "UNKNOWN"])

BeforeKey(q, p, ch) ==
    IF ch = SP THEN Go(q, p) ELSE Go([q EXCEPT !.state = "SW_KEY"], p - 1)

Key(q, p, ch) ==
    Go([q EXCEPT !.state = IF ch = SP THEN "SW_SPACES_BEFORE_FLAGS" ELSE @], p)

BeforeFlags(q, p, ch) ==
    CASE ch = SP     -> Go(q, p)
      [] isdigit(ch) -> Go([q EXCEPT !.state = "SW_FLAGS"], p - 1)
      [] OTHER       -> Error(q)

Flags(q, p, ch) ==
    CASE isdigit(ch) -> Go(q, p)
      [] ch = SP     -> Go([q EXCEPT !.state = "SW_SPACES_BEFORE_VLEN"], p)
      [] OTHER       -> Error(q)

BeforeVlen(q, p, ch) ==
    CASE ch = SP     -> Go(q, p)
      [] isdigit(ch) -> Go([q EXCEPT !.state = "SW_VLEN", !.rlen = 0], p - 1)
      [] OTHER       -> Error(q)

Vlen(q, p, ch) ==
    CASE isdigit(ch)     -> Go([q EXCEPT !.rlen = @ * 10 + digit(ch)], p)
      [] ch \in {SP, CR} -> Go([q EXCEPT !.state = "SW_RUNTO_CRLF"], p - 1)
      [] OTHER           -> Error(q)

RunToVal(q, p, ch) ==
    IF ch = LF THEN Go([q EXCEPT !.state = "SW_VAL", !.token = 0], p)
    ELSE Error(q)

RunToCrlf(q, p, ch) ==
    Go([q EXCEPT !.state = CASE ch # CR -> @
                             [] ch = CR /\ q.type = "VALUE" -> "SW_RUNTO_VAL"
                             [] ch = CR /\ q.type # "VALUE" -> "SW_ALMOST_DONE"],
       p)

Crlf(q, p, ch) ==
    CASE ch = SP -> Go(q, p)
      [] ch = CR -> Go([q EXCEPT !.state = "SW_ALMOST_DONE"], p)
      [] OTHER   -> Error(q)

Step(s, b, q, p) ==
    LET ch == s[p] IN
      CASE q.state = "SW_START" -> Start(q, p, ch)
        [] q.state = "SW_RSP_NUM" -> RspNum(q, p, ch)
        [] q.state = "SW_RSP_STR" -> RspStr(s, q, p, ch)
        [] q.state = "SW_SPACES_BEFORE_KEY" -> BeforeKey(q, p, ch)
        [] q.state = "SW_KEY" -> Key(q, p, ch)
        [] q.state = "SW_SPACES_BEFORE_FLAGS" -> BeforeFlags(q, p, ch)
        [] q.state = "SW_FLAGS" -> Flags(q, p, ch)
        [] q.state = "SW_SPACES_BEFORE_VLEN" -> BeforeVlen(q, p, ch)
        [] q.state = "SW_VLEN" -> Vlen(q, p, ch)
        [] q.state = "SW_RUNTO_VAL" -> RunToVal(q, p, ch)
        [] q.state = "SW_VAL" -> Skip(s, b, q, p, "SW_VAL_LF")
        [] q.state = "SW_VAL_LF" -> Linefeed(q, p, ch, "SW_RSP_STR")
        [] q.state = "SW_RUNTO_CRLF" -> RunToCrlf(q, p, ch)
        [] q.state = "SW_CRLF" -> Crlf(q, p, ch)
        [] q.state = "SW_ALMOST_DONE" ->
             IF ch = LF THEN Done(q, p) ELSE Error(q)

\* A moved line is read on in the state it was left in.
Faulty_LineAgain(b, q) == q

\* A line that is moved is read from its start: the state goes back as well,
\* except where the rest of the line is only run over.
LineAgain(b, q) ==
    IF b.last = b.end /\ q.token # 0
       /\ q.state \notin {"SW_VAL", "SW_VAL_LF", "SW_RUNTO_CRLF"}
    THEN [q EXCEPT !.state = "SW_START"] ELSE q

RECURSIVE Scan(_, _, _, _)
Scan(s, b, q, p) ==
    IF p >= b.last THEN MoreBytes(b, LineAgain(b, q))
    ELSE LET a == Step(s, b, q, p) IN
           IF a.out = "go" THEN Scan(s, b, a.q, a.p + 1) ELSE Ended(a)

memcache_parse_rsp(s, q, b) == Scan(s, b, q, q.pos)

-----------------------------------------------------------------------------
(* What a server sends: [kind |-> "VALUES", of], of being the sizes of the *)
(* keys and blocks and whether there is a cas number; [kind |-> "NUM"]; or *)
(* another word, with some text after an error.                            *)

word(c) == LET n == CHOOSE i \in DOMAIN names : c \in names[i]
           IN [i \in 1..n |-> IF i = 1 THEN c ELSE "x"]

Value(v) == word("VALUE") \o <<SP>> \o [i \in 1..v.key |-> "k"]
            \o <<SP, "5", SP>> \o number(v.size)
            \o (IF v.cas THEN <<SP, "7", "7">> ELSE <<>>) \o <<CR, LF>>
            \o [i \in 1..v.size |-> "v"] \o <<CR, LF>>

Encode(a) ==
    CASE a.kind = "VALUES" -> FlattenSeq([i \in 1..Len(a.of) |-> Value(a.of[i])])
                              \o word("END") \o <<CR, LF>>
      [] a.kind = "NUM" -> <<"4", "2", CR, LF>>
      [] a.kind \in {"CLIENT_ERROR", "SERVER_ERROR"} ->
           word(a.kind) \o <<SP, "x", "x", CR, LF>>
      [] OTHER -> word(a.kind) \o <<CR, LF>>

Recv == INSTANCE MsgRecv WITH
          Parse <- memcache_parse_rsp,
          Streams <- {[sent |-> s,
                       bytes |-> FlattenSeq([i \in 1..Len(s) |-> Encode(s[i])])]
                      : s \in Replies}

Spec == Recv!Spec

-----------------------------------------------------------------------------
\* However the bytes are cut, the messages given to rsp_recv_done are the
\* replies the server sent, one for one, each with the word of its last line.
RepliesKept ==
    /\ Len(got) <= Len(stream.sent)
    /\ \A i \in 1..Len(got) :
         LET a == stream.sent[i]
             h == got[i].mhdr
         IN /\ Last(h).last - h[1].pos = Len(Encode(a))
            /\ got[i].r.type = IF a.kind = "VALUES" THEN "END" ELSE a.kind

\* A server that keeps to the protocol is never cut off for a bad reply.
NoneRejected == err # "EINVAL"

\* The END line that is cut away when the replies of a fragmented get are
\* joined is where r->end says, whole, in the last mbuf of the message, after
\* however many moves of the line.
EndFound ==
    \A i \in 1..Len(got) :
      LET q == got[i].r
          h == Last(got[i].mhdr)
      IN stream.sent[i].kind = "VALUES" =>
           /\ stream.bytes[q.end] = "END" /\ q.end + 5 = h.last
           /\ h.pos <= q.end

\* As soon as the last byte of a reply is in, the reply has been delivered: no
\* cut leaves the parser waiting for a byte it already has.
Prompt ==
    err = "" => \A i \in 1..Len(stream.sent) :
      LET upto == FlattenSeq([k \in 1..i |-> Encode(stream.sent[k])])
      IN rd > Len(upto) => Len(got) >= i
=============================================================================
