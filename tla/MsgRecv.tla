------------------------------ MODULE MsgRecv ------------------------------
(***************************************************************************)
(* How a connection turns the bytes it reads into messages (msg_recv_chain *)
(* and msg_parse of nc_message.c, on the mbufs of nc_mbuf.c).  The bytes   *)
(* the peer sends are one sequence, stream; an mbuf is a window of it,     *)
(* named by positions of the stream, and a read hands over any number of   *)
(* bytes that fits in the last mbuf of the message being received.         *)
(*                                                                         *)
(* The parser is a parameter: Parse(s, r, b) runs it on the part of the    *)
(* last mbuf b that message r has not parsed yet.  The parser sees one     *)
(* mbuf only, so what it needs in one piece and finds cut by the end of    *)
(* the mbuf it must ask to have moved to the next one (MSG_PARSE_REPAIR).  *)
(***************************************************************************)
EXTENDS Integers, Sequences, SequencesExt

CONSTANTS Streams,          \* what the peer may send: [sent, bytes]
          MbufSize,         \* mbuf_data_size()
          msg_get,          \* a message as msg_get returns it
          Parse(_, _, _)    \* the parser of the connection

VARIABLES stream,   \* what this peer sends
          rd,       \* the position after the last byte read
          mhdr,     \* the mbufs of the message being received, conn->rmsg
          r,        \* that message (msg_get when conn->rmsg is NULL)
          got,      \* the messages given to recv_done: [r, mhdr]
          err       \* conn->err: "", "EINVAL" (rejected) or "ENOMEM"

vars == <<stream, rd, mhdr, r, got, err>>

mbuf_get(at) == [pos |-> at, last |-> at, end |-> at + MbufSize]

mbuf_full(b) == b.last = b.end

\* The bytes that moved are left in the old mbuf as well.
Faulty_mbuf_split(h, at) ==
    [old |-> h, new |-> [mbuf_get(at) EXCEPT !.last = Last(h).last]]

\* The part of the last mbuf from at on moves to a new mbuf.
mbuf_split(h, at) ==
    [old |-> Append(Front(h), [Last(h) EXCEPT !.last = at]),
     new |-> [mbuf_get(at) EXCEPT !.last = Last(h).last]]

\* The message is complete.  What follows it in the mbuf starts a message
\* of its own, in an mbuf of its own.
msg_parsed(c, q) ==
    LET h == mbuf_split(c.mhdr, q.pos) IN
      IF q.pos = Last(c.mhdr).last
      THEN [mhdr |-> <<>>, r |-> msg_get, err |-> "",
            got |-> Append(c.got, [r |-> q, mhdr |-> c.mhdr])]
      ELSE [mhdr |-> <<h.new>>, r |-> [msg_get EXCEPT !.pos = q.pos],
            err |-> "", got |-> Append(c.got, [r |-> q, mhdr |-> h.old])]

msg_repair(c, q) ==
    LET h == mbuf_split(c.mhdr, q.pos) IN
      [c EXCEPT !.mhdr = Append(h.old, h.new), !.r = q]

\* Parses until the message wants more bytes, is bad, or nothing is left.
RECURSIVE msg_parse(_)
msg_parse(c) ==
    LET q == Parse(stream.bytes, c.r, Last(c.mhdr)) IN
      CASE q.result = "OK" ->
             LET d == msg_parsed(c, q) IN
               IF d.mhdr = <<>> THEN d ELSE msg_parse(d)
        [] q.result = "REPAIR" -> msg_repair(c, q)
        [] q.result = "AGAIN"  -> [c EXCEPT !.r = q]
        [] q.result = "ERROR"  -> [c EXCEPT !.r = q, !.err = "EINVAL"]

Init == /\ stream \in Streams
        /\ rd = 1
        /\ mhdr = <<>>
        /\ r = msg_get
        /\ got = <<>>
        /\ err = ""

NeedsMbuf == mhdr = <<>> \/ mbuf_full(Last(mhdr))

\* One read of n bytes, and the parsing of all that it brings.
msg_recv_chain(n) ==
    LET h == IF NeedsMbuf THEN Append(mhdr, mbuf_get(rd)) ELSE mhdr
        b == [Last(h) EXCEPT !.last = @ + n]
        q == IF NeedsMbuf THEN [r EXCEPT !.pos = rd] ELSE r
    IN /\ err = ""
       /\ n <= Last(h).end - Last(h).last
       /\ rd + n <= Len(stream.bytes) + 1
       /\ \E c \in {msg_parse([mhdr |-> Append(Front(h), b), r |-> q,
                               got |-> got, err |-> ""])} :
            /\ mhdr' = c.mhdr
            /\ r' = c.r
            /\ got' = c.got
            /\ err' = c.err
       /\ rd' = rd + n
       /\ UNCHANGED stream

\* No memory for an mbuf, for the read or for a split: the connection is
\* closed with what it has delivered so far.
mbuf_get_fails ==
    /\ err = ""
    /\ rd <= Len(stream.bytes)
    /\ err' = "ENOMEM"
    /\ UNCHANGED <<stream, rd, mhdr, r, got>>

Next == \/ \E n \in 1..MbufSize : msg_recv_chain(n)
        \/ mbuf_get_fails

Spec == Init /\ [][Next]_vars

Tiled(h) ==
    /\ \A i \in 1..Len(h) : h[i].pos <= h[i].last /\ h[i].last <= h[i].end
    /\ \A i \in 1..Len(h) - 1 : h[i].last = h[i + 1].pos

\* The mbufs of a message tile the bytes it holds, each within its capacity,
\* and consecutive messages tile the stream: nothing is lost, doubled or
\* reordered by the splits and repairs, and the parser's marker is in the
\* last mbuf of the message being received.
BytesTile ==
    LET from(i) == IF i = 1 THEN 1 ELSE Last(got[i - 1].mhdr).last IN
      /\ \A i \in 1..Len(got) : /\ Tiled(got[i].mhdr)
                               /\ got[i].mhdr[1].pos = from(i)
      /\ mhdr # <<>> => /\ Tiled(mhdr)
                        /\ mhdr[1].pos = from(Len(got) + 1)
                        /\ Last(mhdr).last = rd
                        /\ Last(mhdr).pos <= r.pos /\ r.pos <= rd
=============================================================================
