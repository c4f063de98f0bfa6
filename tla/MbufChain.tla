----------------------------- MODULE MbufChain -----------------------------
(***************************************************************************)
(* Messages as chains of mbufs (nc_mbuf.c and nc_message.c): how words are *)
(* added at the ends of a chain, and how one bulk moves from the chain of  *)
(* a message to that of another (redis_copy_bulk, memcache_copy_bulk).     *)
(*                                                                         *)
(* An mbuf is the bytes between pos and last, and the room between last    *)
(* and end; a message is its mbufs and mlen, the length it claims.  The    *)
(* operators work on c: the messages c.m[1], c.m[2], ..., and c.held, the  *)
(* number of mbufs that mbuf_get gave out and mbuf_put has not taken back. *)
(***************************************************************************)
EXTENDS Parsing, FiniteSetsExt

CONSTANT MbufSize   \* mbuf_data_size()

mbuf_get == [data |-> <<>>, room |-> MbufSize]

mbuf_copy(b, w) == [data |-> b.data \o w, room |-> b.room - Len(w)]

msg_get == [mhdr |-> <<>>, mlen |-> 0]

Content(m) == FlattenSeq([i \in 1..Len(m.mhdr) |-> m.mhdr[i].data])

\* The number of bytes in the first k mbufs of a chain.
Upto(h, k) == MapThenSumSet(LAMBDA i : Len(h[i].data), 1..k)

-----------------------------------------------------------------------------
\* An mbuf of message i with room for len more bytes, at the end of its chain.
msg_ensure_mbuf(c, i, len) ==
    LET h == c.m[i].mhdr IN
      IF h = <<>> \/ Last(h).room < len
      THEN [m |-> [c.m EXCEPT ![i].mhdr = Append(@, mbuf_get)], held |-> c.held + 1]
      ELSE c

msg_append(c, i, w) ==
    LET d == msg_ensure_mbuf(c, i, Len(w)) IN
      [d EXCEPT !.m[i] = [mhdr |-> Append(Front(@.mhdr), mbuf_copy(Last(@.mhdr), w)),
                          mlen |-> @.mlen + Len(w)]]

\* A header goes to an mbuf of its own.
msg_prepend(c, i, w) ==
    [m |-> [c.m EXCEPT ![i] = [mhdr |-> <<mbuf_copy(mbuf_get, w)>> \o @.mhdr,
                               mlen |-> @.mlen + Len(w)]],
     held |-> c.held + 1]

-----------------------------------------------------------------------------
\* The number that the digits from position p of an mbuf make, and the
\* position after them.  The mbuf's end also ends them.
digits_end(w, p) == Min({q \in p..Len(w) + 1 : q > Len(w) \/ ~isdigit(w[q])})
value(w, p) == FoldLeft(LAMBDA x, ch : 10 * x + digit(ch), 0,
                        SubSeq(w, p, digits_end(w, p) - 1))

\* The bytes of the redis bulk that starts an mbuf, $len\r\n and the rest.
bulk_length(w) ==
    IF w[2] = "-" THEN 5 ELSE value(w, 2) + 4 + (digits_end(w, 2) - 1)

\* The bytes of the memcache value that starts an mbuf,
\* VALUE key flags len [cas]\r\n and the rest; VALUE is one byte here.
value_length(w) ==
    LET at == Min({p \in 1..Len(w) : Cardinality({q \in 1..p : w[q] = " "}) = 3}) + 1
        cr == Min({p \in at..Len(w) + 1 : p > Len(w) \/ w[p] = CR})
    IN value(w, at) + 4 + (cr - 1)

\* Leading mbufs with nothing left in them are given back.
nonempty(h) ==
    LET first == {i \in 1..Len(h) : h[i].data # <<>>}
    IN IF first = {} THEN <<>> ELSE SubSeq(h, Min(first), Len(h))

\* One bulk, of the length its first mbuf states, moves from message src to
\* message dst: its mbufs as they are as long as the bulk covers them, and
\* the rest, in the mbuf where it ends, by copying: to the end of dst (redis)
\* or to a new mbuf (memcache).  Without dst, 0, the bulk is dropped.
\* msg_append counts its bytes in mlen, and so does the last line.
copy_bulk(c, dst, src, redis) ==
    LET h == nonempty(c.m[src].mhdr)
        len == IF redis THEN bulk_length(h[1].data) ELSE value_length(h[1].data)
        k == Max({i \in 0..Len(h) : Upto(h, i) <= len})
        rest == len - Upto(h, k)
        cut == k < Len(h)
        left == IF cut THEN <<[h[k + 1] EXCEPT !.data = SubSeq(@, rest + 1, Len(@))]>>
                            \o SubSeq(h, k + 2, Len(h))
                ELSE <<>>
        put == Len(c.m[src].mhdr) - Len(h)
        took == [m |-> [c.m EXCEPT ![src] = [mhdr |-> left, mlen |-> @.mlen - len]],
                 held |-> c.held - put]
        stole == [took EXCEPT !.m[dst].mhdr = @ \o SubSeq(h, 1, k)]
        tail == SubSeq(h[k + 1].data, 1, rest)
        moved == IF ~cut THEN stole
                 ELSE IF redis THEN msg_append(stole, dst, tail)
                 ELSE [m |-> [stole.m EXCEPT ![dst].mhdr =
                                Append(@, mbuf_copy(mbuf_get, tail))],
                       held |-> stole.held + 1]
    IN IF h = <<>> THEN [m |-> [c.m EXCEPT ![src].mhdr = <<>>], held |-> c.held - put]
       ELSE IF dst = 0 THEN took
       ELSE [moved EXCEPT !.m[dst].mlen = @ + len]

-----------------------------------------------------------------------------
\* A message as the parser leaves it: mbufs filled one after the other, but
\* no cut through an interval <<a, b>> of tokens, which it keeps whole by
\* moving it to the next mbuf (see RedisRequest, RedisResponse and
\* MemcacheResponse).
RECURSIVE received(_, _, _)
received(w, from, tokens) ==
    LET full == Min({from + MbufSize - 1, Len(w)})
        broken == {t \in tokens : t[1] <= full /\ full < t[2]}
        to == IF broken = {} THEN full ELSE Min({t[1] : t \in broken}) - 1
    IN IF from > Len(w) THEN <<>>
       ELSE <<mbuf_copy(mbuf_get, SubSeq(w, from, to))>> \o received(w, to + 1, tokens)

\* Every mbuf given out is in a message, and only once.
Kept(c) == c.held = MapThenSumSet(LAMBDA i : Len(c.m[i].mhdr), 1..Len(c.m))
=============================================================================
