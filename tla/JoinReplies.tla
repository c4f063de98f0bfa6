---------------------------- MODULE JoinReplies ----------------------------
(***************************************************************************)
(* The replies to the fragments of an MGET or a get are joined into one,   *)
(* mbuf by mbuf (pre_coalesce and post_coalesce of proto/nc_redis.c and    *)
(* proto/nc_memcache.c).  Fragment says which bulk goes where; this module *)
(* checks that the bytes and the mbufs follow.                             *)
(***************************************************************************)
EXTENDS MbufChain

CONSTANT Joins   \* [redis, parts, order]: the words in each fragment's reply
                 \* and, for each key of the request, its fragment

VARIABLES join, c, cut, err
\* c.m[1] is the client's reply, c.m[1 + j] the reply to fragment j; cut, the
\* replies that came in; err, the client's connection was given up.

vars == <<join, c, cut, err>>

-----------------------------------------------------------------------------
(* Replies as the servers send them; <<"-">> stands for a missing value.   *)

entry(w) == IF ~join.redis
            THEN <<"V", " ", "k", " ", "0", " ">> \o number(Len(w)) \o <<CR, LF>>
                 \o w \o <<CR, LF>>
            ELSE IF w = <<"-">> THEN <<"$", "-", "1", CR, LF>>
            ELSE bulk(w)
count(k) == <<"*">> \o number(k) \o <<CR, LF>>
end == <<"E", CR, LF>>

words(ws) == FlattenSeq([i \in 1..Len(ws) |-> entry(ws[i])])
Sent(ws) == IF join.redis THEN count(Len(ws)) \o words(ws) ELSE words(ws) \o end

\* What the parser keeps whole: from the $ to the CR, or VALUE to the LF.
Tokens(w) ==
    LET first(p, ch) == Min({q \in p..Len(w) : w[q] = ch}) IN
      IF join.redis THEN {<<p, first(p, CR)>> : p \in {q \in 1..Len(w) : w[q] = "$"}}
      ELSE {<<p, first(p, LF)>> : p \in {q \in 1..Len(w) : w[q] = "V"}}

Reply(ws) == LET w == Sent(ws)
             IN [mhdr |-> received(w, 1, Tokens(w)), mlen |-> Len(w)]

Init == /\ join \in Joins
        /\ \E r \in {[j \in 1..Len(join.parts) |-> Reply(join.parts[j])]} :
             c = [m |-> <<msg_get>> \o r,
                  held |-> MapThenSumSet(LAMBDA j : Len(r[j].mhdr), 1..Len(r))]
        /\ cut = {}
        /\ err = FALSE

-----------------------------------------------------------------------------
\* The header is cut off and still counted in mlen.
Faulty_skip_narg(i) ==
    LET size == Len(count(Len(join.parts[i - 1]))) IN
      [c EXCEPT !.m[i].mhdr[1].data = SubSeq(@, size + 1, Len(@))]

\* redis_pre_coalesce: the count of the array, narg_start to narg_end and
\* the line end, is at the start of the first mbuf.
skip_narg(i) ==
    LET size == Len(count(Len(join.parts[i - 1]))) IN
      [c EXCEPT !.m[i].mhdr[1].data = SubSeq(@, size + 1, Len(@)),
                !.m[i].mlen = @ - size]

\* The mbufs after the end marker are dropped and not given back.
Faulty_drop_end(i) ==
    LET h == c.m[i].mhdr
        k == Max({j \in 1..Len(h) : \E p \in 1..Len(h[j].data) : h[j].data[p] = "E"})
        p == CHOOSE q \in 1..Len(h[k].data) : h[k].data[q] = "E"
    IN [c EXCEPT !.m[i] =
          [mhdr |-> Append(SubSeq(h, 1, k - 1),
                      [data |-> SubSeq(h[k].data, 1, p - 1),
                       room |-> h[k].room + Len(h[k].data) - (p - 1)]),
           mlen |-> @.mlen - Len(end)]]

\* memcache_pre_coalesce: the mbufs after the one with the end marker,
\* r->end, go back and that one ends where the marker starts.
drop_end(i) ==
    LET h == c.m[i].mhdr
        k == Max({j \in 1..Len(h) : \E p \in 1..Len(h[j].data) : h[j].data[p] = "E"})
        p == CHOOSE q \in 1..Len(h[k].data) : h[k].data[q] = "E"
    IN [m |-> [c.m EXCEPT ![i] =
                 [mhdr |-> Append(SubSeq(h, 1, k - 1),
                             [data |-> SubSeq(h[k].data, 1, p - 1),
                              room |-> h[k].room + Len(h[k].data) - (p - 1)]),
                  mlen |-> @.mlen - Len(end)]],
        held |-> c.held - (Len(h) - k)]

pre_coalesce(j) ==
    /\ j \notin cut
    /\ cut' = cut \cup {j}
    /\ c' = IF join.redis THEN skip_narg(1 + j) ELSE drop_end(1 + j)
    /\ UNCHANGED <<join, err>>

Joined == c.m[1].mhdr # <<>>

\* The header counts the fragments, not the keys.
Faulty_post_coalesce ==
    LET mget == FoldLeft(LAMBDA d, j : copy_bulk(d, 1, 1 + j, TRUE),
                         msg_prepend(c, 1, count(Len(join.parts))), join.order)
        get == FoldLeft(LAMBDA d, j : copy_bulk(d, 1, 1 + j, FALSE),
                        c, join.order)
    IN /\ cut = 1..Len(join.parts) /\ ~Joined /\ ~err
       /\ c' = IF join.redis THEN mget ELSE msg_append(get, 1, end)
       /\ UNCHANGED <<join, cut, err>>

\* Key by key, the next bulk of its fragment's reply.
post_coalesce ==
    LET mget == FoldLeft(LAMBDA d, j : copy_bulk(d, 1, 1 + j, TRUE),
                         msg_prepend(c, 1, count(Len(join.order))), join.order)
        get == FoldLeft(LAMBDA d, j : copy_bulk(d, 1, 1 + j, FALSE),
                        c, join.order)
    IN /\ cut = 1..Len(join.parts) /\ ~Joined /\ ~err
       /\ c' = IF join.redis THEN mget ELSE msg_append(get, 1, end)
       /\ UNCHANGED <<join, cut, err>>

\* There is no memory for the first mbuf the reply needs.
mbuf_get_fails ==
    /\ cut = 1..Len(join.parts) /\ ~Joined /\ ~err
    /\ err' = TRUE
    /\ UNCHANGED <<join, c, cut>>

Next == \/ \E j \in 1..Len(join.parts) : pre_coalesce(j)
        \/ post_coalesce
        \/ mbuf_get_fails

Spec == Init /\ [][Next]_vars

-----------------------------------------------------------------------------
\* The words of the reply, in the order copy_bulk takes them: for each key
\* the next word of its fragment, none when a memcache reply has no more.
Reference ==
    LET nth(i) == Cardinality({k \in 1..i : join.order[k] = join.order[i]})
        word(i) == IF nth(i) <= Len(join.parts[join.order[i]])
                   THEN entry(join.parts[join.order[i]][nth(i)]) ELSE <<>>
        all == FlattenSeq([i \in 1..Len(join.order) |-> word(i)])
    IN IF join.redis THEN count(Len(join.order)) \o all ELSE all \o end

\* The bytes of the joined reply are those one server would have sent, however
\* the replies were cut into mbufs and whether the bulks were stolen or copied.
JoinedBytes == Joined => Content(c.m[1]) = Reference

\* The replies to the fragments are left with nothing and say so: the test
\* mlen == 0 in msg_send_chain is what takes them off the client's queue.
FragmentsEmpty ==
    Joined => \A i \in 2..Len(c.m) : Content(c.m[i]) = <<>> /\ c.m[i].mlen = 0

\* No mbuf is lost or in two chains at any time: a chain's mbufs go to the
\* client's reply or back to the free list.
MbufsKept == Kept(c)
=============================================================================
