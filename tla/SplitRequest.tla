---------------------------- MODULE SplitRequest ----------------------------
(***************************************************************************)
(* The bytes of a request with many keys are cut into those of its         *)
(* fragments (redis_fragment_argx and memcache_fragment_retrieval).  Keys  *)
(* are copied; the values of an MSET move mbuf by mbuf out of the request, *)
(* after the keys in front of them are dropped.                            *)
(***************************************************************************)
EXTENDS MbufChain

CONSTANT Splits   \* [type, keys, vals, to]: the words of the request and,
                  \* for each key, its fragment; a key fits into an mbuf

VARIABLES req, c, next
\* c.m[1] is the request, c.m[1 + j] its fragment j; next is the loop's
\* variable, 0 before the header is passed over: over the keys, then over
\* the fragments.

vars == <<req, c, next>>

-----------------------------------------------------------------------------
redis == req.type # "get"
name == CASE req.type = "mget" -> <<"m", "g", "e", "t">>
          [] req.type = "mset" -> <<"m", "s", "e", "t">>
          [] req.type = "del"  -> <<"d", "e", "l">>
          [] req.type = "get"  -> <<"g", "e", "t", " ">>

narg(k) == 1 + (IF req.type = "mset" THEN 2 * k ELSE k)
header(k) == IF redis THEN <<"*">> \o number(narg(k)) \o <<CR, LF>> \o bulk(name)
             ELSE name

\* The words of the keys at positions at, as they stand in a request.
arguments(at) ==
    FlattenSeq([i \in 1..Len(at) |->
                  CASE req.type = "mset" -> bulk(req.keys[at[i]]) \o bulk(req.vals[at[i]])
                    [] req.type = "get"  -> req.keys[at[i]] \o <<" ">>
                    [] OTHER             -> bulk(req.keys[at[i]])])
message(at) == header(Len(at)) \o arguments(at)
                 \o (IF redis THEN <<>> ELSE <<CR, LF>>)

n == Len(req.keys)

\* The parser keeps lengths and keys whole; a key here is made of the same
\* letter, and no value is made of that letter.
Tokens(w) ==
    LET first(p, ch) == Min({q \in p..Len(w) : w[q] = ch}) IN
      {<<p, first(p, CR)>> : p \in {q \in 1..Len(w) : w[q] = "$"}}
      \cup {<<p, first(p, IF redis THEN CR ELSE " ")>> :
              p \in {q \in 2..Len(w) : w[q] = "k" /\ w[q - 1] # "k"}}

Init == /\ req \in Splits
        /\ \E w \in {message([i \in 1..n |-> i])} : \E t \in {Tokens(w)} :
           \E h \in {received(w, 1, t)} :
             c = [m |-> <<[mhdr |-> h, mlen |-> Len(w)]>>
                        \o [j \in 1..Max(Range(req.to)) |-> msg_get],
                  held |-> Len(h)]
        /\ next = 0

-----------------------------------------------------------------------------
\* The key may be cut by the end of the fragment's last mbuf.
Faulty_redis_append_key(d, i, k) ==
    LET e == msg_append(d, i, <<"$">> \o number(Len(k)) \o <<CR, LF>>)
        room == Min({Last(e.m[i].mhdr).room, Len(k)})
        f == msg_append(e, i, SubSeq(k, 1, room))
    IN msg_append(msg_append(f, i, SubSeq(k, room + 1, Len(k))), i, <<CR, LF>>)

\* Length, key and line end, each in one mbuf.
redis_append_key(d, i, k) ==
    LET e == msg_append(d, i, <<"$">> \o number(Len(k)) \o <<CR, LF>>)
    IN msg_append(msg_append(e, i, k), i, <<CR, LF>>)

\* The key and a space, in an mbuf with room for two bytes after the key.
memcache_append_key(d, i, k) ==
    LET e == msg_ensure_mbuf(d, i, Len(k) + 2)
    IN msg_append(msg_append(e, i, k), i, <<" ">>)

\* The header of the request is passed over; its mlen is left as it is.
eat_header ==
    /\ next = 0
    /\ c' = [c EXCEPT !.m[1].mhdr[1].data = SubSeq(@, Len(header(n)) + 1, Len(@))]

append_key(d, i, k) == IF redis THEN redis_append_key(d, i, k)
                       ELSE memcache_append_key(d, i, k)

\* The key is not dropped from the request before its value is copied.
Faulty_add_key ==
    LET f == 1 + req.to[next] IN
      /\ next \in 1..n
      /\ \E d \in {append_key(c, f, req.keys[next])} :
           c' = IF req.type = "mset" THEN copy_bulk(d, f, 1, TRUE) ELSE d

\* A key goes to its fragment; in an MSET its copy in the request is dropped
\* and the value behind it follows.
add_key ==
    LET f == 1 + req.to[next] IN
      /\ next \in 1..n
      /\ \E d \in {append_key(c, f, req.keys[next])} :
         \E e \in {copy_bulk(d, 0, 1, TRUE)} :
           c' = IF req.type = "mset" THEN copy_bulk(e, f, 1, TRUE) ELSE d

Of(j) == SelectSeq([i \in 1..n |-> i], LAMBDA i : req.to[i] = j)
fragments == Len(c.m) - 1

\* A fragment that has keys is given its header and, in memcache, its end.
finish ==
    LET j == next - n IN
      /\ j \in 1..fragments
      /\ \E d \in {msg_prepend(c, 1 + j, header(Len(Of(j))))} :
           c' = IF Of(j) = <<>> THEN c
                ELSE IF redis THEN d
                ELSE msg_append(d, 1 + j, <<CR, LF>>)

\* The steps of one call, up to next = n + fragments + 1.
Next == /\ eat_header \/ add_key \/ finish
        /\ next' = next + 1
        /\ UNCHANGED req

done == next = n + fragments + 1

Spec == Init /\ [][Next]_vars

-----------------------------------------------------------------------------
\* Each fragment is a request with exactly its keys, and the values that
\* follow them, in the order of the request, wherever the mbufs were cut.
FragmentBytes ==
    done => \A j \in 1..fragments :
              Content(c.m[1 + j]) = IF Of(j) = <<>> THEN <<>> ELSE message(Of(j))

\* Each key of a fragment is in one mbuf: req_forward hashes it from its
\* start to its end in one piece (struct keypos).
KeysWhole ==
    done => \A i \in 1..n :
      LET h == c.m[1 + req.to[i]].mhdr
          before == SelectSeq(Of(req.to[i]), LAMBDA k : k < i)
          from == Len(header(Len(Of(req.to[i])))) + Len(arguments(before))
                  + (IF redis THEN 3 + Len(number(Len(req.keys[i]))) ELSE 0)
          to == from + Len(req.keys[i])
      IN \E k \in 1..Len(h) : Upto(h, k - 1) <= from /\ to <= Upto(h, k)

\* No mbuf of the request is lost: "steal this buf from src to dst".
MbufsKept == done => Kept(c)

\* mlen, "message length", is the number of bytes in the message.
LengthTrue == \A i \in 2..Len(c.m) : c.m[i].mlen = Len(Content(c.m[i]))
=============================================================================
