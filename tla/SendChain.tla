----------------------------- MODULE SendChain -----------------------------
(***************************************************************************)
(* How the messages queued on a connection are written (msg_send and       *)
(* msg_send_chain of nc_message.c, conn_sendv of nc_connection.c): as many *)
(* mbufs, of as many messages, as one writev takes; the kernel accepts     *)
(* any part of them.  A message may have no bytes at all: the replies to   *)
(* fragments are emptied when they are joined.                             *)
(*                                                                         *)
(* A message is [id, mhdr], each mbuf a sequence of bytes <<id, number>>,  *)
(* so that mlen, for the messages this module is given, is their count     *)
(* (see JoinReplies.FragmentsEmpty).                                       *)
(***************************************************************************)
EXTENDS Naturals, Sequences, SequencesExt, FiniteSetsExt

CONSTANTS Queues,      \* the messages to send, as sequences of mbuf sizes
          NC_IOV_MAX   \* mbufs in one writev

VARIABLES sizes,       \* the messages of this run
          queue,       \* those queued and not done
          queued,      \* how many were queued
          wire,        \* the bytes the kernel accepted
          done,        \* the messages given to send_done, in order
          send_ready,  \* the loop of msg_send goes on
          err

vars == <<sizes, queue, queued, wire, done, send_ready, err>>

Bytes(id, at, size) == [b \in 1..size |-> <<id, at + b>>]
Mhdr(id) == [i \in 1..Len(sizes[id]) |->
               Bytes(id, MapThenSumSet(LAMBDA k : sizes[id][k], 1..i - 1), sizes[id][i])]
Content(h) == FlattenSeq(h)
Length(h, k) == MapThenSumSet(LAMBDA i : Len(h[i]), 1..k)   \* of k mbufs
mlen(h) == Length(h, Len(h))

Init == /\ sizes \in Queues
        /\ queue = <<>> /\ queued = 0
        /\ wire = <<>> /\ done = <<>>
        /\ send_ready = FALSE /\ err = FALSE

enqueue ==
    /\ queued < Len(sizes) /\ ~send_ready /\ ~err
    /\ queued' = queued + 1
    /\ queue' = Append(queue, [id |-> queued', mhdr |-> Mhdr(queued')])
    /\ UNCHANGED <<sizes, wire, done, send_ready, err>>

\* The socket can be written: msg_send.
msg_send ==
    /\ ~send_ready /\ ~err /\ queue # <<>>
    /\ send_ready' = TRUE
    /\ UNCHANGED <<sizes, queue, queued, wire, done, err>>

-----------------------------------------------------------------------------
Filled(h) == SelectSeq(h, LAMBDA b : b # <<>>)
Buffers(k) == MapThenSumSet(LAMBDA i : Len(Filled(queue[i].mhdr)), 1..k)

\* How many messages were looked at: up to the one that fills the
\* vector.
send_msgq == LET full == {k \in 1..Len(queue) : Buffers(k) >= NC_IOV_MAX}
             IN IF full = {} THEN Len(queue) ELSE Min(full)

\* The vector, and its bytes.
sendv == LET all == FlattenSeq([i \in 1..send_msgq |-> Filled(queue[i].mhdr)])
         IN SubSeq(all, 1, Min({NC_IOV_MAX, Len(all)}))
nsend(v) == mlen(v)

\* The mbufs of a message after nsent of the bytes from it on are sent.
trim(h, nsent) ==
    [i \in 1..Len(h) |->
       LET before == Length(h, i - 1) IN
         SubSeq(h[i], 1 + (IF nsent > before THEN nsent - before ELSE 0), Len(h[i]))]

\* What is left of nsent when the loop comes to the k-th message.
left(nsent, k) ==
    LET before == MapThenSumSet(LAMBDA i : mlen(queue[i].mhdr), 1..k - 1)
    IN IF nsent > before THEN nsent - before ELSE 0

\* A message is done when some of it was sent.
Faulty_sent_early(k, nsent) ==
    left(nsent, k) # 0 \/ mlen(queue[k].mhdr) = 0

\* When nothing was sent no message is done.
Faulty_sent(k, nsent) ==
    left(nsent, k) # 0 /\ mlen(trim(queue[k].mhdr, left(nsent, k))) = 0

\* The k-th message is complete: all of its mbufs are empty, or it has none
\* with bytes and nothing was left to account for, mlen == 0.
sent(k, nsent) ==
    IF left(nsent, k) = 0 THEN mlen(queue[k].mhdr) = 0
    ELSE mlen(trim(queue[k].mhdr, left(nsent, k))) = 0

\* The first byte of an mbuf that was sent in part is not skipped.
Faulty_adjust(k, nsent) ==
    [queue[k] EXCEPT !.mhdr = trim(@, IF left(nsent, k) = 0 THEN 0
                                      ELSE left(nsent, k) - 1)]

\* The mbufs of a message are moved past the bytes that were sent.
adjust(k, nsent) == [queue[k] EXCEPT !.mhdr = trim(@, left(nsent, k))]

\* Postprocess: what the kernel accepted is taken off the messages that were
\* looked at, and those that are complete are given to send_done.
finalize(v, nsent) ==
    \E n \in {send_msgq} :
      LET at == [k \in 1..n |-> k]
          fin == SelectSeq(at, LAMBDA k : sent(k, nsent))
          rest == SelectSeq(at, LAMBDA k : ~sent(k, nsent))
      IN /\ queue' = [i \in 1..Len(rest) |-> adjust(rest[i], nsent)]
                     \o SubSeq(queue, n + 1, Len(queue))
         /\ done' = done \o [i \in 1..Len(fin) |-> queue[fin[i]].id]
         /\ wire' = wire \o SubSeq(Content(v), 1, nsent)

\* One pass of the loop in msg_send; the kernel accepts n bytes of vector v.
accepted(v, n) ==
    /\ (n = 0) = (nsend(v) = 0)
    /\ finalize(v, n)
    /\ send_ready' = (n = nsend(v))
    /\ UNCHANGED <<sizes, queued, err>>

\* EAGAIN, a writev of zero bytes, or an error that closes the connection.
refused(v, error) ==
    /\ nsend(v) # 0
    /\ finalize(v, 0)
    /\ send_ready' = FALSE
    /\ err' = error
    /\ UNCHANGED <<sizes, queued>>

\* send_next has no message: the loop ends.
nothing_to_send ==
    /\ send_ready /\ queue = <<>>
    /\ send_ready' = FALSE
    /\ UNCHANGED <<sizes, queue, queued, wire, done, err>>

Accepted == /\ send_ready /\ queue # <<>>
            /\ \E v \in {sendv} : \E n \in 0..nsend(v) : accepted(v, n)
Refused == /\ send_ready /\ queue # <<>>
           /\ \E v \in {sendv}, error \in BOOLEAN : refused(v, error)

Next == enqueue \/ msg_send \/ nothing_to_send \/ Accepted \/ Refused

Spec == Init /\ [][Next]_vars

\* The event loop runs, the peer reads, and the connection does not fail.
FairSpec == /\ Spec
            /\ WF_vars(enqueue \/ msg_send \/ nothing_to_send)
            /\ SF_vars(Accepted)

-----------------------------------------------------------------------------
\* The bytes on the wire are those of the messages in the order they were
\* queued, none left out and none twice, however writev cuts the vectors, and
\* what is still queued is exactly what the wire does not have.
WireInOrder ==
    wire \o FlattenSeq([i \in 1..Len(queue) |-> Content(queue[i].mhdr)])
      = FlattenSeq([i \in 1..queued |-> Content(Mhdr(i))])

\* A message is done once, and not before its last byte is on the wire.
DoneWhole ==
    /\ \A i, k \in 1..Len(done) : done[i] = done[k] => i = k
    /\ \A i \in 1..Len(done) :
         \A b \in Range(Content(Mhdr(done[i]))) : b \in Range(wire)

\* Every message, also one without bytes, is done in the end: the loop does
\* not spin on it and it is not left behind.
AllDone == <>(err \/ Len(done) = Len(sizes))
=============================================================================
