---------------------------- MODULE Registration ----------------------------
(***************************************************************************)
(* The registration of the instance in etcd, kept up by the master: a      *)
(* POSIX timer starts a thread per period (set_timmer, timer_thread); the  *)
(* first one asks for a lease and binds the key to it, the later ones ask  *)
(* how long the lease lives, apply again when it is gone, and refresh it   *)
(* (connect_etcd).  The lease's id is kept in one buffer that all threads  *)
(* share and that is never cleared.  etcd is external: the leases alive    *)
(* and the lease its key is bound to; time is not modelled, a lease        *)
(* expires when it has not been refreshed for long enough.                 *)
(***************************************************************************)
EXTENDS Naturals, FiniteSets

CONSTANTS
  Thread,     \* timer threads that may exist at the same time
  Lease, len, \* lease ids, and the digits of each
  None, Bad,  \* no id (the empty buffer), and the mix of two ids
  Lost,       \* requests that may fail: "first", "grant", "put", "ttl", "keep"
  MaxLost,    \* bound: failed requests
  MaxExpired, \* bound: leases that expire
  OmitsTTL,   \* etcd may leave out a TTL of 0 in its answer
  Overlap     \* a thread may still be at work when the timer fires again

VARIABLES
  first_conn_etcd, \* the first thread has started
  lease,           \* the buffer: the id it reads as, and its length
  thr,             \* each thread: where it is, and the id in its put request
  alive, key,      \* etcd: the leases alive, the lease the key is bound to
  claimed,         \* a thread has logged that the key is applied for
  lost, expired

vars == <<first_conn_etcd, lease, thr, alive, key, claimed, lost, expired>>

idle == [pc |-> "idle", again |-> FALSE, arg |-> None]

Init ==
  /\ first_conn_etcd = FALSE
  /\ lease = [id |-> None, len |-> 0]
  /\ thr = [t \in Thread |-> idle]
  /\ alive = {} /\ key = None
  /\ claimed = FALSE /\ lost = 0 /\ expired = 0

Goto(t, pc) == thr' = [thr EXCEPT ![t].pc = pc]

Faulty_getLease(new) == lease

\* memcpy of the new id over the old one, without its end
getLease(new) ==
  IF lease.len > len[new] THEN [id |-> Bad, len |-> lease.len]
                          ELSE [id |-> new, len |-> len[new]]

timer_thread(t) ==
  /\ thr[t] = idle
  /\ Overlap \/ \A u \in Thread : thr[u] = idle
  /\ IF first_conn_etcd
     THEN thr' = [thr EXCEPT ![t] = [idle EXCEPT !.pc = "ttl", !.again = TRUE]]
     ELSE Goto(t, "grant")
  /\ first_conn_etcd' = TRUE
  /\ UNCHANGED <<lease, alive, key, claimed, lost, expired>>

fails(t, what) ==
  /\ what \in Lost /\ lost < MaxLost
  /\ lost' = lost + 1

\* first_apply_key ends: the thread of the first period is done, a later one
\* goes on to refresh the lease
Applied(t, ok) ==
  /\ Goto(t, IF thr[t].again THEN "keep" ELSE "done")
  /\ claimed' = (claimed \/ ok)

cetcd_lease(t) ==
  /\ thr[t].pc = "grant"
  /\ \/ \E new \in Lease \ alive :
          /\ alive' = alive \cup {new}
          /\ lease' = getLease(new)
          /\ Goto(t, "bind")
          /\ UNCHANGED <<claimed, lost>>
     \/ /\ fails(t, IF thr[t].again THEN "grant" ELSE "first")
        /\ Applied(t, FALSE)
        /\ UNCHANGED <<lease, alive>>
  /\ UNCHANGED <<first_conn_etcd, key, expired>>

\* cetcd_set writes the request from the buffer
put_request(t) ==
  /\ thr[t].pc = "bind"
  /\ thr' = [thr EXCEPT ![t].pc = "put", ![t].arg = lease.id]
  /\ UNCHANGED <<first_conn_etcd, lease, alive, key, claimed, lost, expired>>

\* whatever comes back, first_apply_key looks only at the buffer
cetcd_set(t) ==
  /\ thr[t].pc = "put"
  /\ \/ /\ key' = IF thr[t].arg \in alive THEN thr[t].arg ELSE key
        /\ UNCHANGED lost
     \/ fails(t, "put") /\ UNCHANGED key
  /\ Applied(t, lease.id # None)
  /\ UNCHANGED <<first_conn_etcd, lease, alive, expired>>

\* what is left of the lease: etcd says -1 of one it does not know, an error
\* of no id; an answer without TTL leaves the number uninitialized, and no
\* answer or an error counts as 0
Faulty_timetolive == IF lease.id \in alive THEN {"positive"} ELSE {"zero"}

timetolive ==
  CASE lease.id = None      -> {"zero"}
    [] lease.id \in alive   -> {"positive"} \cup
                               (IF OmitsTTL THEN {"negative"} ELSE {})
    [] OTHER                -> {"negative"}

cetcd_timetolive(t) ==
  /\ thr[t].pc = "ttl"
  /\ \/ \E ttl \in timetolive :
          Goto(t, IF ttl = "negative" THEN "grant" ELSE "keep")
        /\ UNCHANGED lost
     \/ fails(t, "ttl") /\ Goto(t, "keep")
  /\ UNCHANGED <<first_conn_etcd, lease, alive, key, claimed, expired>>

\* the refreshed lease starts its time again
cetcd_keepalive(t) ==
  /\ thr[t].pc = "keep"
  /\ UNCHANGED lost \/ fails(t, "keep")
  /\ Goto(t, "done")
  /\ UNCHANGED <<first_conn_etcd, lease, alive, key, claimed, expired>>

thread_ends(t) ==
  /\ thr[t].pc = "done"
  /\ thr' = [thr EXCEPT ![t] = idle]
  /\ UNCHANGED <<first_conn_etcd, lease, alive, key, claimed, lost, expired>>

\* etcd drops a lease and the key bound to it; a lease that was just granted
\* outlives the request that binds the key.  One the buffer does not name is
\* never refreshed
expire(l) ==
  /\ l \in alive
  /\ l = lease.id => /\ expired < MaxExpired
                     /\ \A t \in Thread : thr[t].pc \notin {"bind", "put"}
  /\ alive' = alive \ {l}
  /\ key' = IF key = l THEN None ELSE key
  /\ expired' = IF l = lease.id THEN expired + 1 ELSE expired
  /\ UNCHANGED <<first_conn_etcd, lease, thr, claimed, lost>>

Step(t) ==
  \/ timer_thread(t) \/ cetcd_lease(t) \/ put_request(t) \/ cetcd_set(t)
  \/ cetcd_timetolive(t) \/ cetcd_keepalive(t) \/ thread_ends(t)

Next == (\E t \in Thread : Step(t)) \/ \E l \in Lease : expire(l)

Spec == Init /\ [][Next]_vars

\* the timer fires for ever and its threads run; what is not refreshed ends
FairSpec ==
  /\ Spec
  /\ WF_vars(\E t \in Thread : timer_thread(t))
  /\ WF_vars(\E t \in Thread : thr[t] # idle /\ Step(t))
  /\ SF_vars(\E l \in Lease : l # lease.id /\ expire(l))

----------------------------------------------------------------------------
\* The buffer names the lease that is refreshed: once no request is under
\* way, the key is bound to that lease or is going to be applied for again,
\* because etcd no longer knows it (connect_etcd, first_apply_key).
OneLease ==
  (\A t \in Thread : thr[t].pc \in {"idle", "ttl", "keep", "done"})
    => \/ ~first_conn_etcd
       \/ key = lease.id /\ key # None
       \/ lease.id # None /\ lease.id \notin alive

\* The instance is registered again and again, however often its lease
\* expires and requests fail ("keep refreshing, keep alive", timer.c:219).
Registered == []<>(key # None /\ key = lease.id)

\* "The first application for the key succeeded" (timer.c:193), and "applied
\* for again" (timer.c:211), are logged only when the key has been written.
AppliedIsWritten ==
  [][~claimed /\ claimed' => key' # None]_vars
=============================================================================
