-------------------------------- MODULE RbTree --------------------------------
(***************************************************************************)
(* The red-black tree of request timeouts (nc_rbtree.c, msg_tmo_* in       *)
(* nc_message.c).  Nodes live inside messages and are linked by pointers;  *)
(* the leaves are one shared sentinel.  The code is written twice, for     *)
(* left and for right; here the side is a parameter.                       *)
(***************************************************************************)
EXTENDS Naturals, Sequences, FiniteSets, FiniteSetsExt

CONSTANTS MaxInserts,  \* how many requests are given a timeout
          MaxKey       \* the expiry times are 1 .. MaxKey

Node == 1 .. MaxInserts
Key == 1 .. MaxKey
S == 0                       \* the sentinel
NULL == MaxInserts + 1       \* no node
Any == Node \cup {S, NULL}

other(side) == IF side = "left" THEN "right" ELSE "left"

\* The tree t: root, child[side], parent, red (of the nodes that are red), key.
side_of(t, n) == IF n = t.child["left"][t.parent[n]] THEN "left" ELSE "right"
is_red(t, n) == n \in t.red
black(t, n) == [t EXCEPT !.red = @ \ {n}]
paint(t, n) == [t EXCEPT !.red = @ \cup {n}]
Faulty_copy_color(t, n, from) == black(t, n)
copy_color(t, n, from) == IF is_red(t, from) THEN paint(t, n) ELSE black(t, n)

\* Hang node n where the node old hangs: at the root, or under old's parent.
hang(t, old, n) ==
  IF old = t.root THEN [t EXCEPT !.root = n]
  ELSE [t EXCEPT !.child[side_of(t, old)][t.parent[old]] = n]

rbtree_node_init(t, n) ==
  [t EXCEPT !.child["left"][n] = NULL, !.child["right"][n] = NULL,
            !.parent[n] = NULL, !.key[n] = 0]

rbtree_init ==
  [root |-> S, child |-> [s \in {"left", "right"} |-> [n \in Any |-> NULL]],
   parent |-> [n \in Any |-> NULL], red |-> {}, key |-> [n \in Any |-> 0]]

RECURSIVE rbtree_node_min(_, _)
rbtree_node_min(t, n) ==
  IF t.child["left"][n] = S THEN n ELSE rbtree_node_min(t, t.child["left"][n])

rbtree_min(t) == IF t.root = S THEN NULL ELSE rbtree_node_min(t, t.root)

\* rbtree_left_rotate, rbtree_right_rotate: n goes down on the side named
Faulty_rotate(t, side, n) ==
  LET temp == t.child[other(side)][n]
      sub == t.child[side][temp]
      u == hang(t, n, temp)
  IN [u EXCEPT !.child[other(side)][n] = sub, !.parent[temp] = t.parent[n],
               !.child[side][temp] = n, !.parent[n] = temp]
rotate(t, side, n) ==
  LET temp == t.child[other(side)][n]
      sub == t.child[side][temp]
      u == hang(IF sub = S THEN t ELSE [t EXCEPT !.parent[sub] = n], n, temp)
  IN [u EXCEPT !.child[other(side)][n] = sub, !.parent[temp] = t.parent[n],
               !.child[side][temp] = n, !.parent[n] = temp]

-----------------------------------------------------------------------------
\* The place of a new node: equal keys go to the right.
Faulty_goes(t, n, temp) == IF t.key[n] <= t.key[temp] THEN "left" ELSE "right"
goes(t, n, temp) == IF t.key[n] < t.key[temp] THEN "left" ELSE "right"

RECURSIVE descend(_, _, _)
descend(t, n, temp) ==
  LET p == t.child[goes(t, n, temp)][temp]
  IN IF p = S THEN temp ELSE descend(t, n, p)

\* The loop of rbtree_insert: a red node under a red parent
RECURSIVE rebalance(_, _)
rebalance(t, n) ==
  LET up == t.parent[n]
      top == t.parent[up]
      side == side_of(t, up)
      uncle == t.child[other(side)][top]
      inner == n = t.child[other(side)][up]
      u == IF inner THEN rotate(t, side, up) ELSE t
      m == IF inner THEN up ELSE n
  IN IF n = t.root \/ ~is_red(t, up) THEN t
     ELSE IF is_red(t, uncle)
     THEN rebalance(paint(black(black(t, up), uncle), top), top)
     ELSE rebalance(rotate(paint(black(u, u.parent[m]), u.parent[u.parent[m]]),
                           other(side), u.parent[u.parent[m]]), m)

insert(t, n) ==
  IF t.root = S
  THEN black([t EXCEPT !.parent[n] = NULL, !.child["left"][n] = S,
                       !.child["right"][n] = S, !.root = n], n)
  ELSE LET temp == descend(t, n, t.root)
           u == [t EXCEPT !.child[goes(t, n, temp)][temp] = n, !.parent[n] = temp]
           w == [u EXCEPT !.child["left"][n] = S, !.child["right"][n] = S]
           r == rebalance(paint(w, n), n)
       IN black(r, r.root)

-----------------------------------------------------------------------------
\* The loop of rbtree_delete: temp is one black short
RECURSIVE fixup(_, _)
fixup(t, temp) ==
  LET side == side_of(t, temp)
      up == t.parent[temp]
      w1 == t.child[other(side)][up]
      t1 == IF is_red(t, w1) THEN rotate(paint(black(t, w1), up), side, up) ELSE t
      w2 == t1.child[other(side)][up]
      near == t1.child[side][w2]
      far == t1.child[other(side)][w2]
      t2 == IF is_red(t1, far) THEN t1
            ELSE rotate(paint(black(t1, near), w2), other(side), w2)
      w3 == t2.child[other(side)][up]
      t3 == black(black(copy_color(t2, w3, up), up), t2.child[other(side)][w3])
      t4 == rotate(t3, side, up)
  IN IF temp = t.root \/ is_red(t, temp) THEN black(t, temp)
     ELSE IF ~is_red(t1, near) /\ ~is_red(t1, far) THEN fixup(paint(t1, w2), up)
     ELSE fixup(t4, t4.root)

\* subst leaves its place to temp, and takes node's when it is another.
unlink(t, n, subst, temp) ==
  LET u == hang(t, subst, temp)
      a == [u EXCEPT !.parent[temp] =
              IF subst # n /\ t.parent[subst] = n THEN subst ELSE t.parent[subst]]
      b == [a EXCEPT !.child["left"][subst] = a.child["left"][n],
                     !.child["right"][subst] = a.child["right"][n],
                     !.parent[subst] = a.parent[n]]
      c == hang(copy_color(b, subst, n), n, subst)
  IN IF subst = n THEN a
     ELSE [c EXCEPT !.parent = [m \in Any |->
             IF m # S /\ m \in {c.child["left"][subst], c.child["right"][subst]}
             THEN subst ELSE @[m]]]

delete(t, n) ==
  LET l == t.child["left"][n]
      r == t.child["right"][n]
      subst == IF l = S \/ r = S THEN n ELSE rbtree_node_min(t, r)
      temp == IF l # S /\ r = S THEN l ELSE t.child["right"][subst]
      u == rbtree_node_init(unlink(t, n, subst, temp), n)
  IN IF subst = t.root THEN rbtree_node_init(black([t EXCEPT !.root = temp], temp), n)
     ELSE IF is_red(t, subst) THEN u
     ELSE fixup(u, temp)

-----------------------------------------------------------------------------
VARIABLES tree,    \* tmo_rbt
          armed,   \* the messages whose tmo_rbe.data is not NULL, and their expiry
          count    \* requests given a timeout so far

vars == <<tree, armed, count>>

Init ==
  /\ tree = rbtree_init
  /\ armed = [n \in {} |-> 0]
  /\ count = 0

msg_tmo_insert(key) ==
  /\ count < MaxInserts
  /\ count' = count + 1
  /\ armed' = [n \in DOMAIN armed \cup {count'} |-> IF n = count' THEN key ELSE armed[n]]
  /\ tree' = insert([tree EXCEPT !.key[count'] = key], count')

\* Of a message that was answered, or timed out, or whose connection closed
msg_tmo_delete(n) ==
  /\ n \in DOMAIN armed
  /\ armed' = [m \in DOMAIN armed \ {n} |-> armed[m]]
  /\ tree' = delete(tree, n)
  /\ UNCHANGED count

Next ==
  \/ \E key \in Key : msg_tmo_insert(key)
  \/ \E n \in Node : msg_tmo_delete(n)

Spec == Init /\ [][Next]_vars

-----------------------------------------------------------------------------
RECURSIVE inorder(_, _)
inorder(t, n) ==
  IF n \notin Node THEN <<>>
  ELSE inorder(t, t.child["left"][n]) \o <<n>> \o inorder(t, t.child["right"][n])

\* The armed messages by expiry, and those of one expiry as they came.
Earlier(m, n) == armed[m] < armed[n] \/ (armed[m] = armed[n] /\ m < n)
ByExpiry ==
  [k \in 1 .. Cardinality(DOMAIN armed) |->
     CHOOSE n \in DOMAIN armed :
       Cardinality({m \in DOMAIN armed : Earlier(m, n)}) = k - 1]

(***************************************************************************)
(* Whatever was inserted and deleted before, the tree holds the requests   *)
(* that are armed and no other, ordered by expiry and in one expiry by     *)
(* arrival, and msg_tmo_min is the one to expire next.                     *)
(***************************************************************************)
ExpiryOrder ==
  /\ inorder(tree, tree.root) = ByExpiry
  /\ rbtree_min(tree) = IF armed = <<>> THEN NULL ELSE ByExpiry[1]

RECURSIVE blacks(_, _)
blacks(t, n) ==
  IF n \notin Node THEN {0}
  ELSE {h + (IF is_red(t, n) THEN 0 ELSE 1) :
          h \in blacks(t, t.child["left"][n]) \cup blacks(t, t.child["right"][n])}

(***************************************************************************)
(* The tree stays balanced: a black root, no red node under a red one, and *)
(* as many black nodes on every path to a leaf.  The sentinel is black.    *)
(***************************************************************************)
Balanced ==
  /\ ~is_red(tree, tree.root) /\ ~is_red(tree, S)
  /\ \A n \in DOMAIN armed : is_red(tree, n) => ~is_red(tree, tree.parent[n])
  /\ Cardinality(blacks(tree, tree.root)) = 1

(***************************************************************************)
(* The links up agree with the links down, except at the root, whose       *)
(* parent may be a message that is long gone: rotations and loops go by    *)
(* the root, never by a NULL parent.                                       *)
(***************************************************************************)
Linked ==
  \A n \in DOMAIN armed :
    /\ n # tree.root => /\ tree.parent[n] \in DOMAIN armed
                        /\ n = tree.child[side_of(tree, n)][tree.parent[n]]
    /\ \A side \in {"left", "right"} : tree.child[side][n] \in DOMAIN armed \cup {S}
==============================================================================
