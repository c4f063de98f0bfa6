----------------------------- MODULE MCClients -----------------------------
(***************************************************************************)
(* What a worker keeps of its peers, for TLC: the connection structures    *)
(* and the events for them, a redis connection shared by two clients, the  *)
(* tree of the requests by expiry, and pools whose servers are chosen by   *)
(* modula and by chance.  A behaviour is one of one part, which never      *)
(* changes; the variables of the others are idle.  The connections are     *)
(* those of Connections itself, with the constants of the configuration:   *)
(* three clients, two at once, on five structures; one descriptor is left  *)
(* for a server.  Two generations tell an event's connection from the next *)
(* one in its structure, and a structure that is recycled is seen when it  *)
(* is.                                                                     *)
(***************************************************************************)
EXTENDS Connections, TLC

CONSTANTS c1, c2

VARIABLES part,
          authenticated, password, n, base, s, imsg_q, omsg_q, redis, replies,
          ran, last,                                         \* sessions
          tree, armed, count,                                \* timeouts
          pool, connecting, connected, gauge, toOpen, age, answered

connVars == vars
sessionVars == <<authenticated, password, n, base, s, imsg_q, omsg_q, redis,
                 replies, ran, last>>
treeVars == <<tree, armed, count>>
poolVars == <<pool, connecting, connected, gauge, toOpen, age, answered>>
allVars == <<part, connVars, sessionVars, treeVars, poolVars>>

-----------------------------------------------------------------------------
\* A pool with a password: connects of every kind, errors and failing
\* allocations.
Session == INSTANCE RedisSession WITH
             Client <- {c1, c2}, MaxReq <- 3, require_auth <- TRUE, redis_db <- 1,
             Completion <- {"at_once", "in_progress", "refused"},
             Transient <- {"SELECT", "command"}, AllocFails <- TRUE

\* A pool with a database and no password, whose connects take their time.
Database == INSTANCE RedisSession WITH
              Client <- {c1, c2}, MaxReq <- 2, require_auth <- FALSE, redis_db <- 1,
              Completion <- {"in_progress", "refused"},
              Transient <- {"command"}, AllocFails <- FALSE

Tree == INSTANCE RbTree WITH MaxInserts <- 6, MaxKey <- 4

\* Three servers, the first of three times the weight, preconnected.
Modula == INSTANCE ServerPool WITH
            NServer <- 3, Weight <- 0 :> 3 @@ 1 :> 1 @@ 2 :> 1, Dist <- "modula",
            AutoEject <- TRUE, FailureLimit <- 2, RetryTimeout <- 2,
            ServerConnections <- 1, DoPreconnect <- TRUE, MaxAtOnce <- 0,
            PointsPerServer <- 4, Addition <- 0

\* Two servers, one connection to each of which connect() may make at once.
Random == INSTANCE ServerPool WITH
            NServer <- 2, Weight <- 0 :> 1 @@ 1 :> 1, Dist <- "random",
            AutoEject <- TRUE, FailureLimit <- 2, RetryTimeout <- 1,
            ServerConnections <- 3, DoPreconnect <- FALSE, MaxAtOnce <- 1,
            PointsPerServer <- 4, Addition <- 0

-----------------------------------------------------------------------------
idle == "idle"

NoConns == Init
NoSession ==
    /\ authenticated = idle /\ password = idle /\ n = idle /\ base = idle
    /\ s = idle /\ imsg_q = idle /\ omsg_q = idle /\ redis = idle
    /\ replies = idle /\ ran = idle /\ last = idle
NoTree == tree = idle /\ armed = idle /\ count = idle
NoPool ==
    /\ pool = idle /\ connecting = idle /\ connected = idle /\ gauge = idle
    /\ toOpen = idle /\ age = idle /\ answered = idle

AnyInit ==
    \/ part = "connections" /\ Init /\ NoSession /\ NoTree /\ NoPool
    \/ part = "session" /\ Session!Init /\ NoConns /\ NoTree /\ NoPool
    \/ part = "database" /\ Database!Init /\ NoConns /\ NoTree /\ NoPool
    \/ part = "timeouts" /\ Tree!Init /\ NoConns /\ NoSession /\ NoPool
    \/ part = "modula" /\ Modula!Init /\ NoConns /\ NoSession /\ NoTree
    \/ part = "random" /\ Random!Init /\ NoConns /\ NoSession /\ NoTree

AnyNext ==
    /\ \/ /\ part = "connections" /\ Next
          /\ UNCHANGED <<sessionVars, treeVars, poolVars>>
       \/ /\ \/ part = "session" /\ Session!Next
             \/ part = "database" /\ Database!Next
          /\ UNCHANGED <<connVars, treeVars, poolVars>>
       \/ /\ part = "timeouts" /\ Tree!Next
          /\ UNCHANGED <<connVars, sessionVars, poolVars>>
       \/ /\ \/ part = "modula" /\ Modula!Next
             \/ part = "random" /\ Random!Next
          /\ UNCHANGED <<connVars, sessionVars, treeVars>>
    /\ UNCHANGED part

AnySpec == AnyInit /\ [][AnyNext]_allVars

-----------------------------------------------------------------------------
\* Every command that reaches the server comes from a client whose last
\* password was the right one (req_filter, client_close).
Trusted == part = "session" => Session!Trusted

\* No client's command is refused for want of the proxy's own AUTH, and each
\* runs in the database of the pool (redis_add_auth, redis_post_connect).
ServerReady == /\ part = "session" => Session!NotRefused
               /\ part = "database" => Database!DbSelected

\* A client only gets the reply of its own request, and not the next one in
\* its struct conn (client_close, rsp_filter).
OwnReplies == /\ [](part = "session" => Session!OwnReply)
              /\ [](part = "database" => Database!OwnReply)
              /\ Session!NotToSuccessor

\* Whatever was inserted and deleted before, the tree of rbtree_insert() and
\* rbtree_delete() holds the requests that are armed, is balanced, its links
\* up and down agree, and msg_tmo_min() is the request to expire next.
TreeSound == part = "timeouts" => Tree!ExpiryOrder /\ Tree!Balanced /\ Tree!Linked

\* With modula and random, too, the continuum fits what was allocated for it,
\* names live servers only, and no server is out for longer than its retry
\* timeout (modula_update, random_update).
ContinuumSound ==
    /\ part = "modula" =>
         Modula!ContinuumFits /\ Modula!RoutesToLive /\ Modula!BoundedOutage
    /\ part = "random" =>
         Random!ContinuumFits /\ Random!RoutesToLive /\ Random!BoundedOutage
=============================================================================
