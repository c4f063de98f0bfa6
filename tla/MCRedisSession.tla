--------------------------- MODULE MCRedisSession ---------------------------
(* Instances of RedisSession for TLC. *)
EXTENDS RedisSession

CONSTANTS c1, c2
Clients == {c1, c2}
Waits == {"in_progress", "refused"}
Commands == {"command"}
=============================================================================
