---------------------------- MODULE MCConfFiles ----------------------------
(* Configuration files for TLC: as trees, well-formed and not, and as the  *)
(* lines of their pools.                                                   *)
EXTENDS Naturals, Sequences

scalar(s) == [kind |-> "scalar", value |-> s, kids |-> <<>>]
mapping(kids) == [kind |-> "mapping", value |-> "", kids |-> kids]
sequence(kids) == [kind |-> "sequence", value |-> "", kids |-> kids]
alias == [kind |-> "alias", value |-> "", kids |-> <<>>]

k == scalar("k")
e == scalar("e")

Keys == {k, scalar(""), alias, sequence(<<e>>), mapping(<<k, e>>)}
Values == {e, scalar(""), alias, sequence(<<e>>), sequence(<<e, scalar("f")>>),
           sequence(<<e, scalar("")>>), sequence(<<sequence(<<e>>)>>),
           sequence(<<mapping(<<k, e>>)>>), mapping(<<k, e>>), mapping(<<>>),
           sequence(<<>>)}

Entries == Keys \X Values
Plain == {k, scalar("l")} \X {e, scalar(""), sequence(<<e>>), sequence(<<e, scalar("f")>>)}

Pools ==
  {mapping(p) : p \in Entries} \cup {mapping(p \o q) : p, q \in Entries}
  \cup {mapping(p \o q \o r) : p, q, r \in Plain}
Few == {mapping(<<k, sequence(<<e>>)>>), mapping(<<k, e>>),
        mapping(<<k, e, k, sequence(<<e, scalar("f")>>)>>),
        mapping(<<k, sequence(<<e>>), k, e>>)} \cup Values

Shaped2 == {f \in Few : f.kind = "mapping" /\ Len(f.kids) > 0 /\ f # mapping(<<k, e>>)}
           \cup {alias, mapping(<<>>)}

Roots ==
  Values \cup {mapping(<<scalar("p"), pool>>) : pool \in Pools}
  \cup {mapping(<<name, pool>>) : name \in Keys \cup Few, pool \in Few}
  \cup {mapping(<<scalar("p"), pool, name, other>>) :
          pool \in Shaped2, other \in Few, name \in {scalar("q"), sequence(<<e>>), scalar("")}}

TreeFiles == {<<>>} \cup {<<t>> : t \in Roots}
           \cup {<<t, u>> : t, u \in {mapping(<<scalar("p"), f>>) : f \in Few}}

-----------------------------------------------------------------------------
MCChars == <<" ", "/", "0", "1", "2", "3", "4", "5", "6", "7", "8", "9", ":",
             "h", "i", "p", "q", "s">>

Line(key, value, n, good) ==
  [key |-> key, value |-> value, n |-> n, good |-> good, host |-> <<>>,
   digits |-> <<>>, weight |-> 0, name |-> <<>>]

\* A server or an address written out the way the documentation shows it.
ServerLine(host, port, n, weight, w, name) ==
  [key |-> "servers", n |-> n, good |-> host # <<>>, host |-> host, digits |-> port,
   weight |-> w, name |-> name,
   value |-> host \o (IF host # <<>> /\ host[1] = "/" THEN <<>> ELSE <<":">> \o port)
             \o <<":">> \o weight \o (IF name = <<>> THEN <<>> ELSE <<" ">> \o name)]
ListenLine(host, port, n) ==
  [key |-> "listen", n |-> n, good |-> host # <<>>, host |-> host, digits |-> port,
   weight |-> 0, name |-> <<>>, value |-> host \o <<":">> \o port]
PathLine(path, perm) ==
  [key |-> "listen", n |-> 0, good |-> TRUE, host |-> path, digits |-> perm,
   weight |-> 0, name |-> <<>>,
   value |-> IF perm = <<>> THEN path ELSE path \o <<" ">> \o perm]

memcached == <<"1", "1", "2", "1", "1">>
S1 == ServerLine(<<"h">>, <<"7">>, 7, <<"1">>, 1, <<>>)
S2 == ServerLine(<<"h">>, <<"7">>, 7, <<"2">>, 2, <<>>)
S3 == ServerLine(<<"h">>, memcached, 11211, <<"1">>, 1, <<>>)
S4 == ServerLine(<<"i">>, <<"7">>, 7, <<"1">>, 1, <<"h">>)
S5 == ServerLine(<<":", ":", "1">>, <<"7">>, 7, <<"1">>, 1, <<"h", ":", "7">>)
S6 == ServerLine(<<"/", "s">>, <<>>, 0, <<"1">>, 1, <<"s">>)
L1 == ListenLine(<<"h">>, <<"1">>, 1)
L2 == ListenLine(<<"i">>, <<"1">>, 1)

\* Lines of a single pool: options, servers, and lines that are no good.
OptionLines ==
  {L1, S1, Line("timeout", <<"4", "0", "0">>, 400, TRUE),
   Line("server_retry_timeout", <<"9">>, 9, TRUE),
   Line("redis", <<"true">>, 1, TRUE), Line("redis", <<"1">>, 1, FALSE),
   Line("redis_auth", <<"p", "q">>, 0, TRUE), Line("hash_tag", <<"h", "i">>, 0, TRUE),
   Line("hash_tag", <<"h">>, 0, FALSE), Line("hash", <<"crc16">>, 2, TRUE),
   Line("hash", <<"sha">>, 0, FALSE), Line("distribution", <<"random">>, 2, TRUE),
   Line("server_connections", <<"0">>, 0, TRUE), Line("backlog", <<"h">>, 0, FALSE),
   Line("nothing", <<"1">>, 0, FALSE)}

\* Servers and addresses in every order.
ServerLines ==
  {L1, S1, S2, S3, S4, S5, S6, PathLine(<<"/", "s">>, <<"6", "0", "0">>),
   [PathLine(<<"/", "s">>, <<"7", "7", "7", "7">>) EXCEPT !.good = FALSE],
   [S1 EXCEPT !.value = <<"h", ":", "7">>, !.good = FALSE],
   [S1 EXCEPT !.value = <<"h", ":", "7", ":", "0">>, !.good = FALSE],
   [S1 EXCEPT !.value = <<"h", ":", "7", ":", "1", " ", "p", " ", "q">>, !.good = FALSE],
   [S6 EXCEPT !.value = <<"/", "s", ":", "7", ":", "1">>, !.good = FALSE]}

\* Pools that may clash.
PoolLines == {L1, L2, S1}
=============================================================================
