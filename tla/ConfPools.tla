------------------------------ MODULE ConfPools ------------------------------
(***************************************************************************)
(* The directives of the configuration file (nc_conf.c): a pool is started *)
(* with every option unset, each line of the file sets one option or adds  *)
(* a server, conf_post_validate fills in the defaults and turns away what  *)
(* cannot be served, and conf_pool_each_transform makes the running pools. *)
(*                                                                         *)
(* The value of a line is a sequence of characters; a word that is only    *)
(* ever compared ("true", "ketama") is a single one.  Numbers are short    *)
(* enough for an int.                                                      *)
(***************************************************************************)
EXTENDS Integers, Sequences, FiniteSets, SequencesExt, TLC

CONSTANTS Lines,       \* the lines a file is made of: key, value, and meaning
          PoolNames,   \* the names of pools
          MaxLines,    \* how many lines a file has
          Chars,       \* the characters in the order of their codes
          Garbage      \* what malloc'd memory may hold where a mode_t is read

-----------------------------------------------------------------------------
CONF_UNSET_NUM == -1
CONF_DEFAULT_KETAMA_PORT == 11211

hash_strings == <<"one_at_a_time", "md5", "crc16", "crc32", "crc32a", "fnv1_64",
                  "fnv1a_64", "fnv1_32", "fnv1a_32", "hsieh", "murmur", "jenkins">>
dist_strings == <<"ketama", "modula", "random">>

Numbers == {"timeout", "backlog", "client_connections", "redis_db",
            "server_connections", "server_retry_timeout", "server_failure_limit"}
Booleans == {"redis", "tcpkeepalive", "preconnect", "auto_eject_hosts"}
Words == {"hash", "distribution"}
Options == Numbers \cup Booleans \cup Words
Strings == {"redis_auth", "hash_tag"}

conf_default ==
  [o \in Options |->
     CASE o = "timeout" -> -1
       [] o = "backlog" -> 512
       [] o = "server_connections" -> 1
       [] o = "server_retry_timeout" -> 30 * 1000
       [] o = "server_failure_limit" -> 2
       [] o = "hash" -> 6
       [] OTHER -> 0]

\* _nc_atoi: -1 for what is not a number
digit(c) == (CHOOSE d \in 1 .. 10 :
              <<"0", "1", "2", "3", "4", "5", "6", "7", "8", "9">>[d] = c) - 1
digits == {"0", "1", "2", "3", "4", "5", "6", "7", "8", "9"}

nc_atoi(s) ==
  IF s = <<>> \/ ~(ToSet(s) \subseteq digits) THEN -1
  ELSE FoldLeft(LAMBDA n, c : n * 10 + digit(c), 0, s)

nc_valid_port(n) == n \in 1 .. 65535

\* strtol(perm, NULL, 8): the value of the octal digits it starts with
octal == {"0", "1", "2", "3", "4", "5", "6", "7"}
strtol(s) ==
  LET upto == CHOOSE k \in 0 .. Len(s) :
                /\ \A j \in 1 .. k : s[j] \in octal
                /\ k = Len(s) \/ s[k + 1] \notin octal
  IN FoldLeft(LAMBDA n, c : n * 8 + digit(c), 0, SubSeq(s, 1, upto))

\* nc_strrchr: the last place of c among the first n characters, or 0
nc_strrchr(s, n, c) ==
  LET places == {j \in 1 .. n : s[j] = c}
  IN IF places = {} THEN 0 ELSE CHOOSE j \in places : \A k \in places : k <= j

\* string_compare: by length, then by bytes
code(c) == CHOOSE j \in DOMAIN Chars : Chars[j] = c
before(a, b) ==
  \/ Len(a) < Len(b)
  \/ /\ Len(a) = Len(b)
     /\ \E j \in DOMAIN a : /\ SubSeq(a, 1, j - 1) = SubSeq(b, 1, j - 1)
                            /\ code(a[j]) < code(b[j])

-----------------------------------------------------------------------------
VARIABLES file,      \* the lines read so far, pool by pool
          pools,     \* cf->pool
          status,    \* "reading", "parsed", "valid", "invalid", "running"
          asserted,  \* string_copy was asked for no characters at all
          running    \* ctx->pool

vars == <<file, pools, status, asserted, running>>

Init ==
  /\ file = <<>>
  /\ pools = <<>>
  /\ status = "reading"
  /\ asserted = FALSE
  /\ running = <<>>

\* conf_pool_init sets everything but listen.perm.
conf_pool_init(name, perm) ==
  [name |-> name,
   listen |-> [valid |-> FALSE, pname |-> <<>>, name |-> <<>>, port |-> 0, perm |-> perm],
   opt |-> [o \in Options |-> CONF_UNSET_NUM],
   str |-> [s \in Strings |-> <<>>],
   server |-> <<>>]

\* What a setter leaves: the pool, whether it took the value, and whether it
\* copied an empty string.
Taken(p) == [ok |-> TRUE, pool |-> p, empty |-> FALSE]
Refused(p) == [ok |-> FALSE, pool |-> p, empty |-> FALSE]

Faulty_set_option(p, o, n) == Taken([p EXCEPT !.opt[o] = n])
set_option(p, o, n) ==
  IF p.opt[o] # CONF_UNSET_NUM \/ n < 0 THEN Refused(p)
  ELSE Taken([p EXCEPT !.opt[o] = n])

conf_set_num(p, o, v) == set_option(p, o, nc_atoi(v))

conf_set_bool(p, o, v) ==
  set_option(p, o, CASE v = <<"true">> -> 1 [] v = <<"false">> -> 0 [] OTHER -> -1)

\* conf_set_hash, conf_set_distribution: the place of the word in its table
conf_set_choice(p, o, v, table) ==
  set_option(p, o, IF \E j \in DOMAIN table : <<table[j]>> = v
                   THEN (CHOOSE j \in DOMAIN table : <<table[j]>> = v) - 1
                   ELSE -1)

\* conf_set_string and conf_set_hashtag
conf_set_string(p, s, v) ==
  IF p.str[s] # <<>> \/ (s = "hash_tag" /\ Len(v) # 2) THEN Refused(p)
  ELSE Taken([p EXCEPT !.str[s] = v])

\* "socket_path permissions" or "hostname:port", from the end
conf_set_listen(p, v) ==
  LET unix == v[1] = "/"
      q == nc_strrchr(v, Len(v), IF unix THEN " " ELSE ":")
      rest == SubSeq(v, q + 1, Len(v))
      name == IF unix /\ q = 0 THEN v ELSE SubSeq(v, 1, q - 1)
      port == IF unix THEN 0 ELSE nc_atoi(rest)
      perm == IF unix /\ q # 0 THEN strtol(rest) ELSE p.listen.perm
      listen == [valid |-> TRUE, pname |-> v, name |-> name, port |-> port, perm |-> perm]
  IN IF \/ p.listen.valid
        \/ ~unix /\ (q = 0 \/ ~nc_valid_port(port))
        \/ unix /\ q # 0 /\ perm > 511
     THEN Refused(p)
     ELSE [ok |-> TRUE, pool |-> [p EXCEPT !.listen = listen], empty |-> name = <<>>]

\* "hostname:port:weight [name]" or "/path/unix_socket:weight [name]", from the
\* end: a blank, a colon and another colon, as far as they are found.
Faulty_server_name(addr, port, end) == SubSeq(end, 1, Len(addr) + 1 + Len(port))
server_name(addr, port, end) ==
  IF nc_atoi(port) = CONF_DEFAULT_KETAMA_PORT THEN addr
  ELSE SubSeq(end, 1, Len(addr) + 1 + Len(port))

conf_add_server(p, v) ==
  LET unix == v[1] = "/"
      blank == nc_strrchr(v, Len(v), " ")
      endw == IF blank = 0 THEN Len(v) ELSE blank - 1
      colon == nc_strrchr(v, endw, ":")
      colon2 == nc_strrchr(v, colon - 1, ":")
      weight == SubSeq(v, colon + 1, endw)
      port == IF colon2 = 0 THEN <<>> ELSE SubSeq(v, colon2 + 1, colon - 1)
      addr == SubSeq(v, 1, (IF colon2 = 0 THEN colon ELSE colon2) - 1)
      name == IF blank # 0 THEN SubSeq(v, blank + 1, Len(v))
              ELSE server_name(addr, port, v)
      server == [name |-> name, addr |-> addr, weight |-> nc_atoi(weight),
                 port |-> IF unix THEN 0 ELSE nc_atoi(port)]
  IN IF \/ colon = 0
        \/ unix # (colon2 = 0)
        \/ server.weight < 1
        \/ ~unix /\ ~nc_valid_port(server.port)
     THEN Refused(p)
     ELSE [ok |-> TRUE, pool |-> [p EXCEPT !.server = Append(@, server)],
           empty |-> name = <<>> \/ addr = <<>>]

\* conf_handler looks the directive up in conf_commands.
Set(p, key, v) ==
  CASE key \in Numbers -> conf_set_num(p, key, v)
    [] key \in Booleans -> conf_set_bool(p, key, v)
    [] key = "hash" -> conf_set_choice(p, key, v, hash_strings)
    [] key = "distribution" -> conf_set_choice(p, key, v, dist_strings)
    [] key \in Strings -> conf_set_string(p, key, v)
    [] key = "listen" -> conf_set_listen(p, v)
    [] key = "servers" -> conf_add_server(p, v)
    [] OTHER -> Refused(p)

written == Len(file) + Len(FlattenSeq([k \in DOMAIN file |-> file[k].lines]))

new_pool(name) ==
  /\ status = "reading" /\ written < MaxLines
  /\ file' = Append(file, [name |-> name, lines |-> <<>>])
  /\ \E perm \in Garbage : pools' = Append(pools, conf_pool_init(name, perm))
  /\ UNCHANGED <<status, asserted, running>>

conf_handler(line) ==
  /\ status = "reading" /\ file # <<>>
  /\ written < MaxLines
  /\ file' = [file EXCEPT ![Len(file)].lines = Append(@, line)]
  /\ LET r == Set(Last(pools), line.key, line.value)
     IN /\ pools' = [pools EXCEPT ![Len(pools)] = r.pool]
        /\ status' = IF r.ok THEN status ELSE "invalid"
        /\ asserted' = (asserted \/ r.empty)
  /\ UNCHANGED running

conf_parse ==
  /\ status = "reading" /\ file # <<>>
  /\ status' = "parsed"
  /\ UNCHANGED <<file, pools, asserted, running>>

-----------------------------------------------------------------------------
\* Sorting brings equal keys together: only neighbours are compared.
Faulty_duplicate(keys) == \E k \in 1 .. Len(keys) - 1 : keys[k] = keys[k + 1]
duplicate(keys) ==
  LET sorted == SortSeq(keys, before)
  IN \E k \in 1 .. Len(sorted) - 1 : sorted[k] = sorted[k + 1]

names(s) == [k \in DOMAIN s |-> s[k].name]
by_name(s) == SortSeq(s, LAMBDA a, b : before(a.name, b.name))

\* conf_validate_pool: the defaults, and what a pool cannot do without
Faulty_filled(p) ==
  [p EXCEPT !.opt = [o \in Options |->
                       IF p.opt[o] = CONF_UNSET_NUM /\ o # "backlog"
                       THEN conf_default[o] ELSE p.opt[o]],
            !.server = by_name(p.server)]
filled(p) ==
  [p EXCEPT !.opt = [o \in Options |->
                       IF p.opt[o] = CONF_UNSET_NUM \/ o = "client_connections"
                       THEN conf_default[o] ELSE p.opt[o]],
            !.server = by_name(p.server)]

Faulty_conf_validate_pool(p) ==
  /\ p.listen.valid
  /\ p.opt["server_connections"] # 0
  /\ filled(p).opt["redis"] # 0 \/ p.str["redis_auth"] = <<>>
  /\ ~duplicate(names(p.server))
conf_validate_pool(p) ==
  /\ p.listen.valid
  /\ p.opt["server_connections"] # 0
  /\ filled(p).opt["redis"] # 0 \/ p.str["redis_auth"] = <<>>
  /\ p.server # <<>>
  /\ ~duplicate(names(p.server))

conf_post_validate ==
  /\ status = "parsed"
  /\ \/ /\ \A k \in DOMAIN pools : conf_validate_pool(pools[k])
        /\ ~duplicate([k \in DOMAIN pools |-> pools[k].listen.pname])
        /\ ~duplicate(names(pools))
        /\ pools' = by_name([k \in DOMAIN pools |-> filled(pools[k])])
        /\ status' = "valid"
     \/ /\ \/ \E k \in DOMAIN pools : ~conf_validate_pool(pools[k])
           \/ duplicate([k \in DOMAIN pools |-> pools[k].listen.pname])
           \/ duplicate(names(pools))
        /\ status' = "invalid"
        /\ UNCHANGED pools
  /\ UNCHANGED <<file, asserted, running>>

\* conf_pool_each_transform, conf_server_each_transform: the running pools
transform(p) ==
  [name |-> p.name, addrstr |-> p.listen.pname, port |-> p.listen.port,
   perm |-> p.listen.perm,
   opt |-> [p.opt EXCEPT !["server_retry_timeout"] = @ * 1000],
   hash_tag |-> p.str["hash_tag"], redis_auth |-> p.str["redis_auth"],
   require_auth |-> p.str["redis_auth"] # <<>>,
   server |-> [s \in DOMAIN p.server |-> [idx |-> s - 1] @@ p.server[s]]]

server_pool_init ==
  /\ status = "valid"
  /\ running' = [k \in DOMAIN pools |-> transform(pools[k])]
  /\ status' = "running"
  /\ UNCHANGED <<file, pools, asserted>>

Next ==
  \/ \E name \in PoolNames : new_pool(name)
  \/ \E line \in Lines : conf_handler(line)
  \/ conf_parse \/ conf_post_validate \/ server_pool_init

Spec == Init /\ [][Next]_vars

-----------------------------------------------------------------------------
\* What the file says.  A line knows what it means: n is the number of an
\* option, host, port, weight and name are the parts of an address, and good
\* tells whether the documentation allows the line at all.
Of(k, key) == SelectSeq(file[k].lines, LAMBDA l : l.key = key)

Says(k, o) == IF Of(k, o) = <<>> THEN conf_default[o] ELSE Of(k, o)[1].n

\* The name a server is known by: its own, or host:port, without the port of
\* memcached.
Known(l) ==
  IF l.name # <<>> THEN l.name
  ELSE IF l.n = CONF_DEFAULT_KETAMA_PORT THEN l.host
  ELSE l.host \o <<":">> \o l.digits

Unique(s) == \A j, k \in DOMAIN s : s[j] = s[k] => j = k

ProperPool(k) ==
  /\ \A j \in DOMAIN file[k].lines : file[k].lines[j].good
  /\ \A key \in {l.key : l \in ToSet(file[k].lines)} \ {"servers"} : Len(Of(k, key)) = 1
  /\ Of(k, "listen") # <<>> /\ Of(k, "servers") # <<>>
  /\ Says(k, "server_connections") > 0
  /\ Of(k, "redis_auth") # <<>> => Says(k, "redis") = 1
  /\ Unique([j \in DOMAIN Of(k, "servers") |-> Known(Of(k, "servers")[j])])

Proper ==
  /\ \A k \in DOMAIN file : ProperPool(k)
  /\ Unique([k \in DOMAIN file |-> file[k].name])
  /\ Unique([k \in DOMAIN file |-> Of(k, "listen")[1].value])

(***************************************************************************)
(* A file is taken when it is proper and turned away when it is not: lines *)
(* are understood, no option is given twice, each pool has an address of   *)
(* its own and servers told apart by name, wherever in the file the two    *)
(* that clash stand.                                                       *)
(***************************************************************************)
ProperDecides ==
  /\ status \in {"valid", "running"} => Proper
  /\ status = "invalid" => ~Proper

(***************************************************************************)
(* A running pool is the one the file describes: every option of the file, *)
(* the default of every other (client_connections apart), and every server *)
(* with the host, port, weight and name of its line.                       *)
(***************************************************************************)
AsWritten ==
  status = "running" =>
    \A k \in DOMAIN file : \E r \in ToSet(running) :
      /\ r.name = file[k].name
      /\ \A o \in Options \ {"server_retry_timeout", "client_connections"} :
           r.opt[o] = Says(k, o)
      /\ r.opt["server_retry_timeout"] = 1000 * Says(k, "server_retry_timeout")
      /\ r.require_auth <=> Of(k, "redis_auth") # <<>>
      /\ {[name |-> s.name, addr |-> s.addr, port |-> s.port, weight |-> s.weight] :
            s \in ToSet(r.server)}
         = {[name |-> Known(l), addr |-> l.host, port |-> l.n, weight |-> l.weight] :
            l \in ToSet(Of(k, "servers"))}

(***************************************************************************)
(* Defaults are for unset directives: a pool whose file limits its client  *)
(* connections runs with that limit.                                       *)
(***************************************************************************)
ClientLimit ==
  status = "running" =>
    \A k \in DOMAIN file : \E r \in ToSet(running) :
      /\ r.name = file[k].name
      /\ r.opt["client_connections"] = Says(k, "client_connections")

SameServer(a, b) ==
  IF a.name # <<>> \/ b.name # <<>> THEN a.name = b.name
  ELSE a.host = b.host /\ a.n = b.n /\ a.weight = b.weight

(***************************************************************************)
(* Servers are duplicates only if host, port and weight are the same, or   *)
(* the configured name: a file that has no such pair, and nothing else     *)
(* wrong, is not turned away.                                              *)
(***************************************************************************)
OnlyDuplicates ==
  status = "invalid" =>
    \/ \E k \in DOMAIN file :
         \/ \E j, m \in DOMAIN Of(k, "servers") :
              j # m /\ SameServer(Of(k, "servers")[j], Of(k, "servers")[m])
         \/ Of(k, "listen") = <<>> \/ Of(k, "servers") = <<>> \/ Len(Of(k, "listen")) > 1

(***************************************************************************)
(* string_copy is asked for at least one character, as it asserts.         *)
(***************************************************************************)
CopiesSomething == ~asserted

(***************************************************************************)
(* A listening path without permissions gets the default: none to set.     *)
(***************************************************************************)
DefaultPermission ==
  status = "running" =>
    \A k \in DOMAIN file :
      Of(k, "listen")[1].digits = <<>> =>
        \E r \in ToSet(running) : r.name = file[k].name /\ r.perm = 0
==============================================================================
