----------------------------- MODULE MCInstance -----------------------------
(***************************************************************************)
(* An instance from its configuration file to its end, for TLC: the shape  *)
(* of the file, its directives, the start of a process and its way out,    *)
(* the master and its workers, the statistics page and the requests to     *)
(* etcd.  A behaviour is one of one part, which never changes; the         *)
(* variables of the others are idle.  The processes are those of Workers   *)
(* itself, with the constants of the configuration: two workers, three     *)
(* deaths and two signals on the way.                                      *)
(***************************************************************************)
EXTENDS MCConfFiles, Workers, TLC

CONSTANTS c1, c2, c3, c4, c5, c6,       \* connections
          h1, h2, h3,                   \* etcd's hosts
          NoConn

VARIABLES part,
          file,                                              \* both readers
          stream, phase, v, cf, broken,                      \* the shape
          i,                                                 \* shape, start, etcd
          pools, status, asserted, running,                  \* the directives
          todo, held, alive, freeq, p_conn, s_conn, c_conn, ran, dangling,
          call, len, out, failed,                            \* the page
          addresses, left, picked, tried, rsp, sent, got, result, done

shapeVars == <<stream, phase, v, cf, broken>>
poolsVars == <<pools, status, asserted, running>>
startVars == <<todo, held, alive, freeq, p_conn, s_conn, c_conn, ran, dangling>>
workerVars == <<proc, new, reaped, term, pidfile, told, deaths, signals>>
pageVars == <<call, len, out, failed>>
etcdVars == <<addresses, left, picked, tried, rsp, sent, got, result, done>>

-----------------------------------------------------------------------------
Shape == INSTANCE ConfStructure WITH Files <- TreeFiles

\* The directives of one pool in every order, servers and addresses in every
\* order, and pools that may clash.
Options == INSTANCE ConfPools WITH
             Lines <- OptionLines, PoolNames <- {<<"p">>}, MaxLines <- 5,
             Chars <- MCChars, Garbage <- {0}
Servers == INSTANCE ConfPools WITH
             Lines <- ServerLines, PoolNames <- {<<"p">>}, MaxLines <- 5,
             Chars <- MCChars, Garbage <- {0}
Clashes == INSTANCE ConfPools WITH
             Lines <- PoolLines, PoolNames <- {<<"p">>, <<"q">>}, MaxLines <- 7,
             Chars <- MCChars, Garbage <- {0}

\* Two pools, two clients and six structures.
Conn == {c1, c2, c3, c4, c5, c6}
Start == INSTANCE Startup WITH NPool <- 2, MaxClients <- 2, pid_filename <- TRUE

\* The texts of nc_stats.c and nc_stats.h, by length; numbers of one digit
\* and of as many as a 64 bit number has.
Page == INSTANCE StatsBuffer WITH
          HeaderString <- <<<<7, 10>>, <<6, 1>>, <<7, 5>>>>,
          HeaderNum <- <<6, 3, 9, 17, 16>>,
          PoolMetric <- <<10, 10, 18, 13, 13, 9>>,
          ServerMetric <- <<10, 10, 15, 18, 17, 8, 13, 9, 14, 8, 14, 9, 15>>,
          Pools <- <<[name |-> 1, servers |-> <<1, 9>>], [name |-> 4, servers |-> <<3>>]>>,
          Digits <- {1, 20}

\* Three hosts, answers of every status and with bodies shorter and longer
\* than the lines before them.
AllAnswers ==
  [status : {<<"2", "0", "0">>, <<"4", "0", "0">>, <<"5", "0", "3">>},
   index : {<<"7">>, <<"4", "2">>},
   body : {<<"{", "}">>, <<"{", "a", ":", "1", "}">>,
           <<"{", "a", ":", "1", "b", "c", "d", "e", "f", "g", "h", "}">>}]
Etcd == INSTANCE EtcdRequest WITH
          Host <- {h1, h2, h3}, Answers <- AllAnswers, Requests <- 2

Symmetry == Permutations(Pid \ {M})

-----------------------------------------------------------------------------
idle == "idle"

NoShape == stream = idle /\ phase = idle /\ v = idle /\ cf = idle /\ broken = idle
NoPools == pools = idle /\ status = idle /\ asserted = idle /\ running = idle
NoStart ==
    /\ todo = idle /\ held = idle /\ alive = idle /\ freeq = idle /\ p_conn = idle
    /\ s_conn = idle /\ c_conn = idle /\ ran = idle /\ dangling = idle
NoWorkers ==
    /\ proc = [p \in Pid |-> free] /\ new = idle /\ reaped = idle /\ term = idle
    /\ pidfile = idle /\ told = FALSE /\ deaths = idle /\ signals = idle
NoPage == call = idle /\ len = idle /\ out = idle /\ failed = idle
NoEtcd ==
    /\ addresses = idle /\ left = idle /\ picked = idle /\ tried = idle /\ rsp = idle
    /\ sent = idle /\ got = idle /\ result = idle /\ done = idle

AnyInit ==
    \/ /\ part = "shape" /\ Shape!Init
       /\ NoPools /\ pc = idle /\ NoStart /\ NoWorkers /\ NoPage /\ NoEtcd
    \/ /\ \/ part = "options" /\ Options!Init
          \/ part = "servers" /\ Servers!Init
          \/ part = "clashes" /\ Clashes!Init
       /\ NoShape /\ i = idle /\ pc = idle /\ NoStart /\ NoWorkers /\ NoPage /\ NoEtcd
    \/ /\ part = "start" /\ Start!Init
       /\ file = idle /\ NoShape /\ NoPools /\ NoWorkers /\ NoPage /\ NoEtcd
    \/ /\ part = "workers" /\ Init
       /\ file = idle /\ NoShape /\ i = idle /\ NoPools /\ NoStart /\ NoPage /\ NoEtcd
    \/ /\ part = "page" /\ Page!Init
       /\ file = idle /\ NoShape /\ i = idle /\ NoPools /\ pc = idle /\ NoStart
       /\ NoWorkers /\ NoEtcd
    \/ /\ part = "etcd" /\ Etcd!Init
       /\ file = idle /\ NoShape /\ NoPools /\ pc = idle /\ NoStart /\ NoWorkers /\ NoPage

AnyNext ==
    /\ \/ /\ part = "shape" /\ Shape!Next
          /\ UNCHANGED <<poolsVars, pc, startVars, workerVars, pageVars, etcdVars>>
       \/ /\ \/ part = "options" /\ Options!Next
             \/ part = "servers" /\ Servers!Next
             \/ part = "clashes" /\ Clashes!Next
          /\ UNCHANGED <<shapeVars, i, pc, startVars, workerVars, pageVars, etcdVars>>
       \/ /\ part = "start" /\ Start!Next
          /\ UNCHANGED <<file, shapeVars, poolsVars, workerVars, pageVars, etcdVars>>
       \/ /\ part = "workers" /\ Next
          /\ UNCHANGED <<file, shapeVars, i, poolsVars, startVars, pageVars, etcdVars>>
       \/ /\ part = "page" /\ Page!Next
          /\ UNCHANGED <<file, shapeVars, i, poolsVars, pc, startVars, workerVars,
                         etcdVars>>
       \/ /\ part = "etcd" /\ Etcd!Next
          /\ UNCHANGED <<file, shapeVars, poolsVars, pc, startVars, workerVars, pageVars>>
    /\ UNCHANGED part

AnySpec == AnyInit /\ [][AnyNext]_<<part, file, shapeVars, i, poolsVars, pc, startVars,
                                    workerVars, pageVars, etcdVars>>

-----------------------------------------------------------------------------
\* conf_pre_validate() turns away exactly the files without the shape that
\* the comment in conf_validate_structure() draws; no file it lets through
\* makes conf_parse() meet an ASSERT or a NOT_REACHED, and conf_parse() gives
\* each pool its directives, each with its own value and in the file's order.
ShapeRead ==
    part = "shape" => Shape!ShapeDecides /\ Shape!NeverBroken /\ Shape!ReadAsWritten

\* A file is taken when it is proper and turned away when it is not, wherever
\* in it the two lines that clash stand (conf_handler, conf_post_validate); a
\* running pool (server_pool_init) has the options and servers of the file,
\* and the defaults of conf_validate_pool() for the rest.
PoolsRead ==
    /\ part = "options" => Options!ProperDecides /\ Options!AsWritten
    /\ part = "servers" => Servers!ProperDecides /\ Servers!AsWritten
    /\ part = "clashes" => Clashes!ProperDecides

\* Whichever step of core_start() and nc_pre_run() fails, the process gives
\* back all it had; on every way out the event base, the statistics and the
\* pools outlive the listeners and the server connections; and a connection is
\* on the free list once, or a listener, a server or a client.
StartSound ==
    part = "start" =>
        Start!FailedStartUnwinds /\ Start!PartsOutliveConns /\ Start!OnePlace

\* stats_create_buf() allocates enough for any page, and a finished page is
\* well-formed: braces match and members are separated by one comma
\* (stats_end_nesting, stats_add_footer).
PageSound == part = "page" => Page!AlwaysFits /\ Page!WellFormed

=============================================================================
