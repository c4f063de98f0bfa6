---------------------------- MODULE StatsBuffer ----------------------------
(***************************************************************************)
(* The report of the statistics: stats_create_buf() works out once how     *)
(* long a report can get, stats_make_rsp() then writes every report into   *)
(* that buffer, piece by piece, and mends the separators as it closes a    *)
(* brace.                                                                  *)
(*                                                                         *)
(* Texts are abstracted to their lengths, the report to its tokens: "kv",  *)
(* "open", "close" and "sep".                                              *)
(***************************************************************************)
EXTENDS Integers, Sequences, SequencesExt

CONSTANTS
    HeaderString,   \* key and value lengths of the texts of the header
    HeaderNum,      \* key lengths of the numbers of the header
    PoolMetric,     \* name lengths of the metrics of a pool
    ServerMetric,   \* name lengths of the metrics of a server
    Pools,          \* per pool its name's length and those of its servers
    Digits          \* lengths a number can have

Sum(s) == FoldSeq(LAMBDA a, b : a + b, 0, s)
Map(Op(_), s) == [i \in DOMAIN s |-> Op(s[i])]

VARIABLES
    call,   \* the call of stats_make_rsp() that comes next, or 0 when it has
            \* returned
    len,    \* buf->len
    out,    \* the tokens written
    failed  \* did stats_make_rsp() return an error?

vars == <<call, len, out, failed>>

-----------------------------------------------------------------------------
int64_max_digits == 20
key_value_extra == 8
pool_extra == 8
server_extra == 8

NumRoom(k) == k + int64_max_digits + key_value_extra

NC_ALIGN(n) == ((n + 7) \div 8) * 8

Faulty_size ==
    NC_ALIGN(1
      + Sum(Map(LAMBDA kv : kv[1] + kv[2] + key_value_extra, HeaderString))
      + Sum(Map(NumRoom, HeaderNum))
      + Sum(Map(LAMBDA p : p.name + pool_extra + Sum(Map(NumRoom, PoolMetric))
                             + Sum(Map(LAMBDA s : s + server_extra, p.servers)),
                Pools))
      + 2)

(* stats_create_buf().                                                     *)
size ==
    NC_ALIGN(1
      + Sum(Map(LAMBDA kv : kv[1] + kv[2] + key_value_extra, HeaderString))
      + Sum(Map(NumRoom, HeaderNum))
      + Sum(Map(LAMBDA p : p.name + pool_extra + Sum(Map(NumRoom, PoolMetric))
                             + Sum(Map(LAMBDA s : s + server_extra
                                           + Sum(Map(NumRoom, ServerMetric)),
                                       p.servers)),
                Pools))
      + 2)

-----------------------------------------------------------------------------
(* The calls stats_make_rsp() makes, in order.                             *)
Num(k) == [op |-> "num", key |-> k, val |-> 0]
Begin(k) == <<[op |-> "begin", key |-> k, val |-> 0]>>
End == <<[op |-> "end", key |-> 0, val |-> 0]>>
Footer == <<[op |-> "footer", key |-> 0, val |-> 0]>>

make_rsp ==
    Map(LAMBDA kv : [op |-> "string", key |-> kv[1], val |-> kv[2]], HeaderString)
    \o Map(Num, HeaderNum)
    \o FlattenSeq(Map(LAMBDA p :
           Begin(p.name) \o Map(Num, PoolMetric)
           \o FlattenSeq(Map(LAMBDA s : Begin(s) \o Map(Num, ServerMetric) \o End,
                             p.servers))
           \o End, Pools))
    \o Footer

(* buf->data[0] = '{' of stats_add_header().                               *)
Init == call = 1 /\ len = 1 /\ out = <<"open">> /\ failed = FALSE

(* Room for n bytes, with one kept for the terminating zero.               *)
Fits(n) == n < size - len - 1

Return(ok) == call' = 0 /\ failed' = ~ok
Go == call' = call + 1 /\ UNCHANGED failed

Calls(o) == call > 0 /\ make_rsp[call].op = o

(* stats_add_string(), stats_add_num(): a pair and a ", " after it.        *)
Add(n, toks) ==
    IF Fits(n) THEN Go /\ len' = len + n /\ out' = out \o toks
    ELSE Return(FALSE) /\ UNCHANGED <<len, out>>

add_string ==
    /\ Calls("string")
    /\ Add(make_rsp[call].key + make_rsp[call].val + 7, <<"kv", "sep">>)

add_num(d) ==
    /\ Calls("num")
    /\ Add(make_rsp[call].key + d + 5, <<"kv", "sep">>)

begin_nesting ==
    /\ Calls("begin")
    /\ Add(make_rsp[call].key + 5, <<"open">>)

(* stats_end_nesting() looks at the last two bytes: after a pair they are  *)
(* ", " and become "},", after a brace "}," becomes "}},".                 *)
AfterPair == out[Len(out) - 1] = "kv"
AfterBrace == out[Len(out) - 1] = "close"

Faulty_Close == out \o <<"close", "sep">>

Close == SubSeq(out, 1, Len(out) - 1) \o <<"close", "sep">>

end_nesting ==
    /\ Calls("end") /\ out[Len(out)] = "sep"
    /\ \/ AfterPair /\ Go /\ out' = Close /\ UNCHANGED len
       \/ /\ AfterBrace
          /\ IF len = size THEN Return(FALSE) /\ UNCHANGED <<len, out>>
             ELSE Go /\ out' = Close /\ len' = len + 1

(* stats_add_footer(): the last comma becomes the brace.                   *)
add_footer ==
    /\ Calls("footer")
    /\ IF len = size THEN Return(FALSE) /\ UNCHANGED <<len, out>>
       ELSE /\ Return(TRUE)
            /\ out' = SubSeq(out, 1, Len(out) - 1) \o <<"close">>
            /\ len' = len + 1

(* The next report starts over in the same buffer.                         *)
add_header ==
    /\ call = 0
    /\ call' = 1 /\ len' = 1 /\ out' = <<"open">> /\ UNCHANGED failed

Next ==
    \/ add_string
    \/ \E d \in Digits : add_num(d)
    \/ begin_nesting \/ end_nesting \/ add_footer \/ add_header

Spec == Init /\ [][Next]_vars

-----------------------------------------------------------------------------
(* The buffer is sized so that a report always fits: no NC_ERROR, and no   *)
(* write past its end, whatever the counts are.                            *)
AlwaysFits == ~failed /\ len <= size

Opens(i, t) == Len(SelectSeq(SubSeq(out, 1, i), LAMBDA x : x = t))

(* A finished report is well-formed: braces match, and there is exactly    *)
(* one separator between two members and none before a closing brace       *)
(* (stats_end_nesting, stats_add_footer).                                  *)
WellFormed ==
    call = 0 =>
        /\ \A i \in 1..(Len(out) - 1) :
               /\ Opens(i, "open") > Opens(i, "close")
               /\ out[i] \in {"kv", "close"} => out[i + 1] \in {"sep", "close"}
               /\ out[i] \in {"sep", "open"} => out[i + 1] \in {"kv", "open"}
        /\ Opens(Len(out), "open") = Opens(Len(out), "close")
=============================================================================
