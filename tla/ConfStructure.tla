---------------------------- MODULE ConfStructure ----------------------------
(***************************************************************************)
(* Reading the configuration file (nc_conf.c).  The file is read three     *)
(* times before its directives are believed: once to count its documents,  *)
(* once to look at its tokens and once to check that its tree has the      *)
(* shape                                                                   *)
(*     pool:  key: value ...  seq: - elem ...  key: value ...              *)
(* and then a fourth time by a parser that relies on that shape: it finds  *)
(* out what a scalar is from the depth and from the height of a stack of   *)
(* pending scalars, and asserts what the check should have guaranteed.     *)
(*                                                                         *)
(* A document is a tree; the events libyaml delivers for it are the tree   *)
(* written out.  What a directive does with its value is ConfPools's.      *)
(***************************************************************************)
EXTENDS Naturals, Sequences, SequencesExt

CONSTANTS Files            \* the files: sequences of document trees

\* A node is a scalar, an alias, a mapping (keys and values in turn) or a
\* sequence.  A collection without entries can only be written in flow style.
scalar(s) == [kind |-> "scalar", value |-> s, kids |-> <<>>]
mapping(kids) == [kind |-> "mapping", value |-> "", kids |-> kids]
sequence(kids) == [kind |-> "sequence", value |-> "", kids |-> kids]
alias == [kind |-> "alias", value |-> "", kids |-> <<>>]

CONF_ROOT_DEPTH == 1
CONF_MAX_DEPTH == CONF_ROOT_DEPTH + 1

-----------------------------------------------------------------------------
\* libyaml: the events of a tree, between those of its document
RECURSIVE Events(_)
Events(t) ==
  IF t.kind \in {"scalar", "alias"}
  THEN <<[type |-> t.kind, value |-> t.value]>>
  ELSE <<[type |-> t.kind \o "_start", value |-> ""]>>
       \o FlattenSeq([i \in DOMAIN t.kids |-> Events(t.kids[i])])
       \o <<[type |-> t.kind \o "_end", value |-> ""]>>

Stream(f) ==
  <<[type |-> "stream_start", value |-> ""]>>
  \o FlattenSeq([i \in DOMAIN f |->
       <<[type |-> "document_start", value |-> ""]>> \o Events(f[i])
       \o <<[type |-> "document_end", value |-> ""]>>])
  \o <<[type |-> "stream_end", value |-> ""]>>

\* libyaml: the kinds of token a tree is written with
RECURSIVE Tokens(_)
Tokens(t) ==
  CASE t.kind = "scalar" -> {"scalar"}
    [] t.kind = "alias" -> {"anchor", "alias"}
    [] t.kids = <<>> -> {"flow_start", "flow_end"}
    [] t.kind = "mapping" ->
         {"block_mapping_start", "key", "value", "block_end"}
         \cup UNION {Tokens(t.kids[i]) : i \in DOMAIN t.kids}
    [] OTHER ->
         {"block_sequence_start", "block_entry", "block_end"}
         \cup UNION {Tokens(t.kids[i]) : i \in DOMAIN t.kids}

-----------------------------------------------------------------------------
VARIABLES file,     \* the file being read
          stream,   \* its events
          phase,    \* the function of conf_create that is running
          i,        \* events read by it
          v,        \* conf_validate_structure: depth, count[], seq
          cf,       \* struct conf: depth, arg, seq, and what it handed over
          broken    \* an ASSERT or a NOT_REACHED was met

vars == <<file, stream, phase, i, v, cf, broken>>

event == stream[i + 1]

Init ==
  /\ file \in Files
  /\ stream = Stream(file)
  /\ phase = "documents"
  /\ i = 0
  /\ v = [depth |-> 0, count |-> [d \in 0 .. CONF_MAX_DEPTH |-> 0], seq |-> FALSE]
  /\ cf = [depth |-> 0, arg |-> <<>>, seq |-> FALSE, pools |-> <<>>]
  /\ broken = FALSE

conf_validate_document ==
  /\ phase = "documents"
  /\ phase' = IF Len(file) = 1 THEN "tokens" ELSE "rejected"
  /\ UNCHANGED <<file, stream, i, v, cf, broken>>

\* What a file may be written with: blocks of scalars.
block == {"block_sequence_start", "block_mapping_start", "block_end",
          "block_entry", "key", "value", "scalar"}

plain(t) == Tokens(t) \subseteq block

conf_validate_tokens ==
  /\ phase = "tokens"
  /\ phase' = IF plain(file[1]) THEN "structure" ELSE "rejected"
  /\ UNCHANGED <<file, stream, i, v, cf, broken>>

-----------------------------------------------------------------------------
\* conf_validate_structure, event by event: what it finds wrong ...
Faulty_wrong(s, t) ==
  \/ t = "mapping_start" /\ s.depth >= CONF_MAX_DEPTH
  \/ t = "mapping_end" /\ s.depth = CONF_MAX_DEPTH /\ ~s.seq
  \/ t = "sequence_start" /\ (s.seq \/ s.depth # CONF_MAX_DEPTH \/ s.count[s.depth] # 1)
  \/ t = "scalar" /\ (s.depth = 0 \/ (s.depth = CONF_ROOT_DEPTH /\ s.count[s.depth] # 0))
Faulty_wrong_seq(s, t) ==
  \/ t = "mapping_start" /\ (\/ s.depth = CONF_ROOT_DEPTH /\ s.count[s.depth] # 1
                             \/ s.depth >= CONF_MAX_DEPTH)
  \/ t = "mapping_end" /\ s.depth = CONF_MAX_DEPTH /\ ~s.seq
  \/ t = "sequence_start" /\ (s.depth # CONF_MAX_DEPTH \/ s.count[s.depth] # 1)
  \/ t = "scalar" /\ (s.depth = 0 \/ (s.depth = CONF_ROOT_DEPTH /\ s.count[s.depth] # 0))
wrong(s, t) ==
  \/ t = "mapping_start" /\ (\/ s.depth = CONF_ROOT_DEPTH /\ s.count[s.depth] # 1
                             \/ s.depth >= CONF_MAX_DEPTH)
  \/ t = "mapping_end" /\ s.depth = CONF_MAX_DEPTH /\ ~s.seq
  \/ t = "sequence_start" /\ (s.seq \/ s.depth # CONF_MAX_DEPTH \/ s.count[s.depth] # 1)
  \/ t = "scalar" /\ (s.depth = 0 \/ (s.depth = CONF_ROOT_DEPTH /\ s.count[s.depth] # 0))

\* ... what it counts: the scalars of the pair being read at each depth ...
counted(s, t) ==
  CASE t = "mapping_start" -> [s EXCEPT !.depth = @ + 1]
    [] t = "mapping_end" ->
         [s EXCEPT !.depth = @ - 1, !.count[s.depth - 1] = 0,
                   !.seq = @ /\ s.depth # CONF_MAX_DEPTH]
    [] t = "sequence_start" -> [s EXCEPT !.seq = TRUE]
    [] t = "sequence_end" -> [s EXCEPT !.count[s.depth] = 0]
    [] t = "scalar" ->
         [s EXCEPT !.count[s.depth] =
            IF s.depth = CONF_MAX_DEPTH /\ @ = 2 THEN 1 ELSE @ + 1]
    [] OTHER -> s

\* ... and what it takes for granted.
unexpected(s, t) ==
  \/ t = "alias"
  \/ t = "sequence_end" /\ s.depth # CONF_MAX_DEPTH

conf_validate_structure ==
  /\ phase = "structure"
  /\ broken' = unexpected(v, event.type)
  /\ \/ /\ unexpected(v, event.type) \/ wrong(v, event.type)
        /\ phase' = "rejected"
        /\ UNCHANGED <<i, v>>
     \/ /\ ~unexpected(v, event.type) /\ ~wrong(v, event.type)
        /\ v' = counted(v, event.type)
        /\ \/ event.type = "stream_end" /\ phase' = "begin" /\ i' = 0
           \/ event.type # "stream_end" /\ i' = i + 1 /\ UNCHANGED phase
  /\ UNCHANGED <<file, stream, cf>>

-----------------------------------------------------------------------------
\* conf_begin_parse and conf_end_parse: what surrounds the root mapping
conf_begin_parse ==
  /\ phase = "begin"
  /\ i' = i + 1
  /\ broken' = (event.type \notin {"stream_start", "document_start", "mapping_start"})
  /\ \/ /\ event.type # "mapping_start"
        /\ phase' = IF broken' THEN "failed" ELSE phase
        /\ UNCHANGED cf
     \/ /\ event.type = "mapping_start"
        /\ cf' = [cf EXCEPT !.depth = @ + 1]
        /\ phase' = "parse"
  /\ UNCHANGED <<file, stream, v>>

conf_end_parse ==
  /\ phase = "end"
  /\ i' = i + 1
  /\ broken' = (event.type \notin {"document_end", "stream_end"})
  /\ phase' = CASE broken' -> "failed"
                [] event.type = "stream_end" -> "parsed"
                [] OTHER -> phase
  /\ UNCHANGED <<file, stream, v, cf>>

\* conf_parse_core on the events that open and close a collection
nest(c, t) ==
  CASE t = "mapping_start" -> [c EXCEPT !.depth = @ + 1]
    [] t = "mapping_end" ->
         [c EXCEPT !.depth = @ - 1, !.arg = IF c.depth = 2 THEN Front(@) ELSE @]
    [] t = "sequence_start" -> [c EXCEPT !.seq = TRUE]
    [] OTHER -> [c EXCEPT !.arg = Front(@), !.seq = FALSE]

\* conf_pop_scalar on an empty stack
underflow(c, t) ==
  /\ c.arg = <<>>
  /\ t = "sequence_end" \/ (t = "mapping_end" /\ c.depth = 2)

core_nest ==
  /\ phase = "parse"
  /\ event.type \in {"mapping_start", "mapping_end", "sequence_start", "sequence_end"}
  /\ i' = i + 1
  /\ broken' = underflow(cf, event.type)
  /\ cf' = IF broken' THEN cf ELSE nest(cf, event.type)
  /\ phase' = CASE broken' -> "failed"
                [] event.type = "mapping_end" /\ cf.depth = 1 -> "end"
                [] OTHER -> phase
  /\ UNCHANGED <<file, stream, v>>

\* conf_parse_core on a scalar: pushed, it may name a pool, or complete a
\* directive.  conf_handler gives the pool its name, or the directive its
\* value; it fails on a value it does not like and when memory runs out.
push(c, s) == [c EXCEPT !.arg = Append(@, s)]

new_pool(c) == ~c.seq /\ c.depth = CONF_ROOT_DEPTH

leaf(c) == c.seq \/ (c.depth # CONF_ROOT_DEPTH /\ Len(c.arg) = c.depth + 1)

conf_handler(c) ==
  IF Len(c.arg) = 1
  THEN [c EXCEPT !.pools = Append(@, [name |-> Last(c.arg), set |-> <<>>])]
  ELSE [c EXCEPT !.pools[Len(c.pools)].set =
          Append(@, <<c.arg[Len(c.arg) - 1], Last(c.arg)>>)]

Faulty_popped(c) ==
  IF ~leaf(c) THEN c ELSE [c EXCEPT !.arg = Front(@)]
popped(c) ==
  IF ~leaf(c) THEN c
  ELSE [c EXCEPT !.arg = IF c.seq THEN Front(@) ELSE Front(Front(@))]

\* The ASSERTs: a leaf is at CONF_MAX_DEPTH, and a directive has a pool.
misplaced(c) ==
  \/ leaf(c) /\ (c.depth # CONF_MAX_DEPTH \/ Len(c.arg) < 2 \/ c.pools = <<>>)
  \/ new_pool(c) /\ Len(c.arg) # 1

core_scalar ==
  /\ phase = "parse"
  /\ event.type \notin {"mapping_start", "mapping_end", "sequence_start", "sequence_end"}
  /\ i' = i + 1
  /\ LET c == push(cf, event.value)
         empty == event.type = "scalar" /\ event.value = ""
     IN /\ broken' = (event.type # "scalar" \/ (~empty /\ misplaced(c)))
        /\ \/ /\ broken' \/ empty
              /\ phase' = "failed"
              /\ UNCHANGED cf
           \/ /\ ~broken' /\ ~empty /\ (leaf(c) \/ new_pool(c))
              /\ \/ cf' = popped(conf_handler(c)) /\ UNCHANGED phase
                 \/ cf' = popped(c) /\ phase' = "failed"
           \/ /\ ~broken' /\ ~empty /\ ~leaf(c) /\ ~new_pool(c)
              /\ cf' = c
              /\ UNCHANGED phase
  /\ UNCHANGED <<file, stream, v>>

\* conf_create's error path: the pending scalars and the pools go.
conf_destroy ==
  /\ phase \in {"failed", "rejected"}
  /\ cf' = [cf EXCEPT !.arg = <<>>, !.pools = <<>>]
  /\ phase' = "destroyed"
  /\ UNCHANGED <<file, stream, i, v, broken>>

Next ==
  \/ conf_validate_document \/ conf_validate_tokens \/ conf_validate_structure
  \/ conf_begin_parse \/ core_nest \/ core_scalar \/ conf_end_parse
  \/ conf_destroy

Spec == Init /\ [][Next]_vars

-----------------------------------------------------------------------------
\* The shape the comment in conf_validate_structure draws, on the tree.
At(t, odd) == {t.kids[k] : k \in {j \in DOMAIN t.kids : j % 2 = odd}}

ShapedPool(t) ==
  /\ t.kind = "mapping"
  /\ \A key \in At(t, 1) : key.kind = "scalar"
  /\ \A value \in At(t, 0) :
       \/ value.kind = "scalar"
       \/ /\ value.kind = "sequence" /\ value.kids # <<>>
          /\ \A k \in DOMAIN value.kids : value.kids[k].kind = "scalar"
  /\ Len(SelectSeq(t.kids, LAMBDA k : k.kind = "sequence")) = 1

Shaped(f) ==
  /\ Len(f) = 1
  /\ f[1].kind = "mapping" /\ f[1].kids # <<>>
  /\ \A name \in At(f[1], 1) : name.kind = "scalar"
  /\ \A pool \in At(f[1], 0) : ShapedPool(pool)

\* The directives of a shaped document, pool by pool, in its order.
Directives(t) ==
  FlattenSeq([k \in 1 .. Len(t.kids) \div 2 |->
    LET key == t.kids[2 * k - 1].value
        value == t.kids[2 * k]
    IN IF value.kind = "scalar" THEN <<<<key, value.value>>>>
       ELSE [e \in DOMAIN value.kids |-> <<key, value.kids[e].value>>]])

Reading(f) ==
  [p \in 1 .. Len(f[1].kids) \div 2 |->
    [name |-> f[1].kids[2 * p - 1].value, set |-> Directives(f[1].kids[2 * p])]]

(***************************************************************************)
(* No file makes the reader meet an ASSERT or a NOT_REACHED: what          *)
(* conf_pre_validate lets through is all that conf_parse relies on.        *)
(***************************************************************************)
NeverBroken == ~broken

(***************************************************************************)
(* conf_pre_validate turns away exactly the files that do not have the     *)
(* shape of its comment: counting scalars at each depth is enough to tell. *)
(***************************************************************************)
ShapeDecides ==
  /\ phase = "rejected" => ~Shaped(file)
  /\ phase = "begin" => Shaped(file)

(***************************************************************************)
(* A file read to its end gave each pool its directives, each with its own *)
(* value and in the order of the file, and left no scalar pending.         *)
(***************************************************************************)
ReadAsWritten ==
  phase = "parsed" =>
    /\ cf.pools = Reading(file)
    /\ cf.arg = <<>> /\ cf.depth = 0 /\ ~cf.seq
==============================================================================
