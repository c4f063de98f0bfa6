----------------------------- MODULE EtcdRequest -----------------------------
(***************************************************************************)
(* A request to etcd (cetcd.c): cetcd_client_init shuffles the hosts and   *)
(* starts at one of them; cetcd_cluster_request asks one host after the    *)
(* other until one answers; cetcd_parse_response reads the answer as       *)
(* libcurl hands it over, one header line per call and then the body.      *)
(* libcurl and the hosts are external.                                     *)
(***************************************************************************)
EXTENDS Naturals, Sequences, FiniteSets, SequencesExt

CONSTANTS
  Host,     \* the etcd hosts of the configuration
  Answers,  \* what a host may answer: status, etcd index, the body
  Requests  \* bound: requests of one client

VARIABLES
  addresses, left, \* cli->addresses, and the positions still to shuffle
  picked,          \* cli->picked
  i, tried,        \* the loop of cetcd_cluster_request, and whom it has asked
  rsp, sent, got,  \* the response so far; the answer, its chunks taken
  result, done     \* how the last request ended; requests so far

vars == <<addresses, left, picked, i, tried, rsp, sent, got, result, done>>

count == Len(addresses)

----------------------------------------------------------------------------
(* cetcd_parse_response                                                    *)

digit == <<"0", "1", "2", "3", "4", "5", "6", "7", "8", "9">>
SP == " "
COLON == ":"
CR == "\r"
LF == "\n"

\* atoi of the digits at the head, after blanks
atoi(s) ==
  FoldLeft(LAMBDA r, c : IF ~r.on THEN r
             ELSE IF \E k \in 1 .. 10 : digit[k] = c
             THEN [r EXCEPT !.n = @ * 10 + (CHOOSE k \in 1 .. 10 :
                                              digit[k] = c) - 1, !.num = TRUE]
             ELSE [r EXCEPT !.on = (c = SP /\ ~r.num)],
           [n |-> 0, on |-> TRUE, num |-> FALSE], s).n

\* the new text over the old one, whose end stays
Faulty_Overlay(old, new) == old \o new

Overlay(old, new) ==
  new \o SubSeq(old, Len(new) + 1, Len(old))

EtcdIndex == <<"X", "E">>   \* stands for X-Etcd-Index


header_val_end(r) ==
  LET colon == CHOOSE k \in 1 .. Len(r.buf) : r.buf[k] = COLON
      key == SubSeq(r.buf, 1, colon - 1)
  IN [r EXCEPT !.st = "header_key_start", !.buf = <<>>,
        !.index = IF key = EtcdIndex
                  THEN atoi(SubSeq(r.buf, colon + 1, Len(r.buf))) ELSE @]

\* a status other than 200 makes the parser discard: it then takes every
\* further line for the text of the answer
http_status_end(r) ==
  [r EXCEPT !.status = atoi(r.buf), !.buf = <<>>,
            !.st = IF atoi(r.buf) = 200 THEN "request_line_end" ELSE "discard"]

Keep(r, c) == [r EXCEPT !.buf = Append(@, c)]

char(r, c, chunk) ==
  CASE r.st = "request_line_start" ->
         IF c = SP THEN [r EXCEPT !.st = "http_status_start"] ELSE r
    [] r.st = "http_status_start" -> [Keep(r, c) EXCEPT !.st = "http_status"]
    [] r.st = "http_status" ->
         IF c = SP THEN http_status_end(r) ELSE Keep(r, c)
    [] r.st = "request_line_end" ->
         IF c = LF THEN [r EXCEPT !.st = "header_key_start"] ELSE r
    [] r.st = "header_key_start" ->
         CASE c = CR -> r
           [] c = LF -> [r EXCEPT !.st = "blank_line"]
           [] OTHER  -> [Keep(r, c) EXCEPT !.st = "header_key"]
    [] r.st = "header_key" ->
         [Keep(r, c) EXCEPT !.st = IF c = COLON THEN "header_val_start" ELSE @]
    [] r.st \in {"header_val_start", "header_val"} ->
         CASE c = CR -> [r EXCEPT !.st = "header_val"]
           [] c = LF -> header_val_end(r)
           [] c = SP /\ r.st = "header_val_start" -> r
           [] OTHER  -> [Keep(r, c) EXCEPT !.st = "header_val"]
    [] OTHER -> [r EXCEPT !.json_msg = Overlay(@, chunk)]

cetcd_parse_response(r, chunk) ==
  FoldLeft(LAMBDA s, c : char(s, c, chunk), r, chunk)

calloc == [st |-> "request_line_start", buf |-> <<>>, status |-> 0,
           index |-> 0, json_msg |-> <<>>]

\* libcurl: the status line, the headers and the blank line, then the body
EOL == <<CR, LF>>
Chunks(a) ==
  <<<<"H", SP>> \o a.status \o <<SP, "O">> \o EOL,
    <<"D", COLON, SP, "1", COLON, "2">> \o EOL,
    EtcdIndex \o <<COLON, SP>> \o a.index \o EOL,
    EOL,
    a.body>>

----------------------------------------------------------------------------
(* cetcd_client_init and cetcd_cluster_request                             *)

Init ==
  /\ addresses \in {SetToSeq(Host)} /\ left = Cardinality(Host)
  /\ picked = 0
  /\ i = 0 /\ tried = <<>>
  /\ rsp = calloc /\ sent = <<>> /\ got = 0
  /\ result = "none" /\ done = 0

\* cetcd_array_shuffle, from the last position down
shuffle ==
  /\ left > 1
  /\ \E j \in 1 .. left :
       addresses' = [addresses EXCEPT ![left] = addresses[j],
                                      ![j] = addresses[left]]
  /\ left' = left - 1
  /\ UNCHANGED <<picked, i, tried, rsp, sent, got, result, done>>

pick ==
  /\ left = 1
  /\ picked' \in 0 .. count - 1
  /\ left' = 0
  /\ UNCHANGED <<addresses, i, tried, rsp, sent, got, result, done>>

request ==
  /\ left = 0 /\ result # "asking" /\ done < Requests
  /\ i' = 0 /\ tried' = <<>> /\ result' = "asking"
  /\ rsp' = calloc /\ sent' = <<>> /\ got' = 0
  /\ UNCHANGED <<addresses, left, picked, done>>

\* libcurl has connected to the picked host, which starts to answer
connected ==
  /\ result = "asking" /\ sent = <<>>
  /\ \E a \in Answers : sent' = <<a>>
  /\ rsp' = calloc /\ got' = 0
  /\ UNCHANGED <<addresses, left, picked, i, tried, result, done>>

receive ==
  /\ result = "asking" /\ sent # <<>> /\ got < Len(Chunks(sent[1]))
  /\ rsp' = cetcd_parse_response(rsp, Chunks(sent[1])[got + 1])
  /\ got' = got + 1
  /\ UNCHANGED <<addresses, left, picked, i, tried, sent, result, done>>

answered ==
  /\ result = "asking" /\ sent # <<>> /\ got = Len(Chunks(sent[1]))
  /\ tried' = Append(tried, addresses[picked + 1])
  /\ result' = "answered" /\ done' = done + 1
  /\ UNCHANGED <<addresses, left, picked, i, rsp, sent, got>>

\* it refuses, or fails while it answers: the next one is asked, unless this
\* was the last one; then what it has said so far is the response
Faulty_send_failed ==
  /\ result = "asking"
  /\ tried' = Append(tried, addresses[picked + 1])
  /\ IF i = count - 1
     THEN /\ result' = "failed" /\ done' = done + 1
          /\ UNCHANGED <<i, picked, rsp, sent, got>>
     ELSE /\ i' = i + 1
          /\ picked' = IF i = 0 THEN 0 ELSE (picked + 1) % count
          /\ rsp' = calloc /\ sent' = <<>> /\ got' = 0
          /\ UNCHANGED <<result, done>>
  /\ UNCHANGED <<addresses, left>>

send_failed ==
  /\ result = "asking"
  /\ tried' = Append(tried, addresses[picked + 1])
  /\ IF i = count - 1
     THEN /\ result' = "failed" /\ done' = done + 1
          /\ UNCHANGED <<i, picked, rsp, sent, got>>
     ELSE /\ i' = i + 1
          /\ picked' = (picked + 1) % count
          /\ rsp' = calloc /\ sent' = <<>> /\ got' = 0
          /\ UNCHANGED <<result, done>>
  /\ UNCHANGED <<addresses, left>>

Next ==
  \/ shuffle \/ pick \/ request \/ connected \/ receive \/ answered
  \/ send_failed

Spec == Init /\ [][Next]_vars

----------------------------------------------------------------------------
\* "cetcd_cluster_request tries to request the whole cluster. It round-robin
\* to next server if the request failed": no host is asked twice, and a
\* request fails only after all of them were asked.
WholeCluster ==
  /\ IsInjective(tried)
  /\ result = "failed" => ToSet(tried) = Host

\* What the JSON parser is given starts with the body of the answer, whatever
\* the status was and however long the header lines left under it were
\* (json_msg of cetcd_parse_response).
BodyFirst ==
  result = "answered" => IsPrefix(sent[1].body, rsp.json_msg)

\* The index read is the one of the X-Etcd-Index line, the other lines
\* notwithstanding, when the status is 200.
IndexRead ==
  result = "answered" /\ rsp.status = 200 => rsp.index = atoi(sent[1].index)
=============================================================================
