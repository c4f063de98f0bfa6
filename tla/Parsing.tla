------------------------------ MODULE Parsing ------------------------------
(***************************************************************************)
(* What the parsers of proto/ have in common.  A parser runs over the part *)
(* of the last mbuf b of message q that is not parsed yet, one byte after  *)
(* the other; a step at position p goes on at a.p + 1, rejects the message *)
(* or completes it.  In q, token is the position where the token being     *)
(* read starts, 0 for NULL, and rlen the length of the next word.          *)
(***************************************************************************)
EXTENDS Integers, Sequences, SequencesExt

CR == "CR"
LF == "LF"

digits == <<"0", "1", "2", "3", "4", "5", "6", "7", "8", "9">>
isdigit(ch) == ch \in Range(digits)
digit(ch) == (CHOOSE i \in 1..10 : digits[i] = ch) - 1

Go(q, p) == [q |-> q, p |-> p, out |-> "go"]
Error(q) == [q |-> q, p |-> q.pos, out |-> "error"]
Done(q, p) == [q |-> q, p |-> p, out |-> "done"]

Linefeed(q, p, ch, next) ==
    IF ch = LF THEN Go([q EXCEPT !.state = next], p) ELSE Error(q)

\* A word the proxy does not read is skipped, over as many mbufs as it takes.
Skip(s, b, q, p, next) ==
    LET m == p + q.rlen IN
      IF m >= b.last
      THEN Go([q EXCEPT !.rlen = @ - (b.last - p)], b.last - 1)
      ELSE IF s[m] # CR THEN Error(q)
      ELSE Go([q EXCEPT !.rlen = 0, !.state = next], m)

\* A token cut by the end of a full mbuf is not moved to the next one.
Faulty_MoreBytes(b, q) == [q EXCEPT !.pos = b.last, !.result = "AGAIN"]

\* The bytes ran out.  A token that reaches the end of a full mbuf is read
\* again from its start, once it is moved to a new mbuf.
MoreBytes(b, q) ==
    IF b.last = b.end /\ q.token # 0
    THEN [q EXCEPT !.pos = q.token, !.token = 0, !.result = "REPAIR"]
    ELSE [q EXCEPT !.pos = b.last, !.result = "AGAIN"]

\* The labels error and done at the end of a parser.
Ended(a) ==
    IF a.out = "error" THEN [a.q EXCEPT !.result = "ERROR"]
    ELSE [a.q EXCEPT !.pos = a.p + 1, !.token = 0, !.state = "SW_START",
                     !.result = "OK"]

\* Numbers and bulk strings, as the peers write them.
number(n) == IF n < 10 THEN <<digits[n + 1]>>
             ELSE <<digits[(n \div 10) + 1], digits[(n % 10) + 1]>>

bulk(w) == <<"$">> \o number(Len(w)) \o <<CR, LF>> \o w \o <<CR, LF>>
=============================================================================
