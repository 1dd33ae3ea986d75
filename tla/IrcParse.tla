------------------------------ MODULE IrcParse ------------------------------
(***************************************************************************)
(* irc_parse (irc.c): a line from the server is cut in place into the      *)
(* strings parv[0], the source, to parv[parc - 1], which the handlers get. *)
(* A step is a round of the loop.                                          *)
(*                                                                         *)
(* Characters are ":", " ", "NUL" and those in Chars; a pointer is an      *)
(* index into IRC_RAW, or SERVER, or STALE: parv is static, and what a     *)
(* line does not set is still there from the one before.                   *)
(***************************************************************************)
EXTENDS Integers, Sequences, FiniteSetsExt

CONSTANTS
  Chars,      \* other characters
  PARVMAX,    \* elements of parv, 17
  MaxLine     \* bound: length of a line

ParseConfig ==
  PARVMAX \in Nat /\ PARVMAX > 1 /\ MaxLine \in Nat /\ Chars \cap {":", " ", "NUL"} = {}

VARIABLES
  line,          \* what the server has sent
  IRC_RAW,       \* the copy that is cut
  pos, parc,
  parv,          \* elements 0..PARVMAX - 1
  pc             \* loop; handler, or undefined after a store beyond parv

vars == <<line, IRC_RAW, pos, parc, parv, pc>>

SERVER == 0
STALE  == -1

Lines == UNION {[1..l -> Chars \cup {":", " "}] : l \in 1..MaxLine}

-----------------------------------------------------------------------------
At(i) == IF i > Len(IRC_RAW) THEN "NUL" ELSE IRC_RAW[i]

\* strchr(pos, ' '), or 0.
strchr ==
  LET spaces == {i \in pos..Len(IRC_RAW) : At(i) = " "}
  IN  IF spaces = {} THEN 0 ELSE Min(spaces)

\* The condition of the loop.
Found == pc = "loop" /\ strchr # 0 /\ parc <= PARVMAX

\* Fault: the string before is not ended.
Store_Open(p) ==
  /\ parc' = parc + 1
  /\ parv' = IF parc < PARVMAX THEN [parv EXCEPT ![parc] = p] ELSE parv
  /\ UNCHANGED IRC_RAW

\* parv[parc++] = p; *pos = '\0'
Store(p) ==
  /\ parc' = parc + 1
  /\ parv' = IF parc < PARVMAX THEN [parv EXCEPT ![parc] = p] ELSE parv
  /\ IRC_RAW' = [IRC_RAW EXCEPT ![strchr] = "NUL"]

Unless_beyond(state) == IF parc < PARVMAX THEN state ELSE "undefined"

\* "Anything after a : is considered the final string".
parse_rest ==
  /\ Found /\ At(strchr + 1) = ":"
  /\ Store(strchr + 2)
  /\ pc' = Unless_beyond("handler")
  /\ UNCHANGED <<line, pos>>

\* Any other string; as no character is both ' ' and NUL, the test for excessive
\* spaces never holds.
parse_word ==
  /\ Found /\ At(strchr + 1) # ":"
  /\ Store(strchr + 1)
  /\ pos' = strchr + 1
  /\ pc' = Unless_beyond("loop")
  /\ UNCHANGED line

parse_done ==
  /\ pc = "loop" /\ ~ Found
  /\ pc' = "handler"
  /\ UNCHANGED <<line, IRC_RAW, pos, parc, parv>>

-----------------------------------------------------------------------------
\* A line has been read; parv[0] is the source.
Init ==
  /\ line \in Lines /\ IRC_RAW = line /\ pos = 1
  /\ LET first == IF line[1] = ":" THEN <<2>> ELSE <<SERVER, 1>>
     IN  /\ parc = Len(first)
         /\ parv = [k \in 0..(PARVMAX - 1) |-> IF k < parc THEN first[k + 1] ELSE STALE]
  /\ pc = "loop"

Next == parse_rest \/ parse_word \/ parse_done

Spec == Init /\ [][Next]_vars

-----------------------------------------------------------------------------
(* Properties *)

\* The string at p.
String(p) ==
  IF p = SERVER THEN <<"SERVER">>
  ELSE SubSeq(IRC_RAW, p, Min({k \in p..(Len(IRC_RAW) + 1) : At(k) = "NUL"}) - 1)

\* The line without its final string, and that, if there is one.
Colons == {k \in 1..(Len(line) - 1) : line[k] = " " /\ line[k + 1] = ":"}
Main   == IF Colons = {} THEN line ELSE SubSeq(line, 1, Min(Colons) - 1)
Final  == IF Colons = {} THEN <<>> ELSE <<SubSeq(line, Min(Colons) + 2, Len(line))>>

\* The words of it, each from one end to the next.
Words ==
  LET ends == {0, Len(Main) + 1} \cup {k \in DOMAIN Main : Main[k] = " "}
      End(k) == CHOOSE e \in ends : Cardinality({x \in ends : x < e}) = k
  IN  [k \in 1..(Cardinality(ends) - 1) |-> SubSeq(Main, End(k - 1) + 1, End(k) - 1)]

\* What the line says: source, command, parameters.
Said ==
  (IF line[1] = ":" THEN <<Tail(Words[1])>> ELSE <<<<"SERVER">>, Words[1]>>)
    \o Tail(Words) \o Final

\* A message of the protocol: words with one space between them, one of them the
\* command, and not more parameters than there may be.  ("Avoid excessive spaces"
\* is a test that no character passes: a second space makes an empty parameter.)
Conforming ==
  /\ \A k \in DOMAIN Words : Words[k] \notin {<<>>, <<":">>}
  /\ line[1] = ":" => Len(Words) > 1
  /\ Len(Said) <= PARVMAX

\* Handlers get what the server said, whole and in place, with as many
\* parameters as the protocol allows, and nothing of an earlier line.
ParamsAsSaid ==
  Conforming =>
    /\ pc # "undefined"
    /\ pc = "handler" => [k \in 1..parc |-> String(parv[k - 1])] = Said
=============================================================================
