------------------------------- MODULE Kline --------------------------------
(***************************************************************************)
(* From a positive to the line on the wire: scan_irckline (scan.c) copies  *)
(* the configured KLINE command into a buffer of MSGLENMAX bytes, putting  *)
(* in what is known of the client for %-keys, and irc_send (irc.c) sends   *)
(* it.  A step is a round of the loop.                                     *)
(*                                                                         *)
(* message is not initialised and the loop does not always terminate it,   *)
(* while strcat and irc_send look for its end.  What they read before they *)
(* find it is whatever the stack holds; a function that runs out of the    *)
(* buffer ends in pc = "undefined".                                        *)
(***************************************************************************)
EXTENDS Integers, SequencesExt, FiniteSetsExt

CONSTANTS
  Keys,         \* the keys of the table
  Literals,     \* other characters of a format than "%"
  MSGLENMAX,    \* irc.h
  DataSizes,    \* bound: lengths of the data for a key
  MaxTokens,    \* bound: length of a format
  Trailing      \* whether formats may end in a single "%"

KlineConfig ==
  /\ MSGLENMAX \in Nat /\ MSGLENMAX > 2
  /\ DataSizes \subseteq Nat
  /\ {"%", "NUL"} \cap (Literals \cup Keys) = {}
  /\ MaxTokens \in Nat
  /\ Trailing \in BOOLEAN

VARIABLES
  tokens,    \* the format, cut into literals, "%%" and keys
  size,      \* the length of the data of each key
  message, pos, len,
  pc,        \* loop, send; sent, lost (irc_send failed) or undefined
  wire       \* what the server gets

vars == <<tokens, size, message, pos, len, pc, wire>>

\* Bytes: of the format, of the data for a key, and others.
Lit(c)  == <<"format", c>>
Data(k) == [j \in 1..size[k] |-> <<"data", k>>]
NUL     == <<"", "NUL">>
NL      == <<"", "NL">>
Junk    == <<"", "junk">>

Tokens ==
  {<<c>> : c \in Literals} \cup {<<"%", "%">>} \cup {<<"%", c>> : c \in Literals \cup Keys}

format == FlattenSeq(tokens)

\* *p for a pointer into the format, at offset i.
At(i) == IF i < Len(format) THEN format[i + 1] ELSE "NUL"

-----------------------------------------------------------------------------
\* The loop goes on.
Loop == pc = "loop" /\ At(pos) # "NUL" /\ len < MSGLENMAX - 2

kline_literal ==
  /\ Loop /\ At(pos) # "%"
  /\ message' = [message EXCEPT ![len] = Lit(At(pos)), ![len + 1] = NUL]
  /\ len' = len + 1
  /\ pos' = pos + 1
  /\ UNCHANGED <<tokens, size, pc, wire>>

\* "%%": nothing is written after the "%".
kline_escape ==
  /\ Loop /\ At(pos) = "%" /\ At(pos + 1) = "%"
  /\ message' = [message EXCEPT ![len] = Lit("%")]
  /\ len' = len + 1
  /\ pos' = pos + 2
  /\ UNCHANGED <<tokens, size, pc, wire>>

\* The first NUL of the message, or its size if there is none.
strlen == Min({i \in 0..(MSGLENMAX - 1) : message[i] = NUL} \cup {MSGLENMAX})

\* Fault: what the message already holds does not count.
Fits_Alone(k) == size[k] <= MSGLENMAX - 1

\* "Check if the new string can fit!"
Fits(k) == size[k] + len <= MSGLENMAX - 1

\* Fault: as much of the data as there is room for.
strcat_Cut(k) ==
  /\ message' = [i \in DOMAIN message |->
                   IF i < strlen THEN message[i]
                   ELSE IF i < Min({len + size[k], MSGLENMAX - 3}) THEN <<"data", k>>
                   ELSE NUL]
  /\ UNCHANGED pc

\* strcat: the data goes to where the message ends.
strcat(k) ==
  IF strlen + size[k] < MSGLENMAX
  THEN /\ message' = [i \in DOMAIN message |->
                        IF i < strlen THEN message[i]
                        ELSE IF i < strlen + size[k] THEN <<"data", k>>
                        ELSE IF i = strlen + size[k] THEN NUL ELSE message[i]]
       /\ UNCHANGED pc
  ELSE pc' = "undefined" /\ UNCHANGED message

\* A key: its data, or nothing if it does not fit.
kline_key(k) ==
  /\ Loop /\ At(pos) = "%" /\ At(pos + 1) = k
  /\ IF Fits(k)
     THEN strcat(k) /\ len' = len + size[k]
     ELSE UNCHANGED <<message, len, pc>>
  /\ pos' = pos + 2
  /\ UNCHANGED <<tokens, size, wire>>

\* Fault: a character that is no key is not skipped.
kline_unknown_Stay ==
  /\ Loop /\ At(pos) = "%" /\ At(pos + 1) \notin Keys \cup {"%", "NUL"}
  /\ UNCHANGED vars

\* Not a key: nothing is written.
kline_unknown ==
  /\ Loop /\ At(pos) = "%" /\ At(pos + 1) \notin Keys \cup {"%", "NUL"}
  /\ pos' = pos + 2
  /\ UNCHANGED <<tokens, size, message, len, pc, wire>>

\* A "%" at the end: continue, with pos as it was.
kline_last_percent ==
  /\ Loop /\ At(pos) = "%" /\ At(pos + 1) = "NUL"
  /\ UNCHANGED vars

kline_done ==
  /\ pc = "loop"
  /\ At(pos) = "NUL" \/ len >= MSGLENMAX - 2
  /\ pc' = "send"
  /\ UNCHANGED <<tokens, size, message, pos, len, wire>>

\* snprintf with a limit of MSGLENMAX.
Cut(s) == SubSeq(s, 1, Min({Len(s), MSGLENMAX - 1}))

\* What irc_send makes of a message.
tosend(s) == Cut(Append(Cut(s), NL))

\* irc_send("%s", message).
irc_send ==
  /\ pc = "send"
  /\ IF strlen < MSGLENMAX
     THEN \/ /\ wire' = tosend([i \in 1..strlen |-> message[i - 1]])
             /\ pc' = "sent"
          \/ pc' = "lost" /\ UNCHANGED wire
     ELSE pc' = "undefined" /\ UNCHANGED wire
  /\ UNCHANGED <<tokens, size, message, pos, len>>

-----------------------------------------------------------------------------
\* Of what the stack holds only the first NUL (z) makes a difference.
Init ==
  /\ \E l \in 0..MaxTokens : \E t \in [1..l -> Tokens] :
       tokens \in {t} \cup (IF Trailing THEN {Append(t, <<"%">>)} ELSE {})
  /\ size \in [Keys -> DataSizes]
  /\ \E z \in 0..MSGLENMAX :
       message = [i \in 0..(MSGLENMAX - 1) |-> IF i < z THEN Junk ELSE NUL]
  /\ pos = 0 /\ len = 0
  /\ pc = "loop" /\ wire = <<>>

Round ==
  \/ kline_literal \/ kline_escape
  \/ \E k \in Keys : kline_key(k)
  \/ kline_unknown \/ kline_last_percent \/ kline_done

Next == Round \/ irc_send

Spec == Init /\ [][Next]_vars

\* The function runs.
FairSpec == Spec /\ WF_vars(Next)

-----------------------------------------------------------------------------
(* Properties *)

\* What a format means.
Meaning(t) ==
  IF Len(t) = 1 THEN (IF t[1] = "%" THEN <<>> ELSE <<Lit(t[1])>>)
  ELSE IF t[2] = "%" THEN <<Lit("%")>>
  ELSE IF t[2] \in Keys THEN Data(t[2])
  ELSE <<>>

Expansion == FlattenSeq([j \in DOMAIN tokens |-> Meaning(tokens[j])])

\* The message is terminated before token j: a literal has been copied, and no
\* "%%" since.
Terminated(j) ==
  \E l \in 1..(j - 1) : /\ Len(tokens[l]) = 1
                        /\ \A x \in (l + 1)..(j - 1) : tokens[x] # <<"%", "%">>

\* The formats the function can deal with.
Supported ==
  /\ \A j \in DOMAIN tokens : tokens[j] \in {<<"%", k>> : k \in Keys} => Terminated(j)
  /\ Terminated(Len(tokens) + 1)
  /\ <<"%">> \notin ToSet(tokens)

\* The loop has ended for want of room just after a "%%".
CutAtEscape ==
  /\ len = MSGLENMAX - 2
  /\ pos >= 2 /\ At(pos - 2) = "%" /\ At(pos - 1) = "%" /\ At(pos) # "NUL"

\* message is not overrun, for any data of any length, if the format begins with
\* a literal character and each "%%" is followed by one.  Its end is found,
\* unless there was no room left for the literal after a "%%".
InBuffer ==
  Supported => len < MSGLENMAX /\ (pc = "undefined" => CutAtEscape)

\* Every byte on the wire that is data is part of a whole.
DataWhole ==
  \A k \in Keys, i \in DOMAIN wire :
    wire[i] = <<"data", k>> =>
      \E from \in 1..i : /\ from + size[k] > i
                         /\ from + size[k] - 1 <= Len(wire)
                         /\ SubSeq(wire, from, from + size[k] - 1) = Data(k)

\* A KLINE that leaves room for the end of line is sent as the operator wrote
\* it, with what is known of the client in the places of the keys, on a line of
\* its own.  However long it gets, an address or host is in it as a whole or not
\* at all: a part of one would ban somebody else.
KlineIsExpansion ==
  Supported /\ pc = "sent" =>
    /\ Len(Expansion) <= MSGLENMAX - 2 => wire = Append(Expansion, NL)
    /\ DataWhole

\* The function comes to its end, whatever does not fit and whatever is no key,
\* for every format but those with a single "%" at their end.
KlineEnds == <<"%">> \notin ToSet(tokens) ~> pc \notin {"loop", "send"}
=============================================================================
