----------------------------- MODULE DnsblReply -----------------------------
(***************************************************************************)
(* dnsbl_positive (dnsbl.c): what the last octet of a blacklist's answer   *)
(* means, by the list of replies configured for it.  With type A_BITMASK   *)
(* the names of all matching entries are put together in a buffer of       *)
(* TEXTMAX bytes; with A_REPLY the first entry of that number is taken.  A *)
(* step is a round of the loop.                                            *)
(*                                                                         *)
(* The numbers of the configuration are kept in a char, which has a sign   *)
(* on some machines, while the octet is an unsigned char.                  *)
(***************************************************************************)
EXTENDS Integers, SequencesExt, FiniteSetsExt

CONSTANTS
  W,             \* bits of a char
  CharSigned,    \* whether char has a sign
  TEXTMAX,       \* sizeof(text_type)
  Numbers,       \* bound: numbers of the configuration
  NameLengths,   \* bound: lengths of names
  MaxReplies     \* bound: number of replies in the configuration

DnsblConfig ==
  /\ W \in Nat \ {0} /\ \A k \in 0..W : 2^k \in Nat \ {0}
  /\ TEXTMAX \in Nat /\ TEXTMAX > 4
  /\ CharSigned \in BOOLEAN
  /\ Numbers \subseteq 0..(2^W - 1) /\ NameLengths \subseteq Nat \ {0}
  /\ MaxReplies \in Nat

VARIABLES
  type,          \* bl->type
  ban_unknown,   \* bl->ban_unknown
  reply,         \* bl->reply: numbers as the operator wrote them, lengths of names
  octet,         \* the answer
  i,             \* the entry the loop is at
  text_type,
  pc             \* loop, decide; positive, unknown or undefined

conf == <<type, ban_unknown, reply, octet>>
vars == <<type, ban_unknown, reply, octet, i, text_type, pc>>

\* The name of an entry; a character is known by the entry it comes from.
Name(j)   == [k \in 1..reply[j].length |-> <<"name", j>>]
COMMA     == <<",", 0>>
Separator == <<COMMA, <<" ", 0>>>>

-----------------------------------------------------------------------------
\* The int an entry's number becomes in an expression.
number(j) ==
  IF CharSigned /\ reply[j].number >= 2^(W - 1)
  THEN reply[j].number - 2^W
  ELSE reply[j].number

Bits(x) == {b \in 0..(W - 1) : (x \div 2^b) % 2 = 1}

\* number & type; as type has W bits no others of number matter.
AnyBit(j) == Bits(number(j) % 2^W) \cap Bits(octet) # {}

Take(s, k) == SubSeq(s, 1, Min({Len(s), k}))

\* strncat(text, s, k): a k below 0 is a very large size_t.
strncat(text, s, k) == text \o (IF k < 0 THEN s ELSE Take(s, k))

\* Fault: strncat is given the size of the buffer, not what is left of it.
WithName_Whole(j) == strncat(text_type, Name(j), TEXTMAX - 2)

WithName(j) == strncat(text_type, Name(j), TEXTMAX - Len(text_type) - 2)

\* The text with ", " after it.
WithComma(text) ==
  LET cut == Take(text, TEXTMAX - 2)
  IN  Take(strncat(cut, Separator, TEXTMAX - Len(cut) - 1), TEXTMAX - 1)

\* *(strrchr(text_type, ',')) = '\0', if there is a text.
Closed(text) ==
  IF text = <<>> THEN text
  ELSE Take(text, Max({k \in DOMAIN text : text[k] = COMMA}) - 1)

-----------------------------------------------------------------------------
\* An entry of a bitmask that is in the answer, and one that is not.
bitmask_match ==
  /\ pc = "loop" /\ type = "A_BITMASK" /\ i <= Len(reply)
  /\ AnyBit(i)
  /\ IF Len(WithName(i)) < TEXTMAX
     THEN text_type' = WithComma(WithName(i)) /\ i' = i + 1 /\ UNCHANGED pc
     ELSE pc' = "undefined" /\ UNCHANGED <<text_type, i>>
  /\ UNCHANGED conf

bitmask_other ==
  /\ pc = "loop" /\ type = "A_BITMASK" /\ i <= Len(reply)
  /\ ~ AnyBit(i)
  /\ i' = i + 1
  /\ UNCHANGED <<conf, text_type, pc>>

bitmask_done ==
  /\ pc = "loop" /\ type = "A_BITMASK" /\ i > Len(reply)
  /\ text_type' = Closed(text_type)
  /\ pc' = "decide"
  /\ UNCHANGED <<conf, i>>

\* The entry of that number; strncpy does not terminate a name that fills the
\* buffer.
reply_match ==
  /\ pc = "loop" /\ type = "A_REPLY" /\ i <= Len(reply)
  /\ number(i) = octet
  /\ text_type' = Take(Name(i), TEXTMAX)
  /\ pc' = IF Len(Name(i)) < TEXTMAX THEN "decide" ELSE "undefined"
  /\ UNCHANGED <<conf, i>>

reply_other ==
  /\ pc = "loop" /\ type = "A_REPLY" /\ i <= Len(reply)
  /\ number(i) # octet
  /\ i' = i + 1
  /\ UNCHANGED <<conf, text_type, pc>>

reply_done ==
  /\ pc = "loop" /\ type = "A_REPLY" /\ i > Len(reply)
  /\ pc' = "decide"
  /\ UNCHANGED <<conf, i, text_type>>

\* Nothing is done about an unknown answer, unless ban_unknown; what is done
\* about the others is scan_positive (Scan).
decide ==
  /\ pc = "decide"
  /\ pc' = IF text_type = <<>> /\ ~ ban_unknown THEN "unknown" ELSE "positive"
  /\ UNCHANGED <<conf, i, text_type>>

-----------------------------------------------------------------------------
Replies ==
  UNION {[1..l -> [number : Numbers, length : NameLengths]] : l \in 0..MaxReplies}

Init ==
  /\ type \in {"A_BITMASK", "A_REPLY"} /\ ban_unknown \in BOOLEAN
  /\ reply \in Replies /\ octet \in 0..(2^W - 1)
  /\ i = 1 /\ text_type = <<>> /\ pc = "loop"

Next ==
  \/ bitmask_match \/ bitmask_other \/ bitmask_done
  \/ reply_match \/ reply_other \/ reply_done \/ decide

Spec == Init /\ [][Next]_vars

-----------------------------------------------------------------------------
(* Properties *)

\* The entries the answer stands for.
Means(j) ==
  IF type = "A_BITMASK" THEN Bits(reply[j].number) \cap Bits(octet) # {}
                        ELSE reply[j].number = octet
Meant == {j \in DOMAIN reply : Means(j)}

\* Their names in the order of the configuration, with ", " between them; and the
\* name of the first.
Listed ==
  FlattenSeq([j \in DOMAIN reply |-> IF Means(j) THEN Name(j) \o Separator ELSE <<>>])
Joined ==
  IF Meant = {} THEN <<>>
  ELSE IF type = "A_BITMASK" THEN SubSeq(Listed, 1, Len(Listed) - 2)
  ELSE Name(Min(Meant))

\* The numbers a char holds as they are.
Held ==
  type = "A_REPLY" /\ CharSigned => \A j \in DOMAIN reply : reply[j].number < 2^(W - 1)

Ended == pc \in {"positive", "unknown"}

\* The names of all but the last of the entries meant fit with their separators,
\* so that no limit given to strncat is below 0; a name taken for itself must fit.
Fits ==
  IF type = "A_BITMASK"
  THEN Meant # {} => Len(Joined) - reply[Max(Meant)].length <= TEXTMAX - 2
  ELSE Len(Joined) < TEXTMAX

\* The answer is what the configuration says it is: all the kinds whose bits are
\* in it, or the one whose number it is, and it counts as a positive if there is
\* any, or unknown answers are banned.  text_type is not overrun, however long
\* the last name is, which is cut if need be.
Decoded ==
  Held /\ Fits =>
    /\ pc # "undefined"
    /\ Ended => /\ text_type = IF type = "A_BITMASK" THEN Take(Joined, TEXTMAX - 2)
                                                    ELSE Joined
                /\ pc = "positive" <=> Meant # {} \/ ban_unknown

\* "a reply is simply where the last octet of the IP is that number" and "Kline
\* types not listed in the reply list below": an answer that is in the list is
\* never taken for an unknown one.
ListedIsKnown == Ended /\ Meant # {} => text_type # <<>>
=============================================================================
