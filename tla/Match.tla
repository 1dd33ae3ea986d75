------------------------------- MODULE Match --------------------------------
(***************************************************************************)
(* match (match.c): does a name match a mask in which '*' stands for any   *)
(* characters and '?' for any one?  scan_connect asks it of every mask of  *)
(* every scanner, scan_checkexempt of every exempt mask.  The function is  *)
(* a loop with one point to return to, just after the last '*' met, and it *)
(* gives up after MATCH_MAX_CALLS rounds.  A step is a round.              *)
(*                                                                         *)
(* A string is a sequence; position Len + 1 is its terminating NUL.  For   *)
(* an empty mask the code also reads the byte before it, and then makes no *)
(* use of it.                                                              *)
(***************************************************************************)
EXTENDS Integers, Sequences, FiniteSetsExt

CONSTANTS
  MaskChars,         \* the characters of masks; "*" and "?" are the wildcards
  NameChars,         \* the characters of names
  Upper, Lower,      \* an upper case letter and its lower case
  MATCH_MAX_CALLS,
  MaxMask, MaxName   \* bounds: longest mask and name

MatchConfig ==
  /\ MATCH_MAX_CALLS \in Nat \ {0}
  /\ MaxMask \in Nat /\ MaxName \in Nat
  /\ {"*", "?", "NUL"} \cap {Upper, Lower} = {}
  /\ "NUL" \notin MaskChars \cup NameChars

VARIABLES
  mask, name,   \* the arguments
  m, n,         \* where the comparison is
  ma, na,       \* where to take it up again when it fails
  wild,         \* there has been a '*'
  calls,        \* rounds begun
  ret           \* -1 in the loop, then what was returned

args == <<mask, name>>
vars == <<mask, name, m, n, ma, na, wild, calls, ret>>

\* *p for a pointer into a string.
At(s, i) == IF i = Len(s) + 1 THEN "NUL" ELSE s[i]

\* ToLower, for one pair of letters of ToLowerTab.
ToLower(c) == IF c = Upper THEN Lower ELSE c

-----------------------------------------------------------------------------
(* What a round makes of a '*' under m *)

\* while (*m == '*') m++
Skip(i) == Min({j \in i..(Len(mask) + 1) : At(mask, j) # "*"})

AtStar == At(mask, m) = "*"
m1    == Skip(m)
wild1 == wild \/ AtStar
ma1   == IF AtStar THEN m1 ELSE ma
na1   == IF AtStar THEN n ELSE na

\* Fault: the last '*' need not be followed by '?'s only.
TrailingStar_Any == \E i \in 2..Len(mask) : mask[i] = "*"

\* The mask ends in a '*', other than its first character, and '?'s.
TrailingStar ==
  \E i \in 2..Len(mask) : mask[i] = "*" /\ \A k \in (i + 1)..Len(mask) : mask[k] = "?"

-----------------------------------------------------------------------------
\* A round begins.
Round == ret = -1 /\ calls < MATCH_MAX_CALLS /\ calls' = calls + 1

Return(r) ==
  /\ ret' = r
  /\ m' = m1 /\ ma' = ma1 /\ na' = na1 /\ wild' = wild1
  /\ UNCHANGED <<args, n>>

\* m = ma; n = ++na;
Retry(from) == m' = ma1 /\ n' = from + 1 /\ na' = from + 1

Differ(i, j) ==
  ToLower(At(mask, i)) # ToLower(At(name, j)) /\ At(mask, i) # "?"

\* Fault: the terminating NULs are passed.
Advance_Past(i, j) == m' = i + 1 /\ n' = j + 1

\* Both characters are the same: move on, but not past the ends.
Advance(i, j) ==
  /\ m' = IF At(mask, i) = "NUL" THEN i ELSE i + 1
  /\ n' = IF At(name, j) = "NUL" THEN j ELSE j + 1

\* The second half of a round, on *i and *j, na having become k.
Compare(i, j, k) ==
  /\ IF Differ(i, j)
     THEN /\ wild1
          /\ Retry(k)
     ELSE /\ Advance(i, j)
          /\ na' = k
  /\ ma' = ma1 /\ wild' = wild1
  /\ UNCHANGED <<args, ret>>

\* Mask and name end together.
match_both_end ==
  /\ Round
  /\ At(mask, m1) = "NUL" /\ At(name, n) = "NUL"
  /\ Return(1)

\* The mask ends first: its trailing '*' takes the rest of the name.
match_rest ==
  /\ Round
  /\ At(mask, m1) = "NUL" /\ At(name, n) # "NUL"
  /\ TrailingStar
  /\ Return(1)

\* Or the rest cannot be matched.
match_name_longer ==
  /\ Round
  /\ At(mask, m1) = "NUL" /\ At(name, n) # "NUL"
  /\ ~ TrailingStar /\ ~ wild1
  /\ Return(0)

\* Or one character more is left to the last '*'; the round goes on with the
\* comparison and may leave it another.
match_retry ==
  /\ Round
  /\ At(mask, m1) = "NUL" /\ At(name, n) # "NUL"
  /\ ~ TrailingStar /\ wild1
  /\ Compare(ma1, na1 + 1, na1 + 1)

\* The name ends first.
match_mask_longer ==
  /\ Round
  /\ At(mask, m1) # "NUL" /\ At(name, n) = "NUL"
  /\ Return(IF At(mask, Skip(m1)) = "NUL" THEN 1 ELSE 0)

\* Neither has ended.
match_compare ==
  /\ Round
  /\ At(mask, m1) # "NUL" /\ At(name, n) # "NUL"
  /\ Compare(m1, n, na1)

\* They differ and there is no '*' to go back to.
match_differ ==
  /\ Round
  /\ At(mask, m1) # "NUL" /\ At(name, n) # "NUL"
  /\ Differ(m1, n) /\ ~ wild1
  /\ Return(0)

\* Too many rounds.
match_give_up ==
  /\ ret = -1 /\ calls >= MATCH_MAX_CALLS
  /\ calls' = calls + 1
  /\ ret' = 0
  /\ UNCHANGED <<args, m, n, ma, na, wild>>

-----------------------------------------------------------------------------
\* Strings of at most k of the characters in C.
Strings(C, k) == UNION {[1..l -> C] : l \in 0..k}

Init ==
  /\ mask \in Strings(MaskChars, MaxMask)
  /\ name \in Strings(NameChars, MaxName)
  /\ m = 1 /\ n = 1 /\ ma = 1 /\ na = 1
  /\ wild = FALSE /\ calls = 0 /\ ret = -1

Next ==
  \/ match_both_end \/ match_rest \/ match_name_longer \/ match_retry
  \/ match_mask_longer \/ match_compare \/ match_differ \/ match_give_up

Spec == Init /\ [][Next]_vars

-----------------------------------------------------------------------------
(* Properties *)

\* What a mask means: Reach[i] are the lengths of the prefixes of the name that
\* the first i characters of the mask match.
Glob ==
  LET Reach[i \in 0..Len(mask)] ==
        IF i = 0 THEN {0}
        ELSE IF mask[i] = "*"
             THEN {k \in 0..Len(name) : \E j \in Reach[i - 1] : j <= k}
             ELSE {k \in 1..Len(name) : /\ k - 1 \in Reach[i - 1]
                                        /\ \/ mask[i] = "?"
                                           \/ ToLower(mask[i]) = ToLower(name[k])}
  IN  Len(name) \in Reach[Len(mask)]

\* The pointers stay within the strings and their NULs, although a round may
\* move na on twice.
TypeOK ==
  /\ {m, ma} \subseteq 1..(Len(mask) + 1)
  /\ {n, na} \subseteq 1..(Len(name) + 1)
  /\ calls \in 0..(MATCH_MAX_CALLS + 1)
  /\ wild \in BOOLEAN /\ ret \in {-1, 0, 1}

\* The rounds a mask and a name may need: at each place in the name as many as
\* the mask has characters after the first '*', and one for the answer.
Rounds == Max({Len(mask) - 1, 1}) * Len(name) + 1

\* "return 1, if match; 0, if no match": unless it gives up, match has decided
\* whether the name matches the mask.  It gives up on no mask and name that
\* together are short enough, and then does not claim a match.
MatchIsGlob ==
  ret # -1 =>
    IF calls <= MATCH_MAX_CALLS
    THEN ret = 1 <=> Glob
    ELSE ret = 0 /\ Rounds > MATCH_MAX_CALLS
=============================================================================
