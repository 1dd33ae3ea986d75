--------------------------- MODULE RoutinesProofs ---------------------------
(***************************************************************************)
(* What holds of the routines for inputs of any length: that match stays   *)
(* within its strings and decides; that scan_irckline stays within its     *)
(* buffer and sends the line its format stands for; that dnsbl_positive    *)
(* takes an answer for what the configuration says; that irc_parse passes  *)
(* on what the line says; and of the lists, what ListProofs has.           *)
(***************************************************************************)
EXTENDS MCRoutines, SequenceTheorems, FiniteSetTheorems, NaturalsInduction, TLAPS

-----------------------------------------------------------------------------
(* Induction over the numbers, for sets: the library's form of it is for   *)
(* operators, which the provers cannot apply.                              *)

\* A set of natural numbers that has an element has a least one.
LEMMA LeastNat ==
  ASSUME NEW S \in SUBSET Nat, S # {}
  PROVE  \E a \in S : \A x \in S : a <= x
<1> DEFINE R == OpToRel(<, Nat)
<1>1. IsWellFoundedOn(R, Nat)
  BY NatLessThanWellFounded, Zenon
<1>2. ASSUME NEW y \in Nat, NEW x \in Nat, y < x
      PROVE  <<y, x>> \in R
  BY <1>2 DEF OpToRel
<1>. HIDE DEF R
<1>3. PICK x \in S : \A y \in S : ~ (<<y, x>> \in R)
  BY <1>1, WFMin
<1>4. ASSUME NEW y \in S
      PROVE  x <= y
  <2>1. x \in Nat /\ y \in Nat
    OBVIOUS
  <2>2. ~ (<<y, x>> \in R)
    BY <1>3
  <2>3. ~ (y < x)
    BY <1>2, <2>1, <2>2, Zenon
  <2>. QED
    BY <2>1, <2>3
<1>. QED
  BY <1>4

\* A set that holds 0, and with a number the one after it, holds them all.
LEMMA SetInduction ==
  ASSUME NEW S, 0 \in S, \A k \in Nat : k \in S => k + 1 \in S
  PROVE  Nat \subseteq S
<1>1. SUFFICES ASSUME Nat \ S # {}
               PROVE  FALSE
  OBVIOUS
<1>2. PICK a \in Nat \ S : \A x \in Nat \ S : a <= x
  BY <1>1, LeastNat
<1>3. a - 1 \in Nat /\ (a - 1) + 1 = a
  BY <1>2
<1>4. a - 1 \in S
  BY <1>2, <1>3
<1>. QED
  BY <1>2, <1>3, <1>4

-----------------------------------------------------------------------------
(* match *)

\* Strings are sequences, and hold no NUL.
Text == mask \in Seq(MaskChars) /\ name \in Seq(NameChars)

\* The comparison has gone as far in the mask as in the name since it was last
\* taken up, which was at the beginning or just after a '*'.
InStep ==
  /\ ma <= m /\ m - ma = n - na
  /\ IF wild THEN ma > 1 /\ mask[ma - 1] = "*" ELSE ma = 1

MatchInv == M!TypeOK /\ Text /\ InStep /\ (ret = -1 => calls <= MATCH_MAX_CALLS)

LEMMA TextFacts ==
  ASSUME Text
  PROVE  /\ Len(mask) \in Nat /\ Len(name) \in Nat
         /\ \A k \in 1..Len(mask) : M!At(mask, k) = mask[k] /\ mask[k] # "NUL"
         /\ \A k \in 1..Len(name) : M!At(name, k) = name[k] /\ name[k] # "NUL"
         /\ M!At(mask, Len(mask) + 1) = "NUL" /\ M!At(name, Len(name) + 1) = "NUL"
<1>1. /\ Len(mask) \in Nat /\ Len(name) \in Nat
      /\ \A k \in 1..Len(mask) : mask[k] \in MaskChars
      /\ \A k \in 1..Len(name) : name[k] \in NameChars
  BY LenProperties, ElementOfSeq DEF Text
<1>2. "NUL" \notin MaskChars /\ "NUL" \notin NameChars
  BY RoutinesConfig DEF M!MatchConfig
<1>. QED
  BY <1>1, <1>2 DEF M!At

\* Skip finds the first place that holds no '*'.
LEMMA SkipFacts ==
  ASSUME Text, NEW k \in 1..(Len(mask) + 1)
  PROVE  /\ M!Skip(k) \in k..(Len(mask) + 1) /\ M!At(mask, M!Skip(k)) # "*"
         /\ \A z \in k..(M!Skip(k) - 1) : mask[z] = "*"
         /\ M!At(mask, k) # "*" => M!Skip(k) = k
         /\ M!At(mask, k) = "*" => M!Skip(k) > k /\ mask[M!Skip(k) - 1] = "*"
<1> DEFINE S == {j \in k..(Len(mask) + 1) : M!At(mask, j) # "*"}
           p == M!Skip(k)
<1>1. /\ Len(mask) \in Nat
      /\ \A j \in 1..Len(mask) : M!At(mask, j) = mask[j]
      /\ M!At(mask, Len(mask) + 1) = "NUL"
  BY TextFacts
<1>2. S \in SUBSET Nat /\ Len(mask) + 1 \in S
  BY <1>1
<1>3. p = M!Min(S)
  BY DEF M!Skip
<1>. HIDE DEF S, p
<1>4. PICK x \in S : \A y \in S : x <= y
  BY <1>2, LeastNat
<1>5. p \in S /\ \A y \in S : p <= y
  <2>1. M!Min(S) = CHOOSE z \in S : \A y \in S : z <= y
    BY DEF M!Min
  <2>. QED
    BY <1>3, <1>4, <2>1
<1>6. p \in k..(Len(mask) + 1) /\ M!At(mask, p) # "*"
  BY <1>5 DEF S
<1>7. ASSUME M!At(mask, k) # "*"
      PROVE  p = k
  <2>1. k \in S
    BY <1>1, <1>7 DEF S
  <2>2. p <= k
    BY <1>5, <2>1
  <2>. QED
    BY <1>1, <1>6, <2>2
<1>8. ASSUME M!At(mask, k) = "*"
      PROVE  p > k /\ mask[p - 1] = "*"
  <2>1. p # k
    BY <1>6, <1>8
  <2>2. p > k /\ p - 1 \in k..(Len(mask) + 1) /\ p - 1 \in 1..Len(mask) /\ ~ (p <= p - 1)
    BY <1>1, <1>6, <2>1
  <2>3. p - 1 \notin S
    BY <1>5, <2>2
  <2>4. M!At(mask, p - 1) = "*"
    BY <2>2, <2>3 DEF S
  <2>. QED
    BY <1>1, <2>2, <2>4
<1>9. ASSUME NEW z \in k..(p - 1)
      PROVE  mask[z] = "*"
  <2>1. z \in k..(Len(mask) + 1) /\ z \in 1..Len(mask) /\ ~ (p <= z)
    BY <1>1, <1>6
  <2>2. z \notin S
    BY <1>5, <2>1
  <2>3. M!At(mask, z) = "*"
    BY <2>1, <2>2 DEF S
  <2>. QED
    BY <1>1, <2>1, <2>3
<1>. QED
  BY <1>6, <1>7, <1>8, <1>9 DEF p

\* After a round has skipped '*'s, the pointers are in step still.
LEMMA SkippedInStep ==
  ASSUME MatchInv
  PROVE  /\ M!m1 \in 1..(Len(mask) + 1) /\ M!ma1 \in 1..(Len(mask) + 1)
         /\ n \in 1..(Len(name) + 1) /\ M!na1 \in 1..(Len(name) + 1)
         /\ M!ma1 <= M!m1 /\ M!m1 - M!ma1 = n - M!na1
         /\ M!wild1 \in BOOLEAN
         /\ IF M!wild1 THEN M!ma1 > 1 /\ mask[M!ma1 - 1] = "*" ELSE M!ma1 = 1
<1>1. /\ m \in 1..(Len(mask) + 1) /\ ma \in 1..(Len(mask) + 1)
      /\ n \in 1..(Len(name) + 1) /\ na \in 1..(Len(name) + 1) /\ wild \in BOOLEAN
      /\ ma <= m /\ m - ma = n - na
      /\ IF wild THEN ma > 1 /\ mask[ma - 1] = "*" ELSE ma = 1
  BY DEF MatchInv, M!TypeOK, InStep
<1>2. /\ Len(mask) \in Nat /\ Len(name) \in Nat
      /\ M!m1 \in m..(Len(mask) + 1)
      /\ M!At(mask, m) # "*" => M!m1 = m
      /\ M!At(mask, m) = "*" => M!m1 > m /\ mask[M!m1 - 1] = "*"
  BY <1>1, TextFacts, SkipFacts DEF MatchInv, M!m1
<1>3. CASE M!At(mask, m) = "*"
  <2>1. M!ma1 = M!m1 /\ M!na1 = n /\ M!wild1 = TRUE
    BY <1>1, <1>3 DEF M!ma1, M!na1, M!wild1, M!AtStar
  <2>. QED
    BY <1>1, <1>2, <1>3, <2>1
<1>4. CASE M!At(mask, m) # "*"
  <2>1. M!ma1 = ma /\ M!na1 = na /\ M!wild1 = wild
    BY <1>1, <1>4 DEF M!ma1, M!na1, M!wild1, M!AtStar
  <2>. QED
    BY <1>1, <1>2, <1>4, <2>1
<1>. QED
  BY <1>3, <1>4

\* A round ends with pointers within the strings and in step.
LEMMA RoundStep ==
  ASSUME MatchInv, M!Round, UNCHANGED <<mask, name>>, ma' = M!ma1, wild' = M!wild1,
         m' \in 1..(Len(mask) + 1), n' \in 1..(Len(name) + 1), na' \in 1..(Len(name) + 1),
         ma' <= m', m' - ma' = n' - na', ret' \in {-1, 0, 1}
  PROVE  MatchInv'
<1>1. calls' \in 0..(MATCH_MAX_CALLS + 1) /\ calls' <= MATCH_MAX_CALLS
  <2>1. /\ MATCH_MAX_CALLS \in Nat
        /\ calls \in 0..(MATCH_MAX_CALLS + 1)
        /\ calls < MATCH_MAX_CALLS /\ calls' = calls + 1
    BY RoutinesConfig DEF MatchInv, M!TypeOK, M!Round, M!MatchConfig
  <2>. QED
    BY <2>1
<1>2. Text'
  BY DEF MatchInv, Text
<1>3. /\ M!ma1 \in 1..(Len(mask) + 1) /\ M!wild1 \in BOOLEAN
      /\ IF M!wild1 THEN M!ma1 > 1 /\ mask[M!ma1 - 1] = "*" ELSE M!ma1 = 1
  BY SkippedInStep
<1>4. InStep'
  BY <1>3 DEF InStep
<1>. QED
  BY <1>1, <1>2, <1>3, <1>4 DEF MatchInv, M!TypeOK

\* A return keeps the pointers where the round has put them.
LEMMA ReturnStep ==
  ASSUME MatchInv, M!Round, NEW r \in {0, 1}, M!Return(r)
  PROVE  MatchInv'
<1>1. /\ UNCHANGED <<mask, name>> /\ n' = n /\ ret' = r
      /\ m' = M!m1 /\ ma' = M!ma1 /\ na' = M!na1 /\ wild' = M!wild1
  BY DEF M!Return, M!args
<1>. QED
  BY <1>1, SkippedInStep, RoundStep

\* When neither string has ended, a comparison moves on in both, or goes back
\* in the mask and on in the name.
LEMMA CompareStep ==
  ASSUME MatchInv, M!match_compare
  PROVE  MatchInv'
<1>1. /\ M!m1 \in 1..(Len(mask) + 1) /\ M!ma1 \in 1..(Len(mask) + 1)
      /\ n \in 1..(Len(name) + 1) /\ M!na1 \in 1..(Len(name) + 1)
      /\ M!ma1 <= M!m1 /\ M!m1 - M!ma1 = n - M!na1
  BY SkippedInStep
<1>2. /\ Len(mask) \in Nat /\ Len(name) \in Nat
      /\ M!At(mask, Len(mask) + 1) = "NUL" /\ M!At(name, Len(name) + 1) = "NUL"
  BY TextFacts DEF MatchInv
<1>3. /\ M!Round /\ M!Compare(M!m1, n, M!na1)
      /\ M!At(mask, M!m1) # "NUL" /\ M!At(name, n) # "NUL"
  BY DEF M!match_compare
<1>4. M!m1 \in 1..Len(mask) /\ n \in 1..Len(name)
  BY <1>1, <1>2, <1>3
<1>5. ma' = M!ma1 /\ wild' = M!wild1 /\ UNCHANGED <<mask, name>> /\ ret' = ret
  BY <1>3 DEF M!Compare, M!args
<1>6. ret' \in {-1, 0, 1}
  BY <1>5 DEF MatchInv, M!TypeOK
<1>7. CASE M!Differ(M!m1, n)
  <2>1. m' = M!ma1 /\ n' = M!na1 + 1 /\ na' = M!na1 + 1
    BY <1>3, <1>7 DEF M!Compare, M!Retry
  <2>2. /\ m' \in 1..(Len(mask) + 1) /\ n' \in 1..(Len(name) + 1)
        /\ na' \in 1..(Len(name) + 1)
        /\ ma' <= m' /\ m' - ma' = n' - na'
    BY <1>1, <1>2, <1>4, <1>5, <2>1
  <2>. QED
    BY <1>3, <1>5, <1>6, <2>2, RoundStep
<1>8. CASE ~ M!Differ(M!m1, n)
  <2>1. m' = M!m1 + 1 /\ n' = n + 1 /\ na' = M!na1
    BY <1>3, <1>8 DEF M!Compare, M!Advance
  <2>2. /\ m' \in 1..(Len(mask) + 1) /\ n' \in 1..(Len(name) + 1)
        /\ na' \in 1..(Len(name) + 1)
        /\ ma' <= m' /\ m' - ma' = n' - na'
    BY <1>1, <1>2, <1>4, <1>5, <2>1
  <2>. QED
    BY <1>3, <1>5, <1>6, <2>2, RoundStep
<1>. QED
  BY <1>7, <1>8

\* When the mask has ended, na may be moved on twice.  If something follows the
\* last '*', the name has been compared with it, so that two places are left; if
\* nothing does, the mask is a lone '*', and the NULs are not taken to differ.
LEMMA RetryStep ==
  ASSUME MatchInv, M!match_retry
  PROVE  MatchInv'
<1>1. /\ M!m1 \in 1..(Len(mask) + 1) /\ M!ma1 \in 1..(Len(mask) + 1)
      /\ n \in 1..(Len(name) + 1) /\ M!na1 \in 1..(Len(name) + 1)
      /\ M!ma1 <= M!m1 /\ M!m1 - M!ma1 = n - M!na1
      /\ M!wild1 => M!ma1 > 1 /\ mask[M!ma1 - 1] = "*"
  BY SkippedInStep
<1>2. /\ Len(mask) \in Nat /\ Len(name) \in Nat
      /\ \A k \in 1..Len(mask) : M!At(mask, k) = mask[k] /\ mask[k] # "NUL"
      /\ \A k \in 1..Len(name) : M!At(name, k) = name[k] /\ name[k] # "NUL"
      /\ M!At(mask, Len(mask) + 1) = "NUL" /\ M!At(name, Len(name) + 1) = "NUL"
  BY TextFacts DEF MatchInv
<1>3. /\ M!Round /\ M!Compare(M!ma1, M!na1 + 1, M!na1 + 1)
      /\ M!At(mask, M!m1) = "NUL" /\ M!At(name, n) # "NUL"
      /\ ~ M!TrailingStar /\ M!wild1
  BY DEF M!match_retry
<1>4. M!m1 = Len(mask) + 1 /\ n \in 1..Len(name)
  <2>1. M!m1 \notin 1..Len(mask) /\ n # Len(name) + 1
    BY <1>2, <1>3
  <2>. QED
    BY <1>1, <1>2, <2>1
<1>5. ma' = M!ma1 /\ wild' = M!wild1 /\ UNCHANGED <<mask, name>> /\ ret' = ret
  BY <1>3 DEF M!Compare, M!args
<1>6. ret' \in {-1, 0, 1}
  BY <1>5 DEF MatchInv, M!TypeOK
<1>7. SUFFICES /\ m' \in 1..(Len(mask) + 1) /\ n' \in 1..(Len(name) + 1)
               /\ na' \in 1..(Len(name) + 1)
               /\ ma' <= m' /\ m' - ma' = n' - na'
  BY <1>3, <1>5, <1>6, RoundStep
<1>8. /\ M!Differ(M!ma1, M!na1 + 1) =>
           m' = M!ma1 /\ n' = M!na1 + 1 + 1 /\ na' = M!na1 + 1 + 1
      /\ ~ M!Differ(M!ma1, M!na1 + 1) =>
           /\ m' = IF M!At(mask, M!ma1) = "NUL" THEN M!ma1 ELSE M!ma1 + 1
           /\ n' = IF M!At(name, M!na1 + 1) = "NUL" THEN M!na1 + 1 ELSE M!na1 + 1 + 1
           /\ na' = M!na1 + 1
  BY <1>3 DEF M!Compare, M!Retry, M!Advance
<1>9. CASE M!ma1 \in 1..Len(mask)
  <2>1. M!na1 + 1 \in 1..Len(name)
    BY <1>1, <1>2, <1>4, <1>9
  <2>2. M!At(mask, M!ma1) # "NUL" /\ M!At(name, M!na1 + 1) # "NUL"
    BY <1>2, <1>9, <2>1
  <2>3. CASE M!Differ(M!ma1, M!na1 + 1)
    BY <1>1, <1>2, <1>5, <1>8, <2>1, <2>3
  <2>4. CASE ~ M!Differ(M!ma1, M!na1 + 1)
    BY <1>1, <1>2, <1>5, <1>8, <1>9, <2>1, <2>2, <2>4
  <2>. QED
    BY <2>3, <2>4
<1>10. CASE M!ma1 = Len(mask) + 1
  <2>1. Len(mask) \in 1..Len(mask) /\ mask[Len(mask)] = "*"
    BY <1>1, <1>2, <1>3, <1>10
  <2>2. Len(mask) = 1
    <3>1. Len(mask) \in Nat
      BY <1>2
    <3>2. \A k \in (Len(mask) + 1)..Len(mask) : mask[k] = "?"
      BY <3>1
    <3>3. Len(mask) \notin 2..Len(mask)
      BY <1>3, <2>1, <3>2 DEF M!TrailingStar
    <3> DEFINE l == Len(mask)
    <3>4. l \in Nat /\ l \in 1..l /\ l \notin 2..l
      BY <2>1, <3>1, <3>3
    <3>. HIDE DEF l
    <3>5. l = 1
      BY <3>4
    <3>. QED
      BY <3>5 DEF l
  <2>3. M!na1 = n /\ M!At(mask, M!ma1) = "NUL"
    BY <1>1, <1>2, <1>4, <1>10
  <2>4. CASE n + 1 \in 1..Len(name)
    <3>1. M!Differ(M!ma1, M!na1 + 1)
      <4>1. Lower # "NUL" /\ Upper # "NUL"
        BY RoutinesConfig DEF M!MatchConfig
      <4>2. M!At(name, n + 1) # "NUL"
        BY <1>2, <2>4
      <4>. QED
        BY <2>3, <4>1, <4>2 DEF M!Differ, M!ToLower
    <3>. QED
      BY <1>1, <1>2, <1>5, <1>8, <2>3, <2>4, <3>1
  <2>5. CASE n + 1 = Len(name) + 1
    <3>1. M!At(name, M!na1 + 1) = "NUL"
      BY <1>2, <2>3, <2>5
    <3>2. ~ M!Differ(M!ma1, M!na1 + 1)
      BY <2>3, <3>1 DEF M!Differ
    <3>. QED
      BY <1>1, <1>2, <1>5, <1>8, <2>3, <2>5, <3>1, <3>2
  <2>. QED
    BY <1>2, <1>4, <2>4, <2>5
<1>. QED
  BY <1>1, <1>2, <1>9, <1>10

LEMMA GiveUpStep ==
  ASSUME MatchInv, M!match_give_up
  PROVE  MatchInv'
<1>1. /\ MATCH_MAX_CALLS \in Nat /\ calls \in 0..(MATCH_MAX_CALLS + 1)
      /\ calls <= MATCH_MAX_CALLS /\ calls' = calls + 1 /\ ret' = 0
      /\ UNCHANGED <<mask, name, m, n, ma, na, wild>>
  BY RoutinesConfig DEF MatchInv, M!TypeOK, M!match_give_up, M!args, M!MatchConfig
<1>2. calls' \in 0..(MATCH_MAX_CALLS + 1)
  BY <1>1
<1>. QED
  BY <1>1, <1>2 DEF MatchInv, M!TypeOK, Text, InStep

LEMMA MatchNextStep ==
  ASSUME MatchInv, M!Next
  PROVE  MatchInv'
<1>1. CASE M!match_both_end \/ M!match_rest
  BY <1>1, ReturnStep DEF M!match_both_end, M!match_rest
<1>2. CASE M!match_name_longer \/ M!match_differ
  BY <1>2, ReturnStep DEF M!match_name_longer, M!match_differ
<1>3. CASE M!match_mask_longer
  BY <1>3, ReturnStep DEF M!match_mask_longer
<1>. QED
  BY <1>1, <1>2, <1>3, CompareStep, RetryStep, GiveUpStep DEF M!Next

\* A run of match begins with the invariant, and so does one of another routine.
LEMMA MatchInit ==
  ASSUME M!Init \/ NoMatch
  PROVE  MatchInv
<1>0. MATCH_MAX_CALLS \in Nat \ {0} /\ MaxMask \in Nat /\ MaxName \in Nat
  BY RoutinesConfig DEF M!MatchConfig
<1>1. Text
  <2>1. CASE M!Init
    <3>1. PICK k \in 0..MaxMask : mask \in [1..k -> MaskChars]
      BY <2>1 DEF M!Init, M!Strings
    <3>2. PICK j \in 0..MaxName : name \in [1..j -> NameChars]
      BY <2>1 DEF M!Init, M!Strings
    <3>3. k \in Nat /\ j \in Nat
      BY <1>0
    <3>. QED
      BY <3>1, <3>2, <3>3, SeqDef DEF Text
  <2>2. CASE NoMatch
    BY <2>2, EmptySeq DEF NoMatch, Text
  <2>. QED
    BY <2>1, <2>2
<1>2. Len(mask) \in Nat /\ Len(name) \in Nat
  BY <1>1, TextFacts
<1>3. /\ m = 1 /\ n = 1 /\ ma = 1 /\ na = 1 /\ wild = FALSE
      /\ calls \in {0, 1} /\ ret \in {-1, 1}
  BY DEF M!Init, NoMatch
<1>4. M!TypeOK
  <2>1. 1 \in 1..(Len(mask) + 1) /\ 1 \in 1..(Len(name) + 1)
    BY <1>2
  <2>2. {m, ma} \subseteq 1..(Len(mask) + 1) /\ {n, na} \subseteq 1..(Len(name) + 1)
    BY <1>3, <2>1
  <2>3. calls \in 0..(MATCH_MAX_CALLS + 1)
    BY <1>0, <1>3
  <2>. QED
    BY <1>3, <2>2, <2>3 DEF M!TypeOK
<1>5. InStep
  BY <1>3 DEF InStep
<1>6. calls <= MATCH_MAX_CALLS
  BY <1>0, <1>3
<1>. QED
  BY <1>1, <1>4, <1>5, <1>6 DEF MatchInv

LEMMA MatchAlways == Spec => []MatchInv
<1>1. Init => MatchInv
  BY MatchInit DEF Init
<1>2. ASSUME MatchInv, [Next]_vars
      PROVE  MatchInv'
  <2>1. CASE MatchNext
    BY <1>2, <2>1, MatchNextStep DEF MatchNext
  <2>2. ASSUME UNCHANGED matchVars
        PROVE  MatchInv'
    BY <1>2, <2>2 DEF MatchInv, M!TypeOK, Text, InStep, matchVars
  <2>. QED
    BY <1>2, <2>1, <2>2 DEF Next, ListNext, KlineNext, ReplyNext, ParseNext, vars
<1>. QED
  BY <1>1, <1>2, PTL DEF Spec

-----------------------------------------------------------------------------
(* match decides *)

\* Character x of the mask, no '*', matches character k of the name.
MatchesAt(x, k) == mask[x] = "?" \/ M!ToLower(mask[x]) = M!ToLower(name[k])

\* g says how the first b characters of the mask match the beginning of the
\* name: its first x characters match the first g[x] of the name.
Align(g, b) ==
  /\ g[0] = 0
  /\ \A x \in 1..b : /\ g[x] \in 0..Len(name)
                     /\ IF mask[x] = "*" THEN g[x - 1] <= g[x]
                        ELSE g[x] = g[x - 1] + 1 /\ MatchesAt(x, g[x])

Full(g) == Align(g, Len(mask)) /\ g[Len(mask)] = Len(name)

LEMMA AlignTyped ==
  ASSUME Text, NEW g, NEW b \in Nat, Align(g, b), NEW x \in 0..b
  PROVE  g[x] \in 0..Len(name) /\ Align(g, x)
<1>1. Len(name) \in Nat
  BY TextFacts
<1>2. g[0] = 0 /\ \A y \in 1..b : g[y] \in 0..Len(name)
  BY DEF Align
<1>3. g[x] \in 0..Len(name)
  <2>1. CASE x = 0
    BY <1>1, <1>2, <2>1
  <2>2. CASE x # 0
    <3>1. x \in 1..b
      BY <2>2
    <3>. QED
      BY <1>2, <3>1
  <2>. QED
    BY <2>1, <2>2
<1>4. \A y \in 1..x : y \in 1..b
  OBVIOUS
<1>. QED
  BY <1>3, <1>4 DEF Align

\* An alignment goes on with any value that fits the next character.
LEMMA AlignMore ==
  ASSUME Text, NEW g, NEW b \in Nat, Align(g, b), NEW v \in 0..Len(name),
         IF mask[b + 1] = "*" THEN g[b] <= v ELSE v = g[b] + 1 /\ MatchesAt(b + 1, v)
  PROVE  \E h : Align(h, b + 1) /\ h[b + 1] = v /\ \A x \in 0..b : h[x] = g[x]
<1> DEFINE h == [x \in 0..(b + 1) |-> IF x = b + 1 THEN v ELSE g[x]]
<1>1. h[b + 1] = v /\ \A x \in 0..b : h[x] = g[x]
  OBVIOUS
<1>. HIDE DEF h
<1>2. h[0] = 0
  BY <1>1 DEF Align
<1>3. ASSUME NEW x \in 1..(b + 1)
      PROVE  /\ h[x] \in 0..Len(name)
             /\ IF mask[x] = "*" THEN h[x - 1] <= h[x]
                ELSE h[x] = h[x - 1] + 1 /\ MatchesAt(x, h[x])
  <2>1. CASE x = b + 1
    <3>1. h[x - 1] = g[b]
      BY <1>1, <2>1
    <3>. QED
      BY <1>1, <2>1, <3>1
  <2>2. CASE x # b + 1
    <3>1. x \in 1..b /\ x - 1 \in 0..b /\ x \in 0..b
      BY <2>2
    <3>2. h[x] = g[x] /\ h[x - 1] = g[x - 1]
      BY <1>1, <3>1
    <3>. QED
      BY <3>1, <3>2 DEF Align
  <2>. QED
    BY <2>1, <2>2
<1>4. Align(h, b + 1)
  BY <1>2, <1>3 DEF Align
<1>. QED
  BY <1>1, <1>4

\* A mask matches a name if there is an alignment of one with the other.
LEMMA GlobIsAlignment ==
  ASSUME Text
  PROVE  M!Glob <=> \E g : Full(g)
<1> DEFINE Body(f) == [y \in 0..Len(mask) |->
             IF y = 0 THEN {0}
             ELSE IF mask[y] = "*"
                  THEN {k \in 0..Len(name) : \E j \in f[y - 1] : j <= k}
                  ELSE {k \in 1..Len(name) : /\ k - 1 \in f[y - 1]
                                             /\ \/ mask[y] = "?"
                                                \/ M!ToLower(mask[y]) = M!ToLower(name[k])}]
           Ends(y) == {k \in 0..Len(name) : \E g : Align(g, y) /\ g[y] = k}
           F == [y \in 0..Len(mask) |-> Ends(y)]
           Reach == CHOOSE f : f = Body(f)
<1>1. Len(mask) \in Nat /\ Len(name) \in Nat
  BY TextFacts
<1>2. ASSUME NEW y \in 0..Len(mask)
      PROVE  Ends(y) = Body(F)[y]
  <2>1. CASE y = 0
    <3> DEFINE g == [x \in 0..0 |-> 0]
    <3>1. g[0] = 0 /\ 1..0 = {}
      OBVIOUS
    <3>. HIDE DEF g
    <3>2. Align(g, 0)
      BY <3>1 DEF Align
    <3>3. 0 \in Ends(0)
      BY <1>1, <3>1, <3>2
    <3>4. \A k \in Ends(0) : k = 0
      BY DEF Align
    <3>5. Ends(0) = {0}
      <4>. HIDE DEF Ends
      <4>. QED
        BY <3>3, <3>4
    <3>. QED
      BY <1>1, <2>1, <3>5
  <2>2. CASE y # 0
    <3>1. y - 1 \in 0..Len(mask) /\ y - 1 \in Nat /\ (y - 1) + 1 = y /\ y \in 1..Len(mask)
      BY <1>1, <2>2
    <3>2. F[y - 1] = Ends(y - 1)
      BY <3>1
    <3>3. ASSUME NEW k \in 0..Len(name), NEW j \in Ends(y - 1),
                 IF mask[y] = "*" THEN j <= k ELSE k = j + 1 /\ MatchesAt(y, k)
          PROVE  k \in Ends(y)
      <4>1. PICK g : Align(g, y - 1) /\ g[y - 1] = j
        OBVIOUS
      <4>. HIDE DEF Ends
      <4> DEFINE b == y - 1
      <4>2. b \in Nat /\ b + 1 = y /\ Align(g, b) /\ g[b] = j
        BY <3>1, <4>1
      <4>. HIDE DEF b
      <4>3. IF mask[b + 1] = "*" THEN g[b] <= k ELSE k = g[b] + 1 /\ MatchesAt(b + 1, k)
        BY <3>3, <4>2
      <4>4. \E h : Align(h, b + 1) /\ h[b + 1] = k
        BY <4>2, <4>3, AlignMore
      <4>5. PICK h : Align(h, y) /\ h[y] = k
        BY <4>2, <4>4
      <4>. QED
        BY <4>5 DEF Ends
    <3>4. ASSUME NEW k \in Ends(y)
          PROVE  \E j \in Ends(y - 1) :
                   IF mask[y] = "*" THEN j <= k ELSE k = j + 1 /\ MatchesAt(y, k)
      <4>1. PICK g : Align(g, y) /\ g[y] = k
        OBVIOUS
      <4>2. y \in 1..y /\ y - 1 \in 0..y /\ y \in Nat
        BY <3>1
      <4>3. g[y - 1] \in 0..Len(name) /\ Align(g, y - 1)
        BY <4>1, <4>2, AlignTyped
      <4>4. g[y - 1] \in Ends(y - 1)
        BY <4>3
      <4>. HIDE DEF Ends
      <4>5. IF mask[y] = "*" THEN g[y - 1] <= k ELSE k = g[y - 1] + 1 /\ MatchesAt(y, k)
        BY <4>1, <4>2 DEF Align
      <4>. QED
        BY <4>4, <4>5
    <3>5. Ends(y) \subseteq 0..Len(name) /\ Ends(y - 1) \subseteq 0..Len(name)
      OBVIOUS
    <3>. HIDE DEF Ends
    <3>6. CASE mask[y] = "*"
      <4>1. Body(F)[y] = {k \in 0..Len(name) : \E j \in Ends(y - 1) : j <= k}
        BY <2>2, <3>2, <3>6
      <4>. QED
        BY <3>3, <3>4, <3>5, <3>6, <4>1
    <3>7. CASE mask[y] # "*"
      <4>1. Body(F)[y] = {k \in 1..Len(name) : k - 1 \in Ends(y - 1) /\ MatchesAt(y, k)}
        BY <2>2, <3>2, <3>7 DEF MatchesAt
      <4>2. ASSUME NEW k \in Ends(y)
            PROVE  k \in 1..Len(name) /\ k - 1 \in Ends(y - 1) /\ MatchesAt(y, k)
        <5>1. PICK j \in Ends(y - 1) : k = j + 1 /\ MatchesAt(y, k)
          BY <3>4, <3>7
        <5>2. j \in 0..Len(name) /\ k \in 0..Len(name)
          BY <3>5
        <5>3. k - 1 = j /\ k \in 1..Len(name)
          BY <1>1, <5>1, <5>2
        <5>. QED
          BY <5>1, <5>3
      <4>3. ASSUME NEW k \in 1..Len(name), k - 1 \in Ends(y - 1), MatchesAt(y, k)
            PROVE  k \in Ends(y)
        <5>1. k \in 0..Len(name) /\ k = (k - 1) + 1
          BY <1>1
        <5>. QED
          BY <3>3, <3>7, <4>3, <5>1
      <4>4. Ends(y) = {k \in 1..Len(name) : k - 1 \in Ends(y - 1) /\ MatchesAt(y, k)}
        BY <4>2, <4>3
      <4>. QED
        BY <4>1, <4>4
    <3>. QED
      BY <3>6, <3>7
  <2>. QED
    BY <2>1, <2>2
<1>3. \A y \in 0..Len(mask) : F[y] = Ends(y)
  OBVIOUS
<1>4. F = Body(F)
  BY <1>2
<1>5. M!Glob <=> Len(name) \in Reach[Len(mask)]
  BY DEF M!Glob
<1>6. Reach = Body(Reach)
  BY <1>4
<1>. HIDE DEF Reach
<1>7. ASSUME NEW f, NEW h, NEW y \in 0..Len(mask), y # 0 => f[y - 1] = h[y - 1]
      PROVE  Body(f)[y] = Body(h)[y]
  BY <1>7
<1>. HIDE DEF Body, F, Ends
<1> DEFINE S == {y \in Nat : y \in 0..Len(mask) => Reach[y] = F[y]}
<1>8. ASSUME NEW y \in 0..Len(mask), y # 0 => Reach[y - 1] = F[y - 1]
      PROVE  Reach[y] = F[y]
  <2>1. Reach[y] = Body(Reach)[y] /\ F[y] = Body(F)[y]
    BY ONLY <1>4, <1>6, Zenon
  <2>. QED
    BY <1>7, <1>8, <2>1
<1>9. 0 \in S
  BY <1>1, <1>8
<1>10. ASSUME NEW y \in Nat, y \in S
       PROVE  y + 1 \in S
  <2>1. (y + 1) - 1 = y /\ (y + 1 \in 0..Len(mask) => y \in 0..Len(mask))
    BY <1>1
  <2>. QED
    BY <1>8, <1>10, <2>1
<1>11. Len(mask) \in S
  <2>. HIDE DEF S
  <2>. QED
    BY <1>1, <1>9, <1>10, SetInduction
<1>12. Reach[Len(mask)] = Ends(Len(mask))
  BY <1>1, <1>3, <1>11
<1>. QED
  BY <1>1, <1>5, <1>12 DEF Ends, Full

\* Without a '*' the two sides of an alignment go on in step.
LEMMA Straight ==
  ASSUME Text, NEW g, NEW b \in Nat, Align(g, b), NEW x \in 0..b, NEW y \in x..b,
         \A z \in (x + 1)..y : mask[z] # "*"
  PROVE  g[y] = g[x] + (y - x)
<1> DEFINE S == {d \in Nat : x + d <= y => g[x + d] = g[x] + d}
<1>1. g[x] \in Int
  BY AlignTyped, TextFacts
<1>2. 0 \in S
  BY <1>1
<1>3. ASSUME NEW d \in Nat, d \in S
      PROVE  d + 1 \in S
  <2>1. SUFFICES ASSUME x + (d + 1) <= y
                 PROVE  g[x + (d + 1)] = g[x] + (d + 1)
    OBVIOUS
  <2>2. /\ x + (d + 1) \in 1..b /\ x + (d + 1) \in (x + 1)..y
        /\ (x + (d + 1)) - 1 = x + d /\ x + d <= y
    BY <2>1
  <2>3. g[x + (d + 1)] = g[x + d] + 1
    BY <2>2 DEF Align
  <2>4. g[x + d] = g[x] + d
    BY <1>3, <2>2
  <2>. QED
    BY <1>1, <2>3, <2>4
<1>4. Nat \subseteq S
  <2>. HIDE DEF S
  <2>. QED
    BY <1>2, <1>3, SetInduction
<1>5. y - x \in S /\ x + (y - x) = y /\ y <= y
  BY <1>4
<1>. QED
  BY <1>5

\* An alignment never goes back.
LEMMA Onward ==
  ASSUME Text, NEW g, NEW b \in Nat, Align(g, b), NEW x \in 0..b, NEW y \in x..b
  PROVE  g[x] <= g[y]
<1> DEFINE S == {d \in Nat : x + d <= y => g[x] <= g[x + d]}
<1>1. g[x] \in Int
  BY AlignTyped, TextFacts
<1>2. 0 \in S
  BY <1>1
<1>3. ASSUME NEW d \in Nat, d \in S
      PROVE  d + 1 \in S
  <2>1. SUFFICES ASSUME x + (d + 1) <= y
                 PROVE  g[x] <= g[x + (d + 1)]
    OBVIOUS
  <2>2. /\ x + (d + 1) \in 1..b /\ x + d \in 0..b
        /\ (x + (d + 1)) - 1 = x + d /\ x + d <= y
    BY <2>1
  <2>3. g[x + d] \in Int /\ g[x + (d + 1)] \in Int
    <3>1. x + (d + 1) \in 0..b
      BY <2>2
    <3>. QED
      BY <2>2, <3>1, AlignTyped, TextFacts
  <2>4. g[x + d] <= g[x + (d + 1)]
    <3>1. \/ g[x + d] <= g[x + (d + 1)]
          \/ g[x + (d + 1)] = g[x + d] + 1
      BY <2>2 DEF Align
    <3>. QED
      BY <2>3, <3>1
  <2>5. g[x] <= g[x + d]
    BY <1>3, <2>2
  <2>. QED
    BY <1>1, <2>3, <2>4, <2>5
<1>4. Nat \subseteq S
  <2>. HIDE DEF S
  <2>. QED
    BY <1>2, <1>3, SetInduction
<1>5. y - x \in S /\ x + (y - x) = y /\ y <= y
  BY <1>4
<1>. QED
  BY <1>5

\* '*'s take an alignment on to any place not before it.
LEMMA AlignStars ==
  ASSUME Text, NEW g, NEW b \in Nat, Align(g, b), NEW c \in Nat, b < c,
         NEW v \in 0..Len(name), g[b] <= v, \A z \in (b + 1)..c : mask[z] = "*"
  PROVE  \E h : Align(h, c) /\ h[c] = v
<1> DEFINE h == [x \in 0..c |-> IF x <= b THEN g[x] ELSE v]
<1>1. \A x \in 0..c : h[x] = IF x <= b THEN g[x] ELSE v
  OBVIOUS
<1>. HIDE DEF h
<1>2. h[0] = 0 /\ h[c] = v
  BY <1>1 DEF Align
<1>3. ASSUME NEW x \in 1..c
      PROVE  /\ h[x] \in 0..Len(name)
             /\ IF mask[x] = "*" THEN h[x - 1] <= h[x]
                ELSE h[x] = h[x - 1] + 1 /\ MatchesAt(x, h[x])
  <2>1. CASE x <= b
    <3>1. x \in 1..b /\ x - 1 \in 0..c /\ x \in 0..c /\ x - 1 <= b
      BY <2>1
    <3>2. h[x] = g[x] /\ h[x - 1] = g[x - 1]
      BY <1>1, <2>1, <3>1
    <3>. QED
      BY <3>1, <3>2 DEF Align
  <2>2. CASE x > b
    <3>1. mask[x] = "*" /\ x - 1 \in 0..c /\ x \in 0..c /\ ~ (x <= b)
      BY <2>2
    <3>2. h[x] = v
      BY <1>1, <3>1
    <3>3. h[x - 1] <= v
      <4>1. CASE x - 1 = b
        BY <1>1, <3>1, <4>1
      <4>2. CASE x - 1 # b
        <5>1. h[x - 1] = v
          BY <1>1, <2>2, <3>1, <4>2
        <5>. QED
          BY <5>1, TextFacts
      <4>. QED
        BY <4>1, <4>2
    <3>. QED
      BY <3>1, <3>2, <3>3
  <2>. QED
    BY <2>1, <2>2
<1>4. Align(h, c)
  BY <1>2, <1>3 DEF Align
<1>. QED
  BY <1>2, <1>4

\* What the mask has before mm matches the name before nn; it does so with the
\* part since aa, which has no '*', against the name since bb; and nothing is
\* missed by not taking this part to begin before bb.
Within(mm, nn, aa, bb) ==
  /\ mm \in 1..(Len(mask) + 1) /\ aa \in 1..(Len(mask) + 1)
  /\ nn \in 1..(Len(name) + 1) /\ bb \in 1..(Len(name) + 1)
  /\ aa <= mm /\ mm - aa = nn - bb

Begun(mm, nn, aa, bb, g) == Align(g, mm - 1) /\ g[mm - 1] = nn - 1 /\ g[aa - 1] = bb - 1

Progress(mm, nn, aa, bb) ==
  /\ \A x \in aa..(mm - 1) : mask[x] # "*"
  /\ \E g : Begun(mm, nn, aa, bb, g)
  /\ \A g : Full(g) => g[aa - 1] >= bb - 1

\* A full alignment that takes up the part since aa at bb is at nn with mm.
LEMMA FullStraight ==
  ASSUME Text, NEW mm, NEW nn, NEW aa, NEW bb, Within(mm, nn, aa, bb),
         Progress(mm, nn, aa, bb), NEW g, Full(g)
  PROVE  /\ g[mm - 1] = g[aa - 1] + (mm - aa)
         /\ g[mm - 1] >= nn - 1
         /\ g[aa - 1] \in 0..Len(name) /\ g[mm - 1] \in 0..Len(name)
<1>1. /\ Len(mask) \in Nat /\ Len(name) \in Nat
      /\ mm \in 1..(Len(mask) + 1) /\ aa \in 1..(Len(mask) + 1)
      /\ nn \in 1..(Len(name) + 1) /\ bb \in 1..(Len(name) + 1)
      /\ aa <= mm /\ mm - aa = nn - bb
  BY TextFacts DEF Within
<1>2. /\ aa - 1 \in 0..Len(mask) /\ mm - 1 \in 0..Len(mask) /\ mm - 1 \in (aa - 1)..Len(mask)
      /\ (aa - 1) + 1 = aa /\ (mm - 1) - (aa - 1) = mm - aa
  BY <1>1
<1>3. Align(g, Len(mask)) /\ g[aa - 1] >= bb - 1
  BY DEF Full, Progress
<1>4. \A z \in ((aa - 1) + 1)..(mm - 1) : mask[z] # "*"
  BY <1>2 DEF Progress
<1>5. g[mm - 1] = g[aa - 1] + ((mm - 1) - (aa - 1))
  BY <1>1, <1>2, <1>3, <1>4, Straight
<1>6. g[aa - 1] \in 0..Len(name) /\ g[mm - 1] \in 0..Len(name)
  BY <1>1, <1>2, <1>3, AlignTyped
<1>. QED
  BY <1>1, <1>2, <1>3, <1>5, <1>6

\* The comparison moves on.
LEMMA Advanced ==
  ASSUME Text, NEW mm, NEW nn, NEW aa, NEW bb, Within(mm, nn, aa, bb),
         Progress(mm, nn, aa, bb), mm \in 1..Len(mask), nn \in 1..Len(name),
         mask[mm] # "*", MatchesAt(mm, nn)
  PROVE  Progress(mm + 1, nn + 1, aa, bb)
<1>1. /\ Len(mask) \in Nat /\ Len(name) \in Nat /\ aa \in 1..(Len(mask) + 1)
      /\ bb \in 1..(Len(name) + 1) /\ aa <= mm /\ mm - aa = nn - bb
  BY TextFacts DEF Within
<1>2. \A x \in aa..((mm + 1) - 1) : mask[x] # "*"
  <2>1. \A x \in aa..((mm + 1) - 1) : x = mm \/ x \in aa..(mm - 1)
    BY <1>1
  <2>. QED
    BY <2>1 DEF Progress
<1>3. PICK g : Begun(mm, nn, aa, bb, g)
  BY DEF Progress
<1> DEFINE b == mm - 1
<1>4. /\ b \in Nat /\ b + 1 = mm /\ (mm + 1) - 1 = mm /\ (nn + 1) - 1 = nn
      /\ nn \in 0..Len(name) /\ aa - 1 \in 0..b
  BY <1>1
<1>5. Align(g, b) /\ g[b] = nn - 1 /\ g[aa - 1] = bb - 1
  BY <1>3 DEF Begun
<1>. HIDE DEF b
<1>6. nn = g[b] + 1 /\ mask[b + 1] # "*" /\ MatchesAt(b + 1, nn)
  BY <1>1, <1>4, <1>5
<1>7. \E h : Align(h, b + 1) /\ h[b + 1] = nn /\ \A x \in 0..b : h[x] = g[x]
  BY <1>4, <1>5, <1>6, AlignMore
<1>8. PICK h : Align(h, mm) /\ h[mm] = nn /\ \A x \in 0..b : h[x] = g[x]
  BY <1>4, <1>7
<1>9. Begun(mm + 1, nn + 1, aa, bb, h)
  BY <1>4, <1>5, <1>8 DEF Begun
<1>. QED
  BY <1>2, <1>9 DEF Progress

\* The last '*' takes one character more.
LEMMA Retried ==
  ASSUME Text, NEW mm, NEW nn, NEW aa, NEW bb, Within(mm, nn, aa, bb),
         Progress(mm, nn, aa, bb), aa > 1, mask[aa - 1] = "*", bb \in 1..Len(name),
         \A g : Full(g) => g[aa - 1] # bb - 1
  PROVE  Progress(aa, bb + 1, aa, bb + 1)
<1>1. /\ Len(mask) \in Nat /\ Len(name) \in Nat /\ aa \in 1..(Len(mask) + 1)
      /\ mm \in 1..(Len(mask) + 1) /\ aa <= mm
  BY TextFacts DEF Within
<1>2. \A x \in aa..(aa - 1) : mask[x] # "*"
  BY <1>1
<1>3. PICK g : Begun(mm, nn, aa, bb, g)
  BY DEF Progress
<1> DEFINE b == aa - 2
<1>4. /\ b \in Nat /\ b + 1 = aa - 1 /\ b < aa - 1 /\ aa - 1 \in Nat
      /\ b \in 0..(mm - 1) /\ aa - 1 \in b..(mm - 1) /\ mm - 1 \in Nat
      /\ bb \in 0..Len(name) /\ (bb + 1) - 1 = bb
  BY <1>1
<1>5. Align(g, mm - 1) /\ g[aa - 1] = bb - 1
  BY <1>3 DEF Begun
<1>. HIDE DEF b
<1>6. Align(g, b) /\ g[b] \in 0..Len(name) /\ g[b] <= g[aa - 1]
  BY <1>4, <1>5, AlignTyped, Onward
<1>7. g[b] <= bb
  BY <1>1, <1>5, <1>6
<1>8. \A z \in (b + 1)..(aa - 1) : mask[z] = "*"
  BY <1>4
<1>9. PICK h : Align(h, aa - 1) /\ h[aa - 1] = bb
  BY <1>4, <1>6, <1>7, <1>8, AlignStars
<1>10. Begun(aa, bb + 1, aa, bb + 1, h)
  BY <1>4, <1>9 DEF Begun
<1>11. ASSUME NEW f, Full(f)
       PROVE  f[aa - 1] >= (bb + 1) - 1
  <2>1. f[aa - 1] >= bb - 1 /\ f[aa - 1] # bb - 1 /\ f[aa - 1] \in 0..Len(name)
    BY <1>11, FullStraight DEF Progress
  <2>. QED
    BY <1>1, <2>1
<1>. QED
  BY <1>2, <1>10, <1>11 DEF Progress

\* Characters that differ rule out what is being compared, and so does the end
\* of the mask before that of the name.
LEMMA Refuted ==
  ASSUME Text, NEW mm, NEW nn, NEW aa, NEW bb, Within(mm, nn, aa, bb),
         Progress(mm, nn, aa, bb), nn \in 1..Len(name),
         mm = Len(mask) + 1 \/ (mm \in 1..Len(mask) /\ mask[mm] # "*" /\ ~ MatchesAt(mm, nn)),
         NEW g, Full(g)
  PROVE  g[aa - 1] # bb - 1
<1>1. SUFFICES ASSUME g[aa - 1] = bb - 1
               PROVE  FALSE
  OBVIOUS
<1>2. /\ Len(mask) \in Nat /\ Len(name) \in Nat /\ aa \in 1..(Len(mask) + 1)
      /\ bb \in 1..(Len(name) + 1) /\ aa <= mm /\ mm - aa = nn - bb
      /\ mm \in 1..(Len(mask) + 1)
  BY TextFacts DEF Within
<1>3. g[mm - 1] = nn - 1
  <2>1. g[mm - 1] = g[aa - 1] + (mm - aa)
    BY FullStraight
  <2>2. nn \in Int /\ (bb - 1) + (mm - aa) = nn - 1
    BY <1>2
  <2>. QED
    BY <1>1, <2>1, <2>2
<1>4. Align(g, Len(mask)) /\ g[Len(mask)] = Len(name)
  BY DEF Full
<1>5. CASE mm = Len(mask) + 1
  <2>1. mm - 1 = Len(mask)
    BY <1>2, <1>5
  <2>. QED
    BY <1>2, <1>3, <1>4, <2>1
<1>6. CASE mm \in 1..Len(mask) /\ mask[mm] # "*" /\ ~ MatchesAt(mm, nn)
  <2>1. g[mm] = g[mm - 1] + 1 /\ MatchesAt(mm, g[mm])
    BY <1>4, <1>6 DEF Align
  <2>2. g[mm] = nn
    BY <1>2, <1>3, <2>1
  <2>. QED
    BY <1>6, <2>1, <2>2
<1>. QED
  BY <1>5, <1>6

\* With the name at its end, what is left of the mask cannot match.
LEMMA NameShort ==
  ASSUME Text, NEW mm, NEW nn, NEW aa, NEW bb, Within(mm, nn, aa, bb),
         Progress(mm, nn, aa, bb), nn = Len(name) + 1, mm \in 1..Len(mask), mask[mm] # "*"
  PROVE  ~ \E g : Full(g)
<1>1. SUFFICES ASSUME NEW g, Full(g)
               PROVE  FALSE
  OBVIOUS
<1>2. Len(name) \in Nat
  BY TextFacts
<1>3. g[mm - 1] >= Len(name) /\ g[mm - 1] \in 0..Len(name)
  BY <1>1, <1>2, FullStraight
<1>4. g[mm] = g[mm - 1] + 1 /\ g[mm] \in 0..Len(name)
  BY <1>1 DEF Full, Align
<1>. QED
  BY <1>2, <1>3, <1>4

\* With the mask at its end, a trailing '*' takes the rest of the name.
LEMMA RestTaken ==
  ASSUME Text, NEW nn, NEW aa, NEW bb, nn \in 1..(Len(name) + 1),
         Progress(Len(mask) + 1, nn, aa, bb), M!TrailingStar
  PROVE  \E g : Full(g)
<1> DEFINE l == Len(mask)
           d == Len(name) - (nn - 1)
<1>1. l \in Nat /\ Len(name) \in Nat /\ (l + 1) - 1 = l /\ d \in Nat
  BY TextFacts
<1>2. PICK s \in 2..l : mask[s] = "*" /\ \A k \in (s + 1)..l : mask[k] = "?"
  BY DEF M!TrailingStar
<1>3. PICK g : Begun(l + 1, nn, aa, bb, g)
  BY DEF Progress
<1>4. Align(g, l) /\ g[l] = nn - 1
  BY <1>1, <1>3 DEF Begun
<1> DEFINE h == [x \in 0..l |-> IF x < s THEN g[x] ELSE g[x] + d]
<1>5. \A x \in 0..l : h[x] = IF x < s THEN g[x] ELSE g[x] + d
  OBVIOUS
<1>6. g[l] + d = Len(name)
  BY <1>1, <1>4
<1>. HIDE DEF h, l, d
<1>7. h[0] = 0 /\ h[l] = Len(name)
  <2>1. 0 \in 0..l /\ 0 < s /\ l \in 0..l /\ ~ (l < s)
    BY <1>1
  <2>2. h[0] = g[0] /\ h[l] = g[l] + d
    BY <1>5, <2>1
  <2>3. g[0] = 0
    BY <1>4 DEF Align
  <2>. QED
    BY <1>6, <2>2, <2>3
<1>8. ASSUME NEW x \in 1..l
      PROVE  /\ h[x] \in 0..Len(name)
             /\ IF mask[x] = "*" THEN h[x - 1] <= h[x]
                ELSE h[x] = h[x - 1] + 1 /\ MatchesAt(x, h[x])
  <2>1. /\ x \in 0..l /\ x - 1 \in 0..l /\ l \in x..l /\ l \in 0..l
    BY <1>1
  <2>2. /\ g[x] \in 0..Len(name) /\ g[x - 1] \in 0..Len(name) /\ g[l] \in 0..Len(name)
        /\ g[x] <= g[l]
    BY <1>1, <1>4, <2>1, AlignTyped, Onward
  <2>3. IF mask[x] = "*" THEN g[x - 1] <= g[x]
        ELSE g[x] = g[x - 1] + 1 /\ MatchesAt(x, g[x])
    BY <1>4 DEF Align
  <2>4. CASE x < s
    <3>1. h[x] = g[x] /\ h[x - 1] = g[x - 1]
      BY <1>5, <2>1, <2>4
    <3>2. g[x] \in 0..Len(name)
      BY <2>2
    <3>. QED
      BY ONLY <2>3, <3>1, <3>2, Zenon
  <2>5. CASE x = s
    <3>1. h[x] = g[x] + d /\ h[x - 1] = g[x - 1]
      BY <1>5, <2>1, <2>5
    <3>2. g[x - 1] <= g[x]
      BY <1>2, <2>3, <2>5
    <3>3. h[x] \in 0..Len(name) /\ h[x - 1] <= h[x]
      <4> DEFINE y == g[x]
                 z == g[l]
                 w == g[x - 1]
                 e == Len(name)
      <4>1. y \in Int /\ 0 <= y /\ z \in Int /\ y <= z /\ w \in Int
        BY <2>2
      <4>2. w <= y /\ d \in Nat /\ e \in Int /\ z + d = e
        BY <1>1, <1>6, <3>2
      <4>. HIDE DEF y, z, w, e
      <4>3. y + d \in 0..e /\ w <= y + d
        BY ONLY <4>1, <4>2
      <4>. QED
        BY <3>1, <4>3 DEF y, w, e
    <3>. QED
      BY <1>2, <2>5, <3>3
  <2>6. CASE x > s
    <3>1. h[x] = g[x] + d /\ h[x - 1] = g[x - 1] + d
      BY <1>5, <2>1, <2>6
    <3>2. x \in (s + 1)..l
      BY <2>6
    <3>3. mask[x] = "?" /\ mask[x] # "*"
      BY <1>2, <3>2
    <3>4. MatchesAt(x, h[x])
      BY <3>3 DEF MatchesAt
    <3>5. g[x] = g[x - 1] + 1
      BY <2>3, <3>3
    <3>6. h[x] \in 0..Len(name)
      <4>1. g[x] \in Int /\ 0 <= g[x] /\ g[l] \in Int /\ g[x] <= g[l]
        BY <2>2
      <4> DEFINE y == g[x]
                 z == g[l]
                 e == Len(name)
      <4>2. y \in Int /\ 0 <= y /\ z \in Int /\ y <= z /\ d \in Nat /\ e \in Int
            /\ z + d = e
        BY <1>1, <1>6, <4>1
      <4>. HIDE DEF y, z, e
      <4>3. y + d \in 0..e
        BY ONLY <4>2
      <4>. QED
        BY <3>1, <4>3 DEF y, e
    <3>7. h[x] = h[x - 1] + 1
      <4>1. (g[x - 1] + 1) + d = (g[x - 1] + d) + 1
        BY <1>1, <2>2
      <4>. QED
        BY <3>1, <3>5, <4>1
    <3>. QED
      BY <3>3, <3>4, <3>6, <3>7
  <2>. QED
    BY <1>2, <2>4, <2>5, <2>6
<1>9. Align(h, l)
  BY <1>7, <1>8 DEF Align
<1>. QED
  BY <1>7, <1>9 DEF Full, l

\* What the round skips of the mask takes nothing of the name, and the places to
\* take up the comparison again stay right.
LEMMA SkippedProgress ==
  ASSUME MatchInv, Progress(m, n, ma, na), wild => M!At(mask, ma) # "*"
  PROVE  /\ Within(M!m1, n, M!ma1, M!na1) /\ Progress(M!m1, n, M!ma1, M!na1)
         /\ M!At(mask, M!m1) # "*"
         /\ M!wild1 => M!At(mask, M!ma1) # "*"
<1>0. Text /\ Len(mask) \in Nat /\ Len(name) \in Nat
  BY TextFacts DEF MatchInv
<1>1. /\ m \in 1..(Len(mask) + 1) /\ ma \in 1..(Len(mask) + 1)
      /\ n \in 1..(Len(name) + 1) /\ na \in 1..(Len(name) + 1)
      /\ ma <= m /\ m - ma = n - na /\ wild \in BOOLEAN
  BY DEF MatchInv, M!TypeOK, InStep
<1>2. Within(m, n, ma, na)
  BY <1>1 DEF Within
<1>3. Within(M!m1, n, M!ma1, M!na1)
  BY SkippedInStep DEF Within
<1>4. /\ M!m1 \in m..(Len(mask) + 1) /\ M!At(mask, M!m1) # "*"
      /\ M!At(mask, m) # "*" => M!m1 = m
      /\ M!At(mask, m) = "*" => M!m1 > m
      /\ \A z \in m..(M!m1 - 1) : mask[z] = "*"
  BY <1>0, <1>1, SkipFacts DEF M!m1
<1>5. CASE M!At(mask, m) # "*"
  <2>1. M!m1 = m /\ M!ma1 = ma /\ M!na1 = na /\ M!wild1 = wild
    BY <1>1, <1>4, <1>5 DEF M!ma1, M!na1, M!wild1, M!AtStar
  <2>. QED
    BY <1>3, <1>4, <2>1
<1>6. CASE M!At(mask, m) = "*"
  <2>1. M!ma1 = M!m1 /\ M!na1 = n
    BY <1>6 DEF M!ma1, M!na1, M!AtStar
  <2> DEFINE b == m - 1
             c == M!m1 - 1
  <2>2. /\ b \in Nat /\ c \in Nat /\ b < c /\ b + 1 = m /\ n - 1 \in 0..Len(name)
        /\ b \in 0..Len(mask) /\ c \in b..Len(mask)
    BY <1>0, <1>1, <1>4, <1>6
  <2>3. \A z \in (b + 1)..c : mask[z] = "*"
    BY <1>4, <2>2
  <2>4. PICK g : Begun(m, n, ma, na, g)
    BY DEF Progress
  <2>5. Align(g, b) /\ g[b] = n - 1 /\ g[b] <= n - 1
    BY <1>1, <2>4 DEF Begun
  <2>6. \A x \in M!m1..c : mask[x] # "*"
    BY <1>0, <1>4
  <2>. HIDE DEF b
  <2>7. ASSUME NEW f, Full(f)
        PROVE  f[c] >= n - 1
    <3>1. f[b] >= n - 1 /\ f[b] \in 0..Len(name)
      BY <1>0, <1>2, <2>7, FullStraight DEF b
    <3>. HIDE DEF c
    <3>2. Align(f, Len(mask))
      BY <2>7 DEF Full
    <3>3. f[b] <= f[c]
      BY <1>0, <2>2, <3>2, Onward
    <3>4. c \in 0..Len(mask)
      BY <1>0, <2>2
    <3>5. f[c] \in 0..Len(name)
      BY <1>0, <3>2, <3>4, AlignTyped
    <3>. QED
      BY <1>0, <1>1, <3>1, <3>3, <3>5
  <2>. HIDE DEF c
  <2>8. PICK h : Align(h, c) /\ h[c] = n - 1
    BY <1>0, <2>2, <2>3, <2>5, AlignStars
  <2>9. Begun(M!m1, n, M!m1, n, h)
    BY <2>8 DEF Begun, c
  <2>10. Progress(M!m1, n, M!m1, n)
    BY <2>6, <2>7, <2>9 DEF Progress, c
  <2>. QED
    BY <1>3, <1>4, <2>1, <2>10
<1>. QED
  BY <1>5, <1>6

\* The rounds one place in the name may take.
PerPlace == M!Max({Len(mask) - 1, 1})

LEMMA PerPlaceIs ==
  ASSUME Text
  PROVE  PerPlace \in Nat /\ PerPlace >= 1 /\ PerPlace >= Len(mask) - 1
<1> DEFINE S == {Len(mask) - 1, 1}
<1>1. Len(mask) \in Nat
  BY TextFacts
<1>2. PerPlace = CHOOSE x \in S : \A y \in S : x >= y
  BY DEF PerPlace, M!Max
<1>3. \E x \in S : \A y \in S : x >= y
  <2>1. CASE Len(mask) - 1 >= 1
    BY <1>1, <2>1
  <2>2. CASE ~ (Len(mask) - 1 >= 1)
    BY <1>1, <2>2
  <2>. QED
    BY <2>1, <2>2
<1>4. PerPlace \in S /\ \A y \in S : PerPlace >= y
  BY <1>2, <1>3
<1>. QED
  BY <1>1, <1>4

\* The rounds there have been at most when the comparison is at mm, having been
\* taken up at aa and bb.
Spent(mm, aa, bb) == PerPlace * (bb - 1) + (mm - aa)

LEMMA Times ==
  ASSUME NEW q \in Nat, NEW x \in Nat, NEW y \in Nat, q >= 1
  PROVE  /\ q * x \in Nat /\ q * (x + 1) = q * x + q /\ q * (x + 2) = q * x + q + q
         /\ q * x + y <= q * (x + y)
<1>1. q * x \in Nat /\ q * y \in Nat
  OBVIOUS
<1>2. q * (x + 1) = q * x + q /\ q * (x + 2) = q * x + q + q /\ q * (x + y) = q * x + q * y
  OBVIOUS
<1>3. y <= q * y
  <2>1. q - 1 \in Nat
    OBVIOUS
  <2>2. (q - 1) * y \in Nat
    BY <2>1
  <2>3. (q - 1) * y = q * y - y
    OBVIOUS
  <2>. QED
    BY <1>1, <2>2, <2>3
<1>. QED
  BY <1>1, <1>2, <1>3

\* A '*' leaves at least as many rounds to be spent.
LEMMA SkippedSpent ==
  ASSUME MatchInv, calls <= Spent(m, ma, na)
  PROVE  calls <= Spent(M!m1, M!ma1, M!na1)
<1>0. Text /\ Len(mask) \in Nat /\ Len(name) \in Nat /\ calls \in Nat
  <2>1. MATCH_MAX_CALLS \in Nat /\ calls \in 0..(MATCH_MAX_CALLS + 1)
    BY RoutinesConfig DEF MatchInv, M!TypeOK, M!MatchConfig
  <2>. QED
    BY <2>1, TextFacts DEF MatchInv
<1>1. /\ m \in 1..(Len(mask) + 1) /\ ma \in 1..(Len(mask) + 1)
      /\ n \in 1..(Len(name) + 1) /\ na \in 1..(Len(name) + 1)
      /\ ma <= m /\ m - ma = n - na /\ wild \in BOOLEAN
  BY DEF MatchInv, M!TypeOK, InStep
<1>2. PerPlace \in Nat /\ PerPlace >= 1
  BY <1>0, PerPlaceIs
<1>3. CASE M!At(mask, m) # "*"
  <2>1. M!m1 = m
    BY <1>0, <1>1, <1>3, SkipFacts DEF M!m1
  <2>2. M!ma1 = ma /\ M!na1 = na
    BY <1>3 DEF M!ma1, M!na1, M!AtStar
  <2>. QED
    BY <2>1, <2>2
<1>4. CASE M!At(mask, m) = "*"
  <2>1. M!ma1 = M!m1 /\ M!na1 = n /\ M!m1 \in Int
    BY <1>4, SkippedInStep DEF M!ma1, M!na1, M!AtStar
  <2>2. na - 1 \in Nat /\ m - ma \in Nat /\ (na - 1) + (m - ma) = n - 1
    BY <1>1
  <2>3. PerPlace * (na - 1) + (m - ma) <= PerPlace * (n - 1)
    BY <1>2, <2>2, Times
  <2>4. PerPlace * (na - 1) \in Nat /\ PerPlace * (n - 1) \in Nat
    <3>1. n - 1 \in Nat
      BY <1>1
    <3>. QED
      BY <1>2, <2>2, <3>1, Times
  <2>5. Spent(M!m1, M!ma1, M!na1) = PerPlace * (n - 1)
    BY <2>1, <2>4 DEF Spent
  <2>. QED
    BY <1>0, <2>2, <2>3, <2>4, <2>5 DEF Spent
<1>. QED
  BY <1>3, <1>4

\* The comparison goes on from where it has found out nothing yet, or what was
\* returned is the truth.
Undecided ==
  /\ Progress(m, n, ma, na)
  /\ wild => M!At(mask, ma) # "*"
  /\ calls <= Spent(m, ma, na)

Decided ==
  IF calls <= MATCH_MAX_CALLS THEN ret = 1 <=> \E g : Full(g)
                              ELSE ret = 0 /\ M!Rounds > MATCH_MAX_CALLS

GlobInv == MatchInv /\ IF ret = -1 THEN Undecided ELSE Decided

LEMMA ReturnDecides ==
  ASSUME GlobInv, M!Round, NEW r \in {0, 1}, M!Return(r), r = 1 <=> \E g : Full(g)
  PROVE  GlobInv'
<1>1. MatchInv'
  BY ReturnStep DEF GlobInv
<1>2. calls' <= MATCH_MAX_CALLS
  <2>1. /\ MATCH_MAX_CALLS \in Nat /\ calls \in 0..(MATCH_MAX_CALLS + 1)
        /\ calls < MATCH_MAX_CALLS /\ calls' = calls + 1
    BY RoutinesConfig DEF GlobInv, MatchInv, M!TypeOK, M!Round, M!MatchConfig
  <2>. QED
    BY <2>1
<1>3. ret' = r /\ ret' # -1 /\ mask' = mask /\ name' = name
  BY DEF M!Return, M!args
<1>4. (\E g : Full(g))' <=> \E g : Full(g)
  BY <1>3 DEF Full, Align, MatchesAt, M!ToLower
<1>5. Decided'
  BY <1>2, <1>3, <1>4 DEF Decided
<1>. QED
  BY <1>1, <1>3, <1>5 DEF GlobInv

LEMMA GoesOn ==
  ASSUME GlobInv, M!Round, MatchInv', mask' = mask, name' = name, ret' = ret,
         Progress(m', n', ma', na'), wild' => M!At(mask, ma') # "*",
         calls' <= Spent(m', ma', na')
  PROVE  GlobInv'
<1>1. Progress(m, n, ma, na)'
  BY DEF Progress, Begun, Full, Align, MatchesAt, M!ToLower
<1>2. (wild => M!At(mask, ma) # "*")'
  BY DEF M!At
<1>3. (calls <= Spent(m, ma, na))'
  BY DEF Spent, PerPlace
<1>4. ret' = -1
  BY DEF M!Round
<1>. QED
  BY <1>1, <1>2, <1>3, <1>4 DEF GlobInv, Undecided

\* What a round finds after skipping '*'s.
LEMMA RoundFinds ==
  ASSUME GlobInv, M!Round
  PROVE  /\ MatchInv /\ Text /\ Undecided
         /\ Len(mask) \in Nat /\ Len(name) \in Nat /\ calls \in Nat /\ calls' = calls + 1
         /\ Within(M!m1, n, M!ma1, M!na1) /\ Progress(M!m1, n, M!ma1, M!na1)
         /\ M!At(mask, M!m1) # "*"
         /\ M!wild1 \in BOOLEAN
         /\ IF M!wild1
            THEN M!ma1 > 1 /\ mask[M!ma1 - 1] = "*" /\ M!At(mask, M!ma1) # "*"
            ELSE M!ma1 = 1
         /\ calls <= Spent(M!m1, M!ma1, M!na1)
         /\ M!m1 = Len(mask) + 1 <=> M!At(mask, M!m1) = "NUL"
         /\ n = Len(name) + 1 <=> M!At(name, n) = "NUL"
<1>1. MatchInv /\ Undecided
  BY DEF GlobInv, M!Round
<1>2. Text /\ Len(mask) \in Nat /\ Len(name) \in Nat
  BY <1>1, TextFacts DEF MatchInv
<1>3. calls \in Nat /\ calls' = calls + 1
  <2>1. MATCH_MAX_CALLS \in Nat /\ calls \in 0..(MATCH_MAX_CALLS + 1)
    BY <1>1, RoutinesConfig DEF MatchInv, M!TypeOK, M!MatchConfig
  <2>. QED
    BY <2>1 DEF M!Round
<1>4. /\ Within(M!m1, n, M!ma1, M!na1) /\ Progress(M!m1, n, M!ma1, M!na1)
      /\ M!At(mask, M!m1) # "*"
      /\ M!wild1 => M!At(mask, M!ma1) # "*"
  BY <1>1, SkippedProgress DEF Undecided
<1>5. /\ M!wild1 \in BOOLEAN
      /\ IF M!wild1 THEN M!ma1 > 1 /\ mask[M!ma1 - 1] = "*" ELSE M!ma1 = 1
  BY <1>1, SkippedInStep
<1>6. calls <= Spent(M!m1, M!ma1, M!na1)
  BY <1>1, SkippedSpent DEF Undecided
<1>7. M!m1 \in 1..(Len(mask) + 1) /\ n \in 1..(Len(name) + 1)
  BY <1>4 DEF Within
<1>8. M!m1 = Len(mask) + 1 <=> M!At(mask, M!m1) = "NUL"
  BY <1>2, <1>7, TextFacts
<1>9. n = Len(name) + 1 <=> M!At(name, n) = "NUL"
  BY <1>2, <1>7, TextFacts
<1>. QED
  BY <1>1, <1>2, <1>3, <1>4, <1>5, <1>6, <1>8, <1>9

LEMMA BothEndDecides ==
  ASSUME GlobInv, M!match_both_end
  PROVE  GlobInv'
<1>1. M!Round /\ M!At(mask, M!m1) = "NUL" /\ M!At(name, n) = "NUL" /\ M!Return(1)
  BY DEF M!match_both_end
<1>2. /\ Len(mask) \in Nat /\ Len(name) \in Nat
      /\ Progress(M!m1, n, M!ma1, M!na1)
      /\ M!m1 = Len(mask) + 1 /\ n = Len(name) + 1
  BY <1>1, RoundFinds
<1>3. PICK g : Begun(M!m1, n, M!ma1, M!na1, g)
  BY <1>2 DEF Progress
<1>4. M!m1 - 1 = Len(mask) /\ n - 1 = Len(name)
  BY <1>2
<1>5. Full(g)
  BY <1>3, <1>4 DEF Begun, Full
<1>. QED
  BY <1>1, <1>5, ReturnDecides

LEMMA RestDecides ==
  ASSUME GlobInv, M!match_rest
  PROVE  GlobInv'
<1>1. M!Round /\ M!At(mask, M!m1) = "NUL" /\ M!TrailingStar /\ M!Return(1)
  BY DEF M!match_rest
<1>2. /\ Text /\ Progress(M!m1, n, M!ma1, M!na1) /\ Within(M!m1, n, M!ma1, M!na1)
      /\ M!m1 = Len(mask) + 1
  BY <1>1, RoundFinds
<1>3. n \in 1..(Len(name) + 1) /\ Progress(Len(mask) + 1, n, M!ma1, M!na1)
  BY <1>2 DEF Within
<1>4. \E g : Full(g)
  BY <1>1, <1>2, <1>3, RestTaken
<1>. QED
  BY <1>1, <1>4, ReturnDecides

\* Without a '*' there is one way to compare, and it has failed.
LEMMA NoOtherWay ==
  ASSUME GlobInv, M!Round, ~ M!wild1, \A g : Full(g) => g[M!ma1 - 1] # M!na1 - 1
  PROVE  ~ \E g : Full(g)
<1>1. SUFFICES ASSUME NEW g, Full(g)
               PROVE  FALSE
  OBVIOUS
<1>2. M!ma1 = 1 /\ Progress(M!m1, n, M!ma1, M!na1)
  BY RoundFinds
<1>3. PICK h : Begun(M!m1, n, M!ma1, M!na1, h)
  BY <1>2 DEF Progress
<1>4. h[0] = M!na1 - 1 /\ h[0] = 0 /\ g[0] = 0
  BY <1>1, <1>2, <1>3 DEF Begun, Align, Full
<1>. QED
  BY <1>1, <1>2, <1>4

LEMMA NameLongerDecides ==
  ASSUME GlobInv, M!match_name_longer
  PROVE  GlobInv'
<1>1. /\ M!Round /\ M!At(mask, M!m1) = "NUL" /\ M!At(name, n) # "NUL"
      /\ ~ M!wild1 /\ M!Return(0)
  BY DEF M!match_name_longer
<1>2. /\ Text /\ Progress(M!m1, n, M!ma1, M!na1) /\ Within(M!m1, n, M!ma1, M!na1)
      /\ M!m1 = Len(mask) + 1 /\ n # Len(name) + 1 /\ Len(name) \in Nat
  BY <1>1, RoundFinds
<1>3. n \in 1..Len(name)
  BY <1>2 DEF Within
<1>4. \A g : Full(g) => g[M!ma1 - 1] # M!na1 - 1
  BY <1>2, <1>3, Refuted
<1>5. ~ \E g : Full(g)
  BY <1>1, <1>4, NoOtherWay
<1>. QED
  BY <1>1, <1>5, ReturnDecides

\* Differ, on characters of the strings.
LEMMA DifferIs ==
  ASSUME Text, NEW x \in 1..Len(mask), NEW k \in 1..Len(name)
  PROVE  M!Differ(x, k) <=> ~ MatchesAt(x, k)
<1>1. M!At(mask, x) = mask[x] /\ M!At(name, k) = name[k]
  BY TextFacts
<1>. QED
  BY <1>1 DEF M!Differ, MatchesAt

LEMMA DifferDecides ==
  ASSUME GlobInv, M!match_differ
  PROVE  GlobInv'
<1>1. /\ M!Round /\ M!At(mask, M!m1) # "NUL" /\ M!At(name, n) # "NUL"
      /\ M!Differ(M!m1, n) /\ ~ M!wild1 /\ M!Return(0)
  BY DEF M!match_differ
<1>2. /\ Text /\ Progress(M!m1, n, M!ma1, M!na1) /\ Within(M!m1, n, M!ma1, M!na1)
      /\ M!m1 # Len(mask) + 1 /\ n # Len(name) + 1 /\ Len(name) \in Nat /\ Len(mask) \in Nat
      /\ M!At(mask, M!m1) # "*"
  BY <1>1, RoundFinds
<1>3. n \in 1..Len(name) /\ M!m1 \in 1..Len(mask)
  BY <1>2 DEF Within
<1>4. mask[M!m1] # "*" /\ ~ MatchesAt(M!m1, n)
  BY <1>1, <1>2, <1>3, TextFacts, DifferIs
<1>5. \A g : Full(g) => g[M!ma1 - 1] # M!na1 - 1
  BY <1>2, <1>3, <1>4, Refuted
<1>6. ~ \E g : Full(g)
  BY <1>1, <1>5, NoOtherWay
<1>. QED
  BY <1>1, <1>6, ReturnDecides

LEMMA MaskLongerDecides ==
  ASSUME GlobInv, M!match_mask_longer
  PROVE  GlobInv'
<1>1. /\ M!Round /\ M!At(mask, M!m1) # "NUL" /\ M!At(name, n) = "NUL"
      /\ M!Return(IF M!At(mask, M!Skip(M!m1)) = "NUL" THEN 1 ELSE 0)
  BY DEF M!match_mask_longer
<1>2. /\ Text /\ Progress(M!m1, n, M!ma1, M!na1) /\ Within(M!m1, n, M!ma1, M!na1)
      /\ M!m1 # Len(mask) + 1 /\ n = Len(name) + 1 /\ Len(mask) \in Nat
      /\ M!At(mask, M!m1) # "*"
  BY <1>1, RoundFinds
<1>3. M!m1 \in 1..Len(mask) /\ M!m1 \in 1..(Len(mask) + 1)
  BY <1>2 DEF Within
<1>4. mask[M!m1] # "*"
  BY <1>2, <1>3, TextFacts
<1>5. M!Skip(M!m1) = M!m1
  BY <1>2, <1>3, SkipFacts
<1>6. M!Return(0)
  BY <1>1, <1>5
<1>7. ~ \E g : Full(g)
  BY <1>2, <1>3, <1>4, NameShort
<1>. QED
  BY <1>1, <1>6, <1>7, ReturnDecides

LEMMA CompareGoesOn ==
  ASSUME GlobInv, M!match_compare
  PROVE  GlobInv'
<1>1. /\ M!Round /\ M!At(mask, M!m1) # "NUL" /\ M!At(name, n) # "NUL"
      /\ M!Compare(M!m1, n, M!na1)
  BY DEF M!match_compare
<1>2. /\ MatchInv /\ Text /\ Progress(M!m1, n, M!ma1, M!na1) /\ Within(M!m1, n, M!ma1, M!na1)
      /\ M!m1 # Len(mask) + 1 /\ n # Len(name) + 1 /\ Len(name) \in Nat /\ Len(mask) \in Nat
      /\ M!At(mask, M!m1) # "*" /\ M!wild1 \in BOOLEAN
      /\ IF M!wild1
         THEN M!ma1 > 1 /\ mask[M!ma1 - 1] = "*" /\ M!At(mask, M!ma1) # "*"
         ELSE M!ma1 = 1
      /\ calls \in Nat /\ calls' = calls + 1 /\ calls <= Spent(M!m1, M!ma1, M!na1)
  BY <1>1, RoundFinds
<1>3. /\ n \in 1..Len(name) /\ M!m1 \in 1..Len(mask)
      /\ M!ma1 \in 1..(Len(mask) + 1) /\ M!na1 \in 1..(Len(name) + 1)
      /\ M!ma1 <= M!m1 /\ M!m1 - M!ma1 = n - M!na1
  BY <1>2 DEF Within
<1>4. mask[M!m1] # "*"
  BY <1>2, <1>3, TextFacts
<1>5. MatchInv'
  BY <1>2, CompareStep
<1>6. /\ ma' = M!ma1 /\ wild' = M!wild1 /\ mask' = mask /\ name' = name /\ ret' = ret
      /\ wild' => M!At(mask, ma') # "*"
  BY <1>1, <1>2 DEF M!Compare, M!args
<1>7. PerPlace \in Nat /\ PerPlace >= 1 /\ PerPlace >= Len(mask) - 1
  BY <1>2, PerPlaceIs
<1>8. M!na1 - 1 \in Nat /\ (M!na1 - 1) + 1 = M!na1 /\ (M!na1 + 1) - 1 = M!na1
  BY <1>2, <1>3
<1>9. /\ PerPlace * (M!na1 - 1) \in Nat
      /\ PerPlace * M!na1 = PerPlace * (M!na1 - 1) + PerPlace
  BY <1>7, <1>8, Times
<1>10. CASE M!Differ(M!m1, n)
  <2>1. m' = M!ma1 /\ n' = M!na1 + 1 /\ na' = M!na1 + 1 /\ M!wild1
    BY <1>1, <1>10 DEF M!Compare, M!Retry
  <2>2. ~ MatchesAt(M!m1, n)
    BY <1>2, <1>3, <1>10, DifferIs
  <2>3. \A g : Full(g) => g[M!ma1 - 1] # M!na1 - 1
    BY <1>2, <1>3, <1>4, <2>2, Refuted
  <2>4. M!na1 \in 1..Len(name) /\ M!ma1 > 1 /\ mask[M!ma1 - 1] = "*"
    BY <1>2, <1>3, <2>1
  <2>5. Progress(M!ma1, M!na1 + 1, M!ma1, M!na1 + 1)
    BY <1>2, <2>3, <2>4, Retried
  <2>6. calls' <= Spent(m', ma', na')
    <3>1. Spent(m', ma', na') = PerPlace * M!na1
      <4>1. M!ma1 - M!ma1 = 0 /\ PerPlace * M!na1 + 0 = PerPlace * M!na1
        BY <1>3, <1>7, <1>9
      <4>. QED
        BY <1>6, <1>8, <2>1, <4>1 DEF Spent
    <3>2. calls <= PerPlace * (M!na1 - 1) + (M!m1 - M!ma1)
      BY <1>2 DEF Spent
    <3>3. (M!m1 - M!ma1) + 1 <= PerPlace
      BY <1>2, <1>3, <1>7, <2>4
    <3> DEFINE p == PerPlace * (M!na1 - 1)
               e == M!m1 - M!ma1
    <3>4. calls <= p + e /\ e + 1 <= PerPlace /\ PerPlace * M!na1 = p + PerPlace
          /\ p \in Nat /\ e \in Int
      BY <1>3, <1>9, <3>2, <3>3
    <3>. HIDE DEF p, e
    <3>5. calls + 1 <= p + PerPlace
      BY <1>2, <1>7, <3>4
    <3>. QED
      BY <1>2, <3>1, <3>4, <3>5
  <2>. QED
    BY <1>1, <1>5, <1>6, <2>1, <2>5, <2>6, GoesOn
<1>11. CASE ~ M!Differ(M!m1, n)
  <2>1. m' = M!m1 + 1 /\ n' = n + 1 /\ na' = M!na1
    BY <1>1, <1>11 DEF M!Compare, M!Advance
  <2>2. MatchesAt(M!m1, n)
    BY <1>2, <1>3, <1>11, DifferIs
  <2>3. Progress(M!m1 + 1, n + 1, M!ma1, M!na1)
    BY <1>2, <1>3, <1>4, <2>2, Advanced
  <2>4. calls' <= Spent(m', ma', na')
    <3> DEFINE p == PerPlace * (M!na1 - 1)
    <3>1. p \in Nat /\ calls <= p + (M!m1 - M!ma1)
      BY <1>2, <1>9 DEF Spent
    <3>2. Spent(m', ma', na') = p + ((M!m1 + 1) - M!ma1)
      BY <1>6, <2>1 DEF Spent
    <3>. HIDE DEF p
    <3>3. calls + 1 <= p + ((M!m1 + 1) - M!ma1)
      BY <1>2, <1>3, <3>1
    <3>. QED
      BY <1>2, <3>2, <3>3
  <2>. QED
    BY <1>1, <1>5, <1>6, <2>1, <2>3, <2>4, GoesOn
<1>. QED
  BY <1>10, <1>11

LEMMA RetryGoesOn ==
  ASSUME GlobInv, M!match_retry
  PROVE  GlobInv'
<1> DEFINE aa == M!ma1
           bb == M!na1
           p == PerPlace * (bb - 1)
<1>1. /\ M!Round /\ M!At(mask, M!m1) = "NUL" /\ M!At(name, n) # "NUL"
      /\ M!wild1 /\ M!Compare(aa, bb + 1, bb + 1)
  BY DEF M!match_retry
<1>2. /\ MatchInv /\ Text /\ Progress(M!m1, n, aa, bb) /\ Within(M!m1, n, aa, bb)
      /\ M!m1 = Len(mask) + 1 /\ n # Len(name) + 1 /\ Len(name) \in Nat /\ Len(mask) \in Nat
      /\ aa > 1 /\ mask[aa - 1] = "*" /\ M!At(mask, aa) # "*"
      /\ calls \in Nat /\ calls' = calls + 1 /\ calls <= Spent(M!m1, aa, bb)
  BY <1>1, RoundFinds
<1>3. /\ n \in 1..Len(name) /\ aa \in 2..(Len(mask) + 1)
      /\ bb \in 1..Len(name) /\ (Len(mask) + 1) - aa = n - bb
  BY <1>2 DEF Within
<1>4. MatchInv'
  BY <1>2, RetryStep
<1>5. /\ ma' = aa /\ mask' = mask /\ name' = name /\ ret' = ret
      /\ wild' => M!At(mask, ma') # "*"
  BY <1>1, <1>2 DEF M!Compare, M!args
<1>6. /\ M!Differ(aa, bb + 1) => m' = aa /\ n' = (bb + 1) + 1 /\ na' = (bb + 1) + 1
      /\ ~ M!Differ(aa, bb + 1) =>
           /\ m' = IF M!At(mask, aa) = "NUL" THEN aa ELSE aa + 1
           /\ n' = IF M!At(name, bb + 1) = "NUL" THEN bb + 1 ELSE (bb + 1) + 1
           /\ na' = bb + 1
  BY <1>1 DEF M!Compare, M!Retry, M!Advance
<1>7. PerPlace \in Nat /\ PerPlace >= 1 /\ PerPlace >= Len(mask) - 1
  BY <1>2, PerPlaceIs
<1>8. /\ p \in Nat /\ PerPlace * bb = p + PerPlace /\ PerPlace * (bb + 1) = p + PerPlace + PerPlace
      /\ calls <= p + ((Len(mask) + 1) - aa)
  <2>1. bb - 1 \in Nat /\ (bb - 1) + 1 = bb /\ (bb - 1) + 2 = bb + 1
    BY <1>3
  <2>2. /\ PerPlace * (bb - 1) \in Nat
        /\ PerPlace * ((bb - 1) + 1) = PerPlace * (bb - 1) + PerPlace
        /\ PerPlace * ((bb - 1) + 2) = PerPlace * (bb - 1) + PerPlace + PerPlace
    BY <1>7, <2>1, Times
  <2>. QED
    BY <1>2, <2>1, <2>2 DEF Spent
<1>9. Progress(aa, bb + 1, aa, bb + 1)
  <2>1. \A g : Full(g) => g[aa - 1] # bb - 1
    BY <1>2, <1>3, Refuted
  <2>. QED
    BY <1>2, <1>3, <2>1, Retried
<1>. HIDE DEF aa, bb, p
<1>10. Within(aa, bb + 1, aa, bb + 1)
  BY <1>2, <1>3 DEF Within
<1>11. ASSUME m' = aa, n' = (bb + 1) + 1, na' = (bb + 1) + 1, bb + 1 \in 1..Len(name),
              aa = Len(mask) + 1 \/ (aa \in 1..Len(mask) /\ ~ MatchesAt(aa, bb + 1))
       PROVE  GlobInv'
  <2>1. aa \in 1..Len(mask) => mask[aa] # "*"
    BY <1>2, TextFacts
  <2>2. \A g : Full(g) => g[aa - 1] # (bb + 1) - 1
    BY <1>2, <1>9, <1>10, <1>11, <2>1, Refuted
  <2>3. Progress(aa, (bb + 1) + 1, aa, (bb + 1) + 1)
    BY <1>2, <1>9, <1>10, <1>11, <2>2, Retried
  <2>4. calls' <= Spent(m', ma', na')
    <3>1. aa - aa = 0 /\ ((bb + 1) + 1) - 1 = bb + 1
      BY <1>3
    <3>2. Spent(m', ma', na') = (p + PerPlace + PerPlace) + 0
      BY <1>5, <1>8, <1>11, <3>1 DEF Spent
    <3>3. calls + 1 <= (p + PerPlace + PerPlace) + 0
      BY <1>2, <1>3, <1>7, <1>8
    <3>. QED
      BY <1>2, <3>2, <3>3
  <2>. QED
    BY <1>1, <1>4, <1>5, <1>11, <2>3, <2>4, GoesOn
<1>12. CASE aa \in 1..Len(mask)
  <2>1. bb + 1 \in 1..Len(name)
    BY <1>2, <1>3, <1>12
  <2>2. /\ M!At(mask, aa) = mask[aa] /\ M!At(mask, aa) # "NUL" /\ M!At(name, bb + 1) # "NUL"
        /\ mask[aa] # "*"
    BY <1>2, <1>12, <2>1, TextFacts
  <2>3. CASE M!Differ(aa, bb + 1)
    BY <1>2, <1>6, <1>11, <1>12, <2>1, <2>3, DifferIs
  <2>4. CASE ~ M!Differ(aa, bb + 1)
    <3>1. m' = aa + 1 /\ n' = (bb + 1) + 1 /\ na' = bb + 1
      BY <1>6, <2>2, <2>4
    <3>2. MatchesAt(aa, bb + 1)
      BY <1>2, <1>12, <2>1, <2>4, DifferIs
    <3>3. Progress(aa + 1, (bb + 1) + 1, aa, bb + 1)
      BY <1>2, <1>9, <1>10, <1>12, <2>1, <2>2, <3>2, Advanced
    <3>4. calls' <= Spent(m', ma', na')
      <4>1. (aa + 1) - aa = 1 /\ (bb + 1) - 1 = bb
        BY <1>3
      <4>2. Spent(m', ma', na') = (p + PerPlace) + 1
        BY <1>5, <1>8, <3>1, <4>1 DEF Spent
      <4>3. calls + 1 <= (p + PerPlace) + 1
        BY <1>2, <1>3, <1>7, <1>8
      <4>. QED
        BY <1>2, <4>2, <4>3
    <3>. QED
      BY <1>1, <1>4, <1>5, <3>1, <3>3, <3>4, GoesOn
  <2>. QED
    BY <2>3, <2>4
<1>13. CASE aa = Len(mask) + 1
  <2>1. M!At(mask, aa) = "NUL" /\ bb = n
    BY <1>2, <1>3, <1>13, TextFacts
  <2>2. CASE bb + 1 \in 1..Len(name)
    <3>1. M!Differ(aa, bb + 1)
      <4>1. Lower # "NUL" /\ Upper # "NUL"
        BY RoutinesConfig DEF M!MatchConfig
      <4>2. M!At(name, bb + 1) # "NUL"
        BY <1>2, <2>2, TextFacts
      <4>. QED
        BY <2>1, <4>1, <4>2 DEF M!Differ, M!ToLower
    <3>. QED
      BY <1>6, <1>11, <1>13, <2>2, <3>1
  <2>3. CASE bb + 1 = Len(name) + 1
    <3>1. M!At(name, bb + 1) = "NUL"
      BY <1>2, <2>3, TextFacts
    <3>2. m' = aa /\ n' = bb + 1 /\ na' = bb + 1
      BY <1>6, <2>1, <3>1 DEF M!Differ
    <3>3. calls' <= Spent(m', ma', na')
      <4>1. aa - aa = 0 /\ (bb + 1) - 1 = bb
        BY <1>3
      <4>2. Spent(m', ma', na') = (p + PerPlace) + 0
        BY <1>5, <1>8, <3>2, <4>1 DEF Spent
      <4>3. calls + 1 <= (p + PerPlace) + 0
        BY <1>2, <1>3, <1>7, <1>8, <1>13
      <4>. QED
        BY <1>2, <4>2, <4>3
    <3>. QED
      BY <1>1, <1>4, <1>5, <1>9, <3>2, <3>3, GoesOn
  <2>. QED
    BY <1>2, <1>3, <2>1, <2>2, <2>3
<1>. QED
  BY <1>2, <1>3, <1>12, <1>13

\* match gives up only after as many rounds as there are for every place.
LEMMA GiveUpDecides ==
  ASSUME GlobInv, M!match_give_up
  PROVE  GlobInv'
<1>1. /\ ret = -1 /\ calls >= MATCH_MAX_CALLS /\ calls' = calls + 1 /\ ret' = 0
      /\ mask' = mask /\ name' = name
  BY DEF M!match_give_up, M!args
<1>2. MatchInv /\ Undecided /\ Text
  BY <1>1 DEF GlobInv, MatchInv
<1>3. MatchInv'
  BY <1>2, GiveUpStep
<1>4. /\ MATCH_MAX_CALLS \in Nat /\ calls \in 0..(MATCH_MAX_CALLS + 1)
  BY <1>2, RoutinesConfig DEF MatchInv, M!TypeOK, M!MatchConfig
<1>5. /\ Len(name) \in Nat /\ m \in Int /\ ma \in Int
      /\ n \in 1..(Len(name) + 1) /\ na \in 1..(Len(name) + 1)
      /\ ma <= m /\ m - ma = n - na
  <2>1. Len(mask) \in Nat /\ Len(name) \in Nat
    BY <1>2, TextFacts
  <2>. QED
    BY <1>2, <2>1 DEF MatchInv, M!TypeOK, InStep
<1>6. PerPlace \in Nat /\ PerPlace >= 1
  BY <1>2, PerPlaceIs
<1>7. /\ na - 1 \in Nat /\ m - ma \in Nat /\ (na - 1) + (m - ma) = n - 1 /\ n - 1 \in Nat
      /\ Len(name) - (n - 1) \in Nat /\ (n - 1) + (Len(name) - (n - 1)) = Len(name)
  BY <1>5
<1>8. Spent(m, ma, na) \in Nat /\ Spent(m, ma, na) <= PerPlace * (n - 1)
  <2>1. PerPlace * (na - 1) + (m - ma) <= PerPlace * ((na - 1) + (m - ma))
    BY <1>6, <1>7, Times
  <2>2. PerPlace * (na - 1) \in Nat
    BY <1>6, <1>7, Times
  <2>3. PerPlace * (na - 1) + (m - ma) <= PerPlace * (n - 1)
    BY <1>7, <2>1
  <2> DEFINE p == PerPlace * (na - 1)
             e == m - ma
  <2>4. Spent(m, ma, na) = p + e /\ p \in Nat /\ e \in Nat /\ p + e <= PerPlace * (n - 1)
    BY <1>7, <2>2, <2>3 DEF Spent
  <2>. HIDE DEF p, e
  <2>. QED
    BY <2>4
<1>9. /\ PerPlace * (n - 1) \in Nat /\ PerPlace * Len(name) \in Nat
      /\ PerPlace * (n - 1) + (Len(name) - (n - 1)) <= PerPlace * Len(name)
  BY <1>5, <1>6, <1>7, Times
<1>10. calls <= Spent(m, ma, na)
  BY <1>2 DEF Undecided
<1>11. calls <= PerPlace * Len(name)
  <2> DEFINE c == calls
             s == Spent(m, ma, na)
             p == PerPlace * (n - 1)
             q == PerPlace * Len(name)
             r == Len(name) - (n - 1)
  <2>1. c \in Int /\ c <= s
    BY <1>4, <1>10
  <2>2. s \in Int /\ s <= p /\ p \in Int /\ q \in Int /\ p + r <= q
    BY <1>8, <1>9
  <2>3. r \in Int /\ r >= 0
    BY <1>7
  <2>. HIDE DEF c, s, p, q, r
  <2>4. c <= q
    BY ONLY <2>1, <2>2, <2>3
  <2>. QED
    BY <2>4 DEF c, q
<1>12. PerPlace * Len(name) + 1 > MATCH_MAX_CALLS
  BY <1>1, <1>4, <1>9, <1>11
<1>13. M!Rounds' > MATCH_MAX_CALLS
  BY <1>1, <1>12 DEF M!Rounds, PerPlace
<1>14. ~ (calls' <= MATCH_MAX_CALLS)
  BY <1>1, <1>4
<1>. QED
  BY <1>1, <1>3, <1>13, <1>14 DEF GlobInv, Decided

LEMMA GlobInit ==
  ASSUME M!Init \/ NoMatch
  PROVE  GlobInv
<1>1. MatchInv /\ Text
  BY MatchInit DEF MatchInv
<1>2. /\ m = 1 /\ n = 1 /\ ma = 1 /\ na = 1 /\ wild = FALSE
      /\ Len(mask) \in Nat /\ Len(name) \in Nat
  BY <1>1, TextFacts DEF M!Init, NoMatch
<1> DEFINE g == [x \in 0..0 |-> 0]
<1>3. g[0] = 0 /\ 1..0 = {}
  OBVIOUS
<1>. HIDE DEF g
<1>4. Align(g, 0)
  BY <1>3 DEF Align
<1>5. CASE M!Init
  <2>1. ret = -1 /\ calls = 0
    BY <1>5 DEF M!Init
  <2>2. Progress(m, n, ma, na)
    <3>1. 1..0 = {} /\ 1 - 1 = 0
      OBVIOUS
    <3>2. Begun(m, n, ma, na, g)
      BY <1>2, <1>3, <1>4, <3>1 DEF Begun
    <3>3. \A f : Full(f) => f[0] = 0
      BY DEF Full, Align
    <3>. QED
      BY <1>2, <3>1, <3>2, <3>3 DEF Progress
  <2>3. calls <= Spent(m, ma, na)
    <3>1. PerPlace \in Nat
      BY <1>1, PerPlaceIs
    <3>2. PerPlace * (1 - 1) + (1 - 1) = 0
      BY <3>1
    <3>. QED
      BY <1>2, <2>1, <3>2 DEF Spent
  <2>. QED
    BY <1>1, <1>2, <2>1, <2>2, <2>3 DEF GlobInv, Undecided
<1>6. CASE NoMatch
  <2>1. ret = 1 /\ calls = 1 /\ Len(mask) = 0 /\ Len(name) = 0
    BY <1>6 DEF NoMatch
  <2>2. Full(g)
    BY <1>3, <1>4, <2>1 DEF Full
  <2>3. calls <= MATCH_MAX_CALLS
    <3>1. MATCH_MAX_CALLS \in Nat \ {0}
      BY RoutinesConfig DEF M!MatchConfig
    <3>. QED
      BY <2>1, <3>1
  <2>4. Decided
    BY <2>1, <2>2, <2>3 DEF Decided
  <2>. QED
    BY <1>1, <2>1, <2>4 DEF GlobInv
<1>. QED
  BY <1>5, <1>6

LEMMA GlobNextStep ==
  ASSUME GlobInv, M!Next
  PROVE  GlobInv'
BY BothEndDecides, RestDecides, NameLongerDecides, RetryGoesOn, MaskLongerDecides,
   CompareGoesOn, DifferDecides, GiveUpDecides DEF M!Next

\* match decides whether the name matches the mask, however long both are, and
\* gives up only on a mask and a name for which MATCH_MAX_CALLS rounds may be too
\* few; it then claims no match.
THEOREM MatchDecides == Spec => []MatchIsGlob
<1>1. Init => GlobInv
  BY GlobInit DEF Init
<1>2. ASSUME GlobInv, [Next]_vars
      PROVE  GlobInv'
  <2>1. CASE MatchNext
    BY <1>2, <2>1, GlobNextStep DEF MatchNext
  <2>2. ASSUME UNCHANGED matchVars
        PROVE  GlobInv'
    <3>1. /\ mask' = mask /\ name' = name /\ m' = m /\ n' = n /\ ma' = ma /\ na' = na
          /\ wild' = wild /\ calls' = calls /\ ret' = ret
      BY <2>2 DEF matchVars
    <3>2. MatchInv'
      BY <1>2, <3>1 DEF GlobInv, MatchInv, M!TypeOK, Text, InStep
    <3>3. Undecided => Undecided'
      BY <3>1 DEF Undecided, Progress, Begun, Full, Align, MatchesAt, M!ToLower, M!At, Spent, PerPlace
    <3>4. Decided => Decided'
      BY <3>1 DEF Decided, Full, Align, MatchesAt, M!ToLower, M!Rounds
    <3>. QED
      BY <1>2, <3>1, <3>2, <3>3, <3>4 DEF GlobInv
  <2>. QED
    BY <1>2, <2>1, <2>2 DEF Next, ListNext, KlineNext, ReplyNext, ParseNext, vars
<1>3. GlobInv => MatchIsGlob
  <2>1. SUFFICES ASSUME GlobInv, ret # -1
                 PROVE  MatchIsGlob
    BY DEF MatchIsGlob, M!MatchIsGlob
  <2>2. Decided /\ Text
    BY <2>1 DEF GlobInv, MatchInv
  <2>. QED
    BY <2>2, GlobIsAlignment DEF Decided, MatchIsGlob, M!MatchIsGlob
<1>. QED
  BY <1>1, <1>2, <1>3, PTL DEF Spec

-----------------------------------------------------------------------------
(* scan_irckline: where the tokens are in the format *)

\* f[k] is the first k of the sequences ts put together.
Joined(ts, f, k) ==
  f[1] = ts[1] /\ \A j \in 2..k : f[j] = f[j - 1] \o ts[j]

LEMMA PrefixesExist ==
  ASSUME NEW C, NEW ts \in Seq(Seq(C)), ts # <<>>
  PROVE  \E f \in [1..Len(ts) -> Seq(C)] : Joined(ts, f, Len(ts))
<1> DEFINE S == {k \in Nat : k \in 1..Len(ts) =>
                               \E f \in [1..k -> Seq(C)] : Joined(ts, f, k)}
<1>1. Len(ts) \in Nat /\ Len(ts) >= 1 /\ \A k \in 1..Len(ts) : ts[k] \in Seq(C)
  BY LenProperties, ElementOfSeq, EmptySeq
<1>2. 0 \in S
  OBVIOUS
<1>3. ASSUME NEW k \in Nat, k \in S
      PROVE  k + 1 \in S
  <2>1. SUFFICES ASSUME k + 1 \in 1..Len(ts)
                 PROVE  \E f \in [1..(k + 1) -> Seq(C)] : Joined(ts, f, k + 1)
    OBVIOUS
  <2>2. CASE k = 0
    <3> DEFINE f == [x \in 1..1 |-> ts[1]]
    <3>1. f \in [1..1 -> Seq(C)] /\ f[1] = ts[1] /\ 2..1 = {}
      BY <1>1
    <3>. HIDE DEF f
    <3>2. Joined(ts, f, 1)
      BY <3>1 DEF Joined
    <3>3. k + 1 = 1
      BY <2>2
    <3>. QED
      BY <3>1, <3>2, <3>3
  <2>3. CASE k > 0
    <3>1. PICK g \in [1..k -> Seq(C)] : Joined(ts, g, k)
      BY <1>1, <1>3, <2>1, <2>3
    <3> DEFINE e == g[k] \o ts[k + 1]
               f == [x \in 1..(k + 1) |-> IF x = k + 1 THEN e ELSE g[x]]
    <3>2. e \in Seq(C)
      BY <1>1, <2>1, <2>3, ConcatProperties
    <3>. HIDE DEF e
    <3>3. f \in [1..(k + 1) -> Seq(C)]
      BY <2>3, <3>2
    <3>4. ASSUME NEW x \in 2..(k + 1)
          PROVE  f[x] = f[x - 1] \o ts[x]
      <4>1. CASE x = k + 1
        <5>1. f[x] = e
          BY <2>3, <4>1
        <5>2. f[x - 1] = g[k]
          BY <2>3, <4>1
        <5>. HIDE DEF f
        <5>. QED
          BY <4>1, <5>1, <5>2 DEF e
      <4>2. CASE x # k + 1
        <5>1. x \in 2..k /\ x - 1 \in 1..(k + 1) /\ x - 1 # k + 1
          BY <2>3, <4>2
        <5>2. f[x] = g[x] /\ f[x - 1] = g[x - 1]
          BY <5>1, <4>2
        <5>. QED
          BY <3>1, <5>1, <5>2 DEF Joined
      <4>. QED
        BY <4>1, <4>2
    <3>5. f[1] = ts[1]
      BY <2>3, <3>1 DEF Joined
    <3>. HIDE DEF f
    <3>. QED
      BY <3>3, <3>4, <3>5 DEF Joined
  <2>. QED
    BY <2>2, <2>3
<1>. HIDE DEF S
<1>4. Len(ts) \in S
  BY <1>1, <1>2, <1>3, SetInduction
<1>. QED
  BY <1>1, <1>4 DEF S

\* FlattenSeq is the last prefix.
LEMMA FlattenIs ==
  ASSUME NEW C, NEW ts \in Seq(Seq(C)), ts # <<>>,
         NEW f \in [1..Len(ts) -> Seq(C)], Joined(ts, f, Len(ts))
  PROVE  K!FlattenSeq(ts) = f[Len(ts)]
<1> DEFINE l == Len(ts)
           Body(h) == [x \in 1..l |-> IF x = 1 THEN ts[x] ELSE h[x - 1] \o ts[x]]
           F == CHOOSE h : h = Body(h)
<1>1. l \in Nat /\ l >= 1
  BY LenProperties, EmptySeq
<1>2. f = Body(f)
  <2>1. ASSUME NEW x \in 1..l
        PROVE  f[x] = IF x = 1 THEN ts[x] ELSE f[x - 1] \o ts[x]
    <3>1. x = 1 \/ x \in 2..Len(ts)
      BY <1>1
    <3>2. x \in 2..Len(ts) => x # 1
      BY <1>1
    <3>. QED
      BY <3>1, <3>2 DEF Joined
  <2>. QED
    BY <2>1
<1>3. F = Body(F)
  <2>. HIDE DEF Body
  <2>. QED
    BY <1>2
<1>4. K!FlattenSeq(ts) = F[l]
  BY <1>1 DEF K!FlattenSeq
<1>. HIDE DEF F, l
<1>5. l \in 1..l
  BY <1>1
<1> DEFINE S == {k \in Nat : k \in 1..l => F[k] = f[k]}
<1>6. 0 \in S
  OBVIOUS
<1>7. ASSUME NEW k \in Nat, k \in S
      PROVE  k + 1 \in S
  <2>1. SUFFICES ASSUME k + 1 \in 1..l
                 PROVE  F[k + 1] = f[k + 1]
    OBVIOUS
  <2>2. F[k + 1] = Body(F)[k + 1] /\ f[k + 1] = Body(f)[k + 1]
    BY <1>2, <1>3
  <2>3. CASE k = 0
    BY <2>1, <2>2, <2>3
  <2>4. CASE k # 0
    <3>1. k \in 1..l /\ (k + 1) - 1 = k /\ k + 1 # 1
      BY <1>1, <2>1, <2>4
    <3>2. F[k] = f[k]
      BY <1>7, <3>1
    <3>3. /\ Body(F)[k + 1] = F[(k + 1) - 1] \o ts[k + 1]
          /\ Body(f)[k + 1] = f[(k + 1) - 1] \o ts[k + 1]
      BY <2>1, <3>1
    <3>. QED
      BY <2>2, <3>1, <3>2, <3>3
  <2>. QED
    BY <2>3, <2>4
<1>. HIDE DEF S
<1>8. l \in S
  BY <1>1, <1>6, <1>7, SetInduction
<1>. QED
  BY <1>4, <1>5, <1>8 DEF S, l

\* off[j] characters of s precede the j-th of the sequences ts.
Layout(ts, s, off) ==
  /\ off \in [1..(Len(ts) + 1) -> Nat] /\ off[1] = 0
  /\ Len(s) = off[Len(ts) + 1]
  /\ \A j \in 1..Len(ts) : /\ off[j + 1] = off[j] + Len(ts[j])
                           /\ off[j + 1] <= Len(s)
                           /\ \A x \in 1..Len(ts[j]) : s[off[j] + x] = ts[j][x]

\* s is at the beginning of t.
Starts(s, t) == Len(s) <= Len(t) /\ \A x \in 1..Len(s) : t[x] = s[x]

\* A prefix is at the beginning of each longer one.
LEMMA PrefixOfLonger ==
  ASSUME NEW C, NEW ts \in Seq(Seq(C)), ts # <<>>,
         NEW f \in [1..Len(ts) -> Seq(C)], Joined(ts, f, Len(ts)),
         NEW j \in 1..Len(ts)
  PROVE  Starts(f[j], f[Len(ts)])
<1> DEFINE l == Len(ts)
           Begins(d) == /\ Len(f[j]) <= Len(f[j + d])
                        /\ \A x \in 1..Len(f[j]) : f[j + d][x] = f[j][x]
           S == {d \in Nat : j + d \in 1..l => Begins(d)}
<1>1. l \in Nat /\ \A k \in 1..l : f[k] \in Seq(C) /\ ts[k] \in Seq(C) /\ Len(f[k]) \in Nat
  BY LenProperties, ElementOfSeq
<1>2. 0 \in S
  <2>1. j + 0 = j
    BY <1>1
  <2>. QED
    BY <1>1, <2>1
<1>3. ASSUME NEW d \in Nat, d \in S
      PROVE  d + 1 \in S
  <2>1. SUFFICES ASSUME j + (d + 1) \in 1..l
                 PROVE  Begins(d + 1)
    OBVIOUS
  <2>2. j + d \in 1..l /\ j + (d + 1) \in 2..l /\ (j + (d + 1)) - 1 = j + d
    BY <1>1, <2>1
  <2> DEFINE a == f[j + d]
             b == f[j + (d + 1)]
             c == ts[j + (d + 1)]
  <2>3. b = a \o c
    BY <2>2 DEF Joined
  <2>4. a \in Seq(C) /\ c \in Seq(C) /\ Len(a) \in Nat /\ Len(c) \in Nat
    BY <1>1, <2>1, <2>2, LenProperties
  <2>5. Len(f[j]) <= Len(a) /\ \A x \in 1..Len(f[j]) : a[x] = f[j][x]
    BY <1>3, <2>2
  <2>. HIDE DEF a, b, c
  <2>6. Len(b) = Len(a) + Len(c) /\ \A x \in 1..Len(a) : b[x] = a[x]
    <3>1. /\ Len(a \o c) = Len(a) + Len(c)
          /\ \A x \in 1..(Len(a) + Len(c)) :
               (a \o c)[x] = IF x <= Len(a) THEN a[x] ELSE c[x - Len(a)]
      BY <2>4, ConcatProperties
    <3>2. /\ Len(b) = Len(a) + Len(c)
          /\ \A x \in 1..(Len(a) + Len(c)) :
               b[x] = IF x <= Len(a) THEN a[x] ELSE c[x - Len(a)]
      BY <2>3, <3>1, Zenon
    <3>3. ASSUME NEW x \in 1..Len(a)
          PROVE  b[x] = a[x]
      <4>1. x \in 1..(Len(a) + Len(c)) /\ x <= Len(a)
        BY <2>4
      <4>. QED
        BY <3>2, <4>1
    <3>. QED
      BY <3>2, <3>3
  <2>7. Len(f[j]) \in Nat
    BY <1>1
  <2>8. Len(f[j]) <= Len(b) /\ \A x \in 1..Len(f[j]) : b[x] = f[j][x]
    BY <2>4, <2>5, <2>6, <2>7
  <2>. QED
    BY <2>8 DEF b
<1>4. Nat \subseteq S
  <2>. HIDE DEF S
  <2>. QED
    BY <1>2, <1>3, SetInduction
<1>5. l - j \in Nat /\ j + (l - j) = l /\ l \in 1..l
  BY <1>1
<1>6. Begins(l - j)
  <2>. HIDE DEF Begins
  <2>. QED
    BY <1>4, <1>5
<1>. QED
  BY <1>5, <1>6 DEF Starts

\* Where the tokens are in what FlattenSeq makes of them.
LEMMA FlattenLayout ==
  ASSUME NEW C, NEW ts \in Seq(Seq(C))
  PROVE  \E off : Layout(ts, K!FlattenSeq(ts), off)
<1> DEFINE l == Len(ts)
           s == K!FlattenSeq(ts)
<1>1. CASE ts = <<>>
  <2>1. l = 0 /\ s = ts
    BY <1>1, EmptySeq DEF K!FlattenSeq
  <2> DEFINE off == [x \in 1..1 |-> 0]
  <2>2. Layout(ts, s, off)
    BY <2>1 DEF Layout
  <2>. QED
    BY <2>2
<1>2. CASE ts # <<>>
  <2>1. l \in Nat /\ l >= 1 /\ \A j \in 1..l : ts[j] \in Seq(C) /\ Len(ts[j]) \in Nat
    BY <1>2, LenProperties, ElementOfSeq, EmptySeq
  <2>2. PICK f \in [1..l -> Seq(C)] : Joined(ts, f, l)
    BY <1>2, PrefixesExist
  <2>3. s = f[l]
    BY <1>2, <2>2, FlattenIs
  <2>4. \A j \in 1..l : Len(f[j]) \in Nat
    BY <2>2, LenProperties
  <2> DEFINE off == [x \in 1..(l + 1) |-> IF x = 1 THEN 0 ELSE Len(f[x - 1])]
  <2>5. /\ off \in [1..(l + 1) -> Nat] /\ off[1] = 0
        /\ \A j \in 1..l : off[j + 1] = Len(f[j])
    <3>1. \A j \in 1..l : j + 1 \in 1..(l + 1) /\ j + 1 # 1 /\ (j + 1) - 1 = j
      BY <2>1
    <3>2. \A x \in 1..(l + 1) : x # 1 => x - 1 \in 1..l
      BY <2>1
    <3>. QED
      BY <2>1, <2>4, <3>1, <3>2
  <2>6. Len(s) = off[l + 1]
    BY <2>1, <2>3, <2>5
  <2>. HIDE DEF off, s, l
  <2>7. ASSUME NEW j \in 1..l
        PROVE  /\ off[j + 1] = off[j] + Len(ts[j])
               /\ off[j + 1] <= Len(s)
               /\ \A x \in 1..Len(ts[j]) : s[off[j] + x] = ts[j][x]
    <3>1. /\ off[j + 1] = off[j] + Len(ts[j])
          /\ \A x \in 1..Len(ts[j]) : f[j][off[j] + x] = ts[j][x]
      <4>1. CASE j = 1
        <5>1. off[j] = 0 /\ off[j + 1] = Len(f[1]) /\ f[j] = ts[j]
          BY <2>2, <2>5, <4>1 DEF Joined
        <5>. QED
          BY <2>1, <4>1, <5>1
      <4>2. CASE j # 1
        <5>1. j \in 2..l /\ j - 1 \in 1..l /\ (j - 1) + 1 = j
          BY <2>1, <4>2
        <5>2. f[j] = f[j - 1] \o ts[j] /\ off[j] = Len(f[j - 1])
          BY <2>2, <2>5, <5>1 DEF Joined
        <5> DEFINE a == f[j - 1]
                   c == ts[j]
                   b == f[j]
        <5>3. /\ a \in Seq(C) /\ c \in Seq(C) /\ Len(a) \in Nat /\ Len(c) \in Nat
              /\ b = a \o c /\ off[j] = Len(a) /\ off[j + 1] = Len(b)
          BY <2>1, <2>4, <2>5, <5>1, <5>2
        <5>. HIDE DEF a, b, c
        <5>4. /\ Len(a \o c) = Len(a) + Len(c)
              /\ \A x \in 1..(Len(a) + Len(c)) :
                   (a \o c)[x] = IF x <= Len(a) THEN a[x] ELSE c[x - Len(a)]
          BY <5>3, ConcatProperties
        <5>5. /\ Len(b) = Len(a) + Len(c)
              /\ \A x \in 1..(Len(a) + Len(c)) :
                   b[x] = IF x <= Len(a) THEN a[x] ELSE c[x - Len(a)]
          BY <5>3, <5>4, Zenon
        <5>6. ASSUME NEW x \in 1..Len(c)
              PROVE  b[Len(a) + x] = c[x]
          <6>1. /\ Len(a) + x \in 1..(Len(a) + Len(c)) /\ ~ (Len(a) + x <= Len(a))
                /\ (Len(a) + x) - Len(a) = x
            BY <5>3
          <6>. QED
            BY <5>5, <6>1
        <5>. QED
          BY <5>3, <5>5, <5>6 DEF b, c
      <4>. QED
        BY <4>1, <4>2
    <3>2. /\ Len(f[j]) <= Len(s)
          /\ \A x \in 1..Len(f[j]) : s[x] = f[j][x]
      <4>1. /\ f \in [1..Len(ts) -> Seq(C)] /\ Joined(ts, f, Len(ts))
            /\ ts # <<>> /\ j \in 1..Len(ts)
        BY <1>2, <2>2 DEF l
      <4>2. Starts(f[j], f[Len(ts)])
        BY <4>1, PrefixOfLonger, Zenon
      <4>3. Starts(f[j], s)
        BY <2>3, <4>2, Zenon DEF l
      <4>. QED
        BY <4>3 DEF Starts
    <3>3. off[j + 1] = Len(f[j]) /\ off[j] \in Nat /\ Len(f[j]) \in Nat
      <4>1. j \in 1..(l + 1)
        BY <2>1
      <4>. QED
        BY <2>4, <2>5, <4>1
    <3>4. ASSUME NEW x \in 1..Len(ts[j])
          PROVE  s[off[j] + x] = ts[j][x]
      <4>1. Len(ts[j]) \in Nat
        BY <2>1
      <4>2. off[j] + x \in 1..Len(f[j])
        <5>1. off[j] + Len(ts[j]) = Len(f[j])
          BY <3>1, <3>3
        <5>. QED
          BY <3>3, <4>1, <5>1
      <4>. QED
        BY <3>1, <3>2, <4>2
    <3>. QED
      BY <3>1, <3>2, <3>3, <3>4
  <2>8. Layout(ts, s, off)
    BY <2>5, <2>6, <2>7 DEF Layout, l
  <2>. QED
    BY <2>8 DEF s
<1>. QED
  BY <1>1, <1>2

-----------------------------------------------------------------------------
(* scan_irckline: the buffer *)

\* What the tokens mean; Expansion is made of it.
Meanings == [j \in DOMAIN tokens |-> K!Meaning(tokens[j])]

\* In the first len bytes of the message, data is whole.
Whole ==
  \A x \in 0..(len - 1), k \in Keys :
    message[x] = <<"data", k>> =>
      \E f \in 0..x : /\ f + size[k] > x /\ f + size[k] <= len
                      /\ \A y \in f..(f + size[k] - 1) : message[y] = <<"data", k>>

\* Up to token j the message is what the tokens mean, or that does not fit.
Said(e, j) ==
  \/ len = e[j] /\ \A x \in 1..len : message[x - 1] = K!Expansion[x]
  \/ Len(K!Expansion) > MSGLENMAX - 2

Copied(j) ==
  /\ \A x \in len..(MSGLENMAX - 1) : message[x] \in {K!NUL, K!Junk}
  /\ Whole
  /\ \A e : Layout(Meanings, K!Expansion, e) => Said(e, j)

\* The round at token j: it begins off[j] characters into the format.  If the
\* message is terminated there, then where it ends; if it is not, and there is
\* no room left, then a "%%" took the last of it.
Round(off, j) ==
  /\ Layout(tokens, K!format, off)
  /\ j \in 1..(Len(tokens) + 1) /\ kpos = off[j]
  /\ K!Terminated(j) => message[len] = K!NUL
  /\ len >= MSGLENMAX - 2 /\ ~ K!Terminated(j) =>
       j > 1 /\ tokens[j - 1] = <<"%", "%">> /\ len = MSGLENMAX - 2
  /\ kpc = "send" => j = Len(tokens) + 1 \/ len >= MSGLENMAX - 2

\* The first len bytes of message have been written.
Written ==
  /\ tokens \in Seq(K!Tokens) /\ size \in [Keys -> Nat]
  /\ message = [x \in 0..(MSGLENMAX - 1) |-> message[x]]
  /\ len \in 0..(MSGLENMAX - 1)
  /\ \A x \in 0..(len - 1) : message[x] # K!NUL

\* What irc_send sends.
Sentence ==
  /\ Len(K!Expansion) <= MSGLENMAX - 2 => wire = Append(K!Expansion, K!NL)
  /\ K!DataWhole

KlineState ==
  /\ Written
  /\ kpc = "undefined" => K!CutAtEscape
  /\ kpc = "sent" => Sentence
  /\ \E off, j : Round(off, j) /\ Copied(j)

KlineInv ==
  IF routine = "kline" THEN K!Supported => KlineState ELSE len = 0 /\ kpc = "none"

LEMMA TokenFacts ==
  ASSUME NEW t \in K!Tokens
  PROVE  /\ t \in Seq({"%"} \cup Literals \cup Keys)
         /\ Len(t) \in {1, 2} /\ t[1] # "NUL"
         /\ Len(t) = 1 <=> t[1] # "%"
         /\ Len(t) = 2 => t = <<"%", t[2]>> /\ t[2] # "NUL"
<1>1. \A c \in Literals \cup Keys : c # "%" /\ c # "NUL"
  BY RoutinesConfig DEF K!KlineConfig
<1>2. CASE \E c \in Literals : t = <<c>>
  BY <1>1, <1>2
<1>3. CASE t = <<"%", "%">>
  BY <1>3
<1>4. CASE \E c \in Literals \cup Keys : t = <<"%", c>>
  BY <1>1, <1>4
<1>. QED
  BY <1>2, <1>3, <1>4 DEF K!Tokens

\* What a round sees of the format is the token it is at.
LEMMA AtToken ==
  ASSUME Written, NEW off, NEW j, Round(off, j)
  PROVE  /\ Len(tokens) \in Nat /\ kpos \in Nat
         /\ j = Len(tokens) + 1 => K!At(kpos) = "NUL"
         /\ j # Len(tokens) + 1 =>
              /\ j \in 1..Len(tokens) /\ tokens[j] \in K!Tokens
              /\ j + 1 \in 1..(Len(tokens) + 1)
              /\ K!At(kpos) # "NUL"
              /\ IF K!At(kpos) = "%"
                 THEN /\ tokens[j] = <<"%", K!At(kpos + 1)>> /\ K!At(kpos + 1) # "NUL"
                      /\ off[j + 1] = kpos + 2
                 ELSE /\ Len(tokens[j]) = 1 /\ K!At(kpos) = tokens[j][1]
                      /\ off[j + 1] = kpos + 1
<1>1. Len(tokens) \in Nat /\ tokens \in Seq(K!Tokens)
  BY LenProperties DEF Written
<1>2. kpos \in Nat /\ kpos = off[j] /\ j \in 1..(Len(tokens) + 1) /\ Len(K!format) \in Nat
  <2>1. Len(tokens) + 1 \in 1..(Len(tokens) + 1)
    BY <1>1
  <2>. QED
    BY <2>1 DEF Round, Layout
<1>3. CASE j = Len(tokens) + 1
  <2>1. kpos = Len(K!format)
    BY <1>3 DEF Round, Layout
  <2>2. ~ (kpos < Len(K!format))
    BY <2>1, <1>2
  <2>. QED
    BY <1>1, <1>2, <1>3, <2>2 DEF K!At
<1>4. CASE j # Len(tokens) + 1
  <2> DEFINE t == tokens[j]
  <2>1. j \in 1..Len(tokens) /\ j + 1 \in 1..(Len(tokens) + 1)
    BY <1>1, <1>2, <1>4
  <2>2. t \in K!Tokens
    BY <1>1, <2>1, ElementOfSeq
  <2>3. /\ off[j + 1] = kpos + Len(t) /\ off[j + 1] <= Len(K!format)
        /\ \A x \in 1..Len(t) : K!format[kpos + x] = t[x]
    BY <1>2, <2>1 DEF Round, Layout
  <2>4. /\ Len(t) \in {1, 2} /\ t[1] # "NUL"
        /\ Len(t) = 1 <=> t[1] # "%"
        /\ Len(t) = 2 => t = <<"%", t[2]>> /\ t[2] # "NUL"
    BY <2>2, TokenFacts
  <2>. HIDE DEF t
  <2>5. kpos < Len(K!format) /\ K!format[kpos + 1] = t[1]
    BY <1>2, <2>3, <2>4
  <2>6. K!At(kpos) = t[1]
    BY <2>5 DEF K!At
  <2>7. CASE Len(t) = 2
    <3>1. kpos + 1 < Len(K!format) /\ K!format[kpos + 2] = t[2] /\ (kpos + 1) + 1 = kpos + 2
      BY <1>2, <2>3, <2>7
    <3>2. K!At(kpos + 1) = t[2]
      BY <3>1 DEF K!At
    <3>3. t[1] = "%"
      BY <2>4, <2>7
    <3>. QED
      BY <1>1, <1>2, <1>4, <2>1, <2>2, <2>3, <2>4, <2>6, <2>7, <3>2, <3>3 DEF t
  <2>8. CASE Len(t) = 1
    BY <1>1, <1>2, <1>4, <2>1, <2>2, <2>3, <2>4, <2>6, <2>8 DEF t
  <2>. QED
    BY <2>4, <2>7, <2>8
<1>. QED
  BY <1>3, <1>4

\* A literal terminates the message, a "%%" does the opposite, and a key does
\* not change it.
LEMMA TerminatedStep ==
  ASSUME Len(tokens) \in Nat, NEW j \in 1..Len(tokens)
  PROVE  /\ Len(tokens[j]) = 1 => K!Terminated(j + 1)
         /\ tokens[j] = <<"%", "%">> => ~ K!Terminated(j + 1)
         /\ Len(tokens[j]) # 1 /\ tokens[j] # <<"%", "%">> =>
              (K!Terminated(j + 1) <=> K!Terminated(j))
<1>1. (j + 1) - 1 = j /\ j \in Nat /\ j \in 1..j
  OBVIOUS
<1>2. ASSUME Len(tokens[j]) = 1
      PROVE  K!Terminated(j + 1)
  <2>1. \A x \in (j + 1)..j : FALSE
    BY <1>1
  <2>. QED
    BY <1>1, <1>2, <2>1 DEF K!Terminated
<1>3. ASSUME tokens[j] = <<"%", "%">>, K!Terminated(j + 1)
      PROVE  FALSE
  <2>1. PICK k \in 1..j : /\ Len(tokens[k]) = 1
                          /\ \A x \in (k + 1)..j : tokens[x] # <<"%", "%">>
    BY <1>1, <1>3 DEF K!Terminated
  <2>2. Len(tokens[j]) = 2
    BY <1>3
  <2>3. k # j
    BY <2>1, <2>2
  <2>4. j \in (k + 1)..j
    BY <2>1, <2>3
  <2>. QED
    BY <1>3, <2>1, <2>4
<1>4. ASSUME Len(tokens[j]) # 1, tokens[j] # <<"%", "%">>
      PROVE  K!Terminated(j + 1) <=> K!Terminated(j)
  <2>1. ASSUME K!Terminated(j + 1)
        PROVE  K!Terminated(j)
    <3>1. PICK k \in 1..j : /\ Len(tokens[k]) = 1
                            /\ \A x \in (k + 1)..j : tokens[x] # <<"%", "%">>
      BY <1>1, <2>1 DEF K!Terminated
    <3>2. k # j
      BY <1>4, <3>1
    <3>3. k \in 1..(j - 1) /\ \A x \in (k + 1)..(j - 1) : x \in (k + 1)..j
      BY <3>1, <3>2
    <3>. QED
      BY <3>1, <3>3 DEF K!Terminated
  <2>2. ASSUME K!Terminated(j)
        PROVE  K!Terminated(j + 1)
    <3>1. PICK k \in 1..(j - 1) : /\ Len(tokens[k]) = 1
                                  /\ \A x \in (k + 1)..(j - 1) : tokens[x] # <<"%", "%">>
      BY <2>2 DEF K!Terminated
    <3>2. k \in 1..j /\ \A x \in (k + 1)..j : x = j \/ x \in (k + 1)..(j - 1)
      BY <3>1
    <3>3. \A x \in (k + 1)..j : tokens[x] # <<"%", "%">>
      BY <1>4, <3>1, <3>2
    <3>. QED
      BY <1>1, <3>1, <3>2, <3>3 DEF K!Terminated
  <2>. QED
    BY <2>1, <2>2
<1>. QED
  BY <1>2, <1>3, <1>4

\* The end of a message that is terminated is where the bytes written end.
LEMMA StrlenIs ==
  ASSUME Written, message[len] = K!NUL
  PROVE  K!strlen = len
<1> DEFINE S == {x \in 0..(MSGLENMAX - 1) : message[x] = K!NUL} \cup {MSGLENMAX}
<1>1. MSGLENMAX \in Nat /\ MSGLENMAX > 2
  BY RoutinesConfig DEF K!KlineConfig
<1>2. len \in 0..(MSGLENMAX - 1) /\ \A x \in 0..(len - 1) : message[x] # K!NUL
  BY DEF Written
<1>3. len \in S
  BY <1>2
<1>4. ASSUME NEW y \in S
      PROVE  y \in Int /\ len <= y
  <2>1. CASE y = MSGLENMAX
    BY <1>1, <1>2, <2>1
  <2>2. CASE y \in 0..(MSGLENMAX - 1) /\ message[y] = K!NUL
    <3>1. y \notin 0..(len - 1)
      BY <1>2, <2>2
    <3>. QED
      BY <1>1, <1>2, <2>2, <3>1
  <2>. QED
    BY <2>1, <2>2
<1>5. K!strlen = K!Min(S)
  BY DEF K!strlen
<1>. HIDE DEF S
<1>6. K!Min(S) = CHOOSE z \in S : \A y \in S : z <= y
  BY DEF K!Min
<1>7. ASSUME NEW z \in S, \A y \in S : z <= y
      PROVE  z = len
  BY <1>2, <1>3, <1>4, <1>7
<1>8. \E z \in S : \A y \in S : z <= y
  BY <1>3, <1>4
<1>9. K!Min(S) \in S /\ \A y \in S : K!Min(S) <= y
  BY <1>6, <1>8
<1>. QED
  BY <1>5, <1>7, <1>9

LEMMA BytesDiffer ==
  \A c : K!Lit(c) # K!NUL /\ <<"data", c>> # K!NUL
BY DEF K!Lit, K!NUL

\* What only depends on the format stays as it is.
LEMMA SameFormat ==
  ASSUME tokens' = tokens
  PROVE  /\ K!Supported' <=> K!Supported
         /\ \A j : K!Terminated(j)' <=> K!Terminated(j)
         /\ \A p : K!At(p)' = K!At(p)
         /\ K!format' = K!format
<1>1. K!format' = K!format
  BY DEF K!format
<1>2. \A j : K!Terminated(j)' <=> K!Terminated(j)
  BY DEF K!Terminated
<1>3. K!Supported' <=> K!Supported
  BY <1>2 DEF K!Supported
<1>4. \A p : K!At(p)' = K!At(p)
  BY <1>1 DEF K!At
<1>. QED
  BY <1>1, <1>2, <1>3, <1>4

LEMMA Room ==
  ASSUME Written
  PROVE  /\ MSGLENMAX \in Nat /\ len \in Nat /\ len \in 0..(MSGLENMAX - 1)
         /\ len < MSGLENMAX - 2 => len + 1 \in 0..(MSGLENMAX - 1)
         /\ message = [x \in 0..(MSGLENMAX - 1) |-> message[x]]
         /\ \A x \in 0..(len - 1) : message[x] # K!NUL
<1>1. MSGLENMAX \in Nat
  BY RoutinesConfig DEF K!KlineConfig
<1>2. len \in 0..(MSGLENMAX - 1)
  BY DEF Written
<1>3. len \in Nat /\ (len < MSGLENMAX - 2 => len + 1 \in 0..(MSGLENMAX - 1))
  BY <1>1, <1>2
<1>4. /\ message = [x \in 0..(MSGLENMAX - 1) |-> message[x]]
      /\ \A x \in 0..(len - 1) : message[x] # K!NUL
  BY DEF Written
<1>. QED
  BY <1>1, <1>2, <1>3, <1>4

\* What the bytes of a line can be.
Bytes == {K!Lit(c) : c \in {"%"} \cup Literals} \cup {<<"data", k>> : k \in Keys}

\* What a token means: a byte of the format, the data for a key or nothing.
LEMMA MeaningIs ==
  ASSUME size \in [Keys -> Nat], NEW t \in K!Tokens
  PROVE  /\ K!Meaning(t) \in Seq(Bytes)
         /\ Len(t) = 1 => Len(K!Meaning(t)) = 1 /\ K!Meaning(t)[1] = K!Lit(t[1])
         /\ t = <<"%", "%">> => Len(K!Meaning(t)) = 1 /\ K!Meaning(t)[1] = K!Lit("%")
         /\ \A k \in Keys : t = <<"%", k>> =>
              /\ Len(K!Meaning(t)) = size[k]
              /\ \A x \in 1..size[k] : K!Meaning(t)[x] = <<"data", k>>
         /\ Len(t) # 1 /\ t[2] \notin Keys \cup {"%"} => Len(K!Meaning(t)) = 0
<1>1. \A c \in Literals \cup Keys : c # "%" /\ c # "NUL"
  BY RoutinesConfig DEF K!KlineConfig
<1>2. CASE \E c \in Literals : t = <<c>>
  <2>1. PICK c \in Literals : t = <<c>>
    BY <1>2
  <2>2. Len(t) = 1 /\ t[1] = c /\ c # "%"
    BY <1>1, <2>1
  <2>3. K!Meaning(t) = <<K!Lit(c)>>
    BY <2>2 DEF K!Meaning
  <2>4. K!Lit(c) \in Bytes
    BY DEF Bytes
  <2>5. K!Meaning(t) \in Seq(Bytes) /\ Len(K!Meaning(t)) = 1 /\ K!Meaning(t)[1] = K!Lit(c)
    <3> DEFINE a == K!Lit(c)
    <3>1. a \in Bytes /\ K!Meaning(t) = <<a>>
      BY <2>3, <2>4
    <3>. HIDE DEF a
    <3>2. <<a>> \in Seq(Bytes) /\ Len(<<a>>) = 1 /\ <<a>>[1] = a
      BY <3>1
    <3>. QED
      BY <3>1, <3>2 DEF a
  <2>6. t # <<"%", "%">> /\ \A k : t # <<"%", k>>
    BY <2>1
  <2>. QED
    BY <2>2, <2>5, <2>6
<1>3. CASE t = <<"%", "%">>
  <2>1. Len(t) = 2 /\ t[2] = "%" /\ Len(t) # 1
    BY <1>3
  <2>2. K!Meaning(t) = <<K!Lit("%")>>
    BY <2>1 DEF K!Meaning
  <2>3. K!Meaning(t) \in Seq(Bytes) /\ Len(K!Meaning(t)) = 1 /\ K!Meaning(t)[1] = K!Lit("%")
    <3> DEFINE a == K!Lit("%")
    <3>1. a \in Bytes /\ K!Meaning(t) = <<a>>
      BY <2>2 DEF Bytes
    <3>. HIDE DEF a
    <3>2. <<a>> \in Seq(Bytes) /\ Len(<<a>>) = 1 /\ <<a>>[1] = a
      BY <3>1
    <3>. QED
      BY <3>1, <3>2 DEF a
  <2>4. \A k \in Keys : t # <<"%", k>>
    BY <1>1, <1>3
  <2>. QED
    BY <2>1, <2>3, <2>4
<1>4. CASE \E c \in Literals \cup Keys : t = <<"%", c>>
  <2>1. PICK c \in Literals \cup Keys : t = <<"%", c>>
    BY <1>4
  <2>2. Len(t) = 2 /\ t[2] = c /\ Len(t) # 1 /\ c # "%" /\ t # <<"%", "%">>
    BY <1>1, <2>1
  <2>3. CASE c \in Keys
    <3>1. K!Meaning(t) = K!Data(c)
      BY <2>2, <2>3 DEF K!Meaning
    <3>2. size[c] \in Nat /\ <<"data", c>> \in Bytes
      BY <2>3 DEF Bytes
    <3> DEFINE s == [x \in 1..size[c] |-> <<"data", c>>]
    <3>3. s \in Seq(Bytes) /\ Len(s) = size[c] /\ \A x \in 1..size[c] : s[x] = <<"data", c>>
      <4> DEFINE a == <<"data", c>>
      <4>1. a \in Bytes
        BY <3>2
      <4>. HIDE DEF a
      <4> DEFINE r == [x \in 1..size[c] |-> a]
      <4>2. r \in Seq(Bytes) /\ Len(r) = size[c] /\ \A x \in 1..size[c] : r[x] = a
        BY <3>2, <4>1
      <4>. QED
        BY <4>2 DEF a
    <3>4. K!Meaning(t) = s
      BY <3>1 DEF K!Data
    <3>. HIDE DEF s
    <3>5. \A k : t = <<"%", k>> => k = c
      BY <2>1
    <3>. QED
      BY <2>2, <2>3, <3>3, <3>4, <3>5
  <2>4. CASE c \notin Keys
    <3>1. K!Meaning(t) = <<>>
      BY <2>2, <2>4 DEF K!Meaning
    <3>2. \A k \in Keys : t # <<"%", k>>
      BY <2>1, <2>4
    <3>. QED
      BY <2>2, <3>1, <3>2
  <2>. QED
    BY <2>3, <2>4
<1>. QED
  BY <1>2, <1>3, <1>4 DEF K!Tokens

\* FlattenSeq makes a sequence of their elements.
LEMMA FlattenTyped ==
  ASSUME NEW C, NEW ts \in Seq(Seq(C))
  PROVE  K!FlattenSeq(ts) \in Seq(C)
<1>1. CASE ts = <<>>
  <2>1. K!FlattenSeq(ts) = <<>>
    BY <1>1, EmptySeq DEF K!FlattenSeq
  <2>. QED
    BY <2>1
<1>2. CASE ts # <<>>
  <2>1. Len(ts) \in Nat /\ Len(ts) \in 1..Len(ts)
    BY <1>2, LenProperties, EmptySeq
  <2>2. PICK f \in [1..Len(ts) -> Seq(C)] : Joined(ts, f, Len(ts))
    BY <1>2, PrefixesExist
  <2>3. K!FlattenSeq(ts) = f[Len(ts)]
    BY <1>2, <2>2, FlattenIs
  <2>. QED
    BY <2>1, <2>2, <2>3
<1>. QED
  BY <1>1, <1>2

LEMMA MeaningsTyped ==
  ASSUME Written
  PROVE  /\ Meanings \in Seq(Seq(Bytes)) /\ Len(Meanings) = Len(tokens)
         /\ Len(tokens) \in Nat
         /\ \A j \in 1..Len(tokens) : /\ Meanings[j] = K!Meaning(tokens[j])
                                      /\ tokens[j] \in K!Tokens
         /\ K!Expansion \in Seq(Bytes) /\ Len(K!Expansion) \in Nat
<1>1. /\ tokens \in Seq(K!Tokens) /\ size \in [Keys -> Nat] /\ Len(tokens) \in Nat
      /\ DOMAIN tokens = 1..Len(tokens)
  BY LenProperties DEF Written
<1>2. \A j \in 1..Len(tokens) : tokens[j] \in K!Tokens
  BY <1>1, ElementOfSeq
<1>3. \A j \in 1..Len(tokens) : K!Meaning(tokens[j]) \in Seq(Bytes)
  BY <1>1, <1>2, MeaningIs
<1>4. Meanings = [j \in 1..Len(tokens) |-> K!Meaning(tokens[j])]
  BY <1>1 DEF Meanings
<1>5. Meanings \in Seq(Seq(Bytes)) /\ Len(Meanings) = Len(tokens)
  BY <1>1, <1>3, <1>4
<1>6. K!Expansion = K!FlattenSeq(Meanings)
  BY DEF K!Expansion, Meanings
<1>7. K!Expansion \in Seq(Bytes)
  BY <1>5, <1>6, FlattenTyped
<1>. QED
  BY <1>1, <1>2, <1>4, <1>5, <1>7, LenProperties

\* Later sequences are further on.
LEMMA LayoutOnward ==
  ASSUME NEW ts, NEW s, NEW e, Layout(ts, s, e), Len(ts) \in Nat,
         \A x \in 1..Len(ts) : Len(ts[x]) \in Nat,
         NEW a \in 1..(Len(ts) + 1), NEW b \in a..(Len(ts) + 1)
  PROVE  e[a] <= e[b]
<1> DEFINE S == {d \in Nat : a + d <= b => e[a] <= e[a + d]}
<1>1. e \in [1..(Len(ts) + 1) -> Nat]
  BY DEF Layout
<1>2. 0 \in S
  BY <1>1
<1>3. ASSUME NEW d \in Nat, d \in S
      PROVE  d + 1 \in S
  <2>1. SUFFICES ASSUME a + (d + 1) <= b
                 PROVE  e[a] <= e[a + (d + 1)]
    OBVIOUS
  <2>2. /\ a + d \in 1..Len(ts) /\ a + d \in 1..(Len(ts) + 1) /\ a + d <= b
        /\ (a + d) + 1 = a + (d + 1) /\ a + (d + 1) \in 1..(Len(ts) + 1)
    BY <2>1
  <2>3. e[(a + d) + 1] = e[a + d] + Len(ts[a + d])
    BY <2>2 DEF Layout
  <2>4. e[a] <= e[a + d]
    BY <1>3, <2>2
  <2>5. e[a] \in Nat /\ e[a + d] \in Nat /\ Len(ts[a + d]) \in Nat
    BY <1>1, <2>2
  <2>6. e[a + (d + 1)] = e[a + d] + Len(ts[a + d])
    BY <2>2, <2>3
  <2>. QED
    BY <2>4, <2>5, <2>6
<1>4. Nat \subseteq S
  <2>. HIDE DEF S
  <2>. QED
    BY <1>2, <1>3, SetInduction
<1>5. b - a \in Nat /\ a + (b - a) = b /\ b <= b
  OBVIOUS
<1>6. b - a \in S
  BY <1>4, <1>5
<1>. QED
  BY <1>5, <1>6

\* A round that writes what its token means, behind what is there.
LEMMA Wrote ==
  ASSUME Written, Written', tokens' = tokens, size' = size,
         NEW j \in 1..Len(tokens), Copied(j),
         NEW b, b = K!Meaning(tokens[j]), len' = len + Len(b),
         \A x \in 0..(len - 1) : message'[x] = message[x],
         \A x \in 1..Len(b) : message'[len + (x - 1)] = b[x],
         \A x \in (len + Len(b))..(MSGLENMAX - 1) : message'[x] \in {K!NUL, K!Junk}
  PROVE  Copied(j + 1)'
<1>1. /\ MSGLENMAX \in Nat /\ len \in 0..(MSGLENMAX - 1) /\ len \in Nat
      /\ size \in [Keys -> Nat]
  BY RoutinesConfig DEF K!KlineConfig, Written
<1>2. /\ Meanings \in Seq(Seq(Bytes)) /\ Len(Meanings) = Len(tokens) /\ Len(tokens) \in Nat
      /\ Meanings[j] = b /\ tokens[j] \in K!Tokens /\ Len(K!Expansion) \in Nat
  BY MeaningsTyped
<1>3. b \in Seq(Bytes) /\ Len(b) \in Nat
  BY <1>1, <1>2, MeaningIs, LenProperties
<1>4. /\ Len(tokens[j]) = 1 => Len(b) = 1 /\ b[1] = K!Lit(tokens[j][1])
      /\ tokens[j] = <<"%", "%">> => Len(b) = 1 /\ b[1] = K!Lit("%")
      /\ \A c \in Keys : tokens[j] = <<"%", c>> =>
           Len(b) = size[c] /\ \A x \in 1..size[c] : b[x] = <<"data", c>>
      /\ Len(tokens[j]) # 1 /\ tokens[j][2] \notin Keys \cup {"%"} => Len(b) = 0
  <2> DEFINE t == tokens[j]
  <2>1. t \in K!Tokens /\ b = K!Meaning(t)
    BY <1>2
  <2>. HIDE DEF t
  <2>2. /\ Len(t) = 1 => Len(b) = 1 /\ b[1] = K!Lit(t[1])
        /\ t = <<"%", "%">> => Len(b) = 1 /\ b[1] = K!Lit("%")
        /\ \A c \in Keys : t = <<"%", c>> =>
             Len(b) = size[c] /\ \A x \in 1..size[c] : b[x] = <<"data", c>>
        /\ Len(t) # 1 /\ t[2] \notin Keys \cup {"%"} => Len(b) = 0
    BY <1>1, <2>1, MeaningIs
  <2>. QED
    BY <2>2 DEF t
<1>5. Meanings' = Meanings /\ K!Expansion' = K!Expansion
  BY DEF Meanings, K!Expansion, K!Meaning, K!Data, K!Lit
<1>6. (\A x \in len..(MSGLENMAX - 1) : message[x] \in {K!NUL, K!Junk})'
  BY DEF K!NUL, K!Junk
<1>7. Whole'
  <2> DEFINE Found(x, k, s, e) ==
               \E f \in 0..x :
                 /\ f + s > x /\ f + s <= e
                 /\ \A y \in f..(f + s - 1) : message'[y] = <<"data", k>>
  <2>0. len' = len + Len(b) /\ size' = size
    OBVIOUS
  <2>a. Whole' <=> \A x \in 0..(len' - 1), k \in Keys :
                      message'[x] = <<"data", k>> => Found(x, k, size'[k], len')
    BY ONLY DEF Whole
  <2>. HIDE DEF Found
  <2>1. SUFFICES ASSUME NEW x \in 0..((len + Len(b)) - 1), NEW k \in Keys,
                        message'[x] = <<"data", k>>
                 PROVE  Found(x, k, size[k], len + Len(b))
    BY ONLY <2>0, <2>a, <2>1, Zenon
  <2>1b. SUFFICES \E f \in 0..x :
                   /\ f + size[k] > x /\ f + size[k] <= len + Len(b)
                   /\ \A y \in f..(f + size[k] - 1) : message'[y] = <<"data", k>>
    BY ONLY <2>1b DEF Found
  <2>2. size[k] \in Nat
    BY <1>1
  <2>3. CASE x < len
    <3>1. x \in 0..(len - 1) /\ message[x] = <<"data", k>>
      BY <1>1, <2>1, <2>3
    <3>2. PICK f \in 0..x : /\ f + size[k] > x /\ f + size[k] <= len
                            /\ \A y \in f..(f + size[k] - 1) : message[y] = <<"data", k>>
      BY <3>1 DEF Copied, Whole
    <3>3. \A y \in f..(f + size[k] - 1) : y \in 0..(len - 1)
      <4>1. f \in Nat /\ f + size[k] <= len
        BY <3>1, <3>2
      <4>. QED
        BY <1>1, <2>2, <4>1
    <3>4. \A y \in f..(f + size[k] - 1) : message'[y] = <<"data", k>>
      BY <3>2, <3>3
    <3>5. f + size[k] <= len + Len(b)
      BY <1>1, <1>3, <2>2, <3>2
    <3>. QED
      BY <3>2, <3>4, <3>5
  <2>4. CASE ~ (x < len)
    <3>1. x - len + 1 \in 1..Len(b) /\ len + ((x - len + 1) - 1) = x /\ len \in 0..x
      BY <1>1, <1>3, <2>1, <2>4
    <3>2. b[x - len + 1] = <<"data", k>>
      BY <2>1, <3>1
    <3>3. tokens[j] = <<"%", k>>
      <4>1. \A c : <<"data", k>> # K!Lit(c)
        BY DEF K!Lit
      <4>2. Len(tokens[j]) # 1 /\ tokens[j] # <<"%", "%">>
        <5>1. Len(b) = 1 => x - len + 1 = 1
          BY <1>1, <3>1
        <5>2. \A c : ~ (Len(b) = 1 /\ b[1] = K!Lit(c))
          BY <3>2, <4>1, <5>1
        <5>. QED
          BY <1>4, <5>2
      <4>3. Len(tokens[j]) = 2 /\ tokens[j] = <<"%", tokens[j][2]>>
        BY <1>2, <4>2, TokenFacts
      <4>4. tokens[j][2] # "%"
        BY <4>2, <4>3
      <4>5. Len(b) # 0
        BY <1>3, <3>1
      <4>6. tokens[j][2] \in Keys
        BY <1>4, <4>2, <4>4, <4>5
      <4>7. PICK c \in Keys : tokens[j] = <<"%", c>>
        BY <4>3, <4>6
      <4>8. Len(b) = size[c] /\ \A y \in 1..size[c] : b[y] = <<"data", c>>
        BY <1>4, <4>7
      <4>9. <<"data", c>> = <<"data", k>>
        BY <3>1, <3>2, <4>8
      <4>10. c = k
        BY <4>9
      <4>. QED
        BY <4>7, <4>10
    <3>4. Len(b) = size[k] /\ \A y \in 1..size[k] : b[y] = <<"data", k>>
      BY <1>4, <3>3
    <3>5. len + size[k] > x
      BY <1>1, <2>1, <2>2, <3>4
    <3>6. ASSUME NEW y \in len..(len + size[k] - 1)
          PROVE  message'[y] = <<"data", k>>
      <4>1. y - len + 1 \in 1..size[k] /\ len + ((y - len + 1) - 1) = y
        BY <1>1, <2>2
      <4>. QED
        BY <3>4, <4>1
    <3>7. len + size[k] <= len + Len(b)
      BY <1>1, <1>3, <3>4
    <3>. QED
      BY <3>1, <3>5, <3>6, <3>7
  <2>. QED
    BY <2>3, <2>4
<1>8. ASSUME NEW e, Layout(Meanings, K!Expansion, e)
      PROVE  Said(e, j + 1)'
  <2>1. SUFFICES ASSUME ~ (Len(K!Expansion) > MSGLENMAX - 2)
                 PROVE  /\ len + Len(b) = e[j + 1]
                        /\ \A x \in 1..(len + Len(b)) : message'[x - 1] = K!Expansion[x]
    BY <1>5 DEF Said
  <2>2. len = e[j] /\ \A x \in 1..len : message[x - 1] = K!Expansion[x]
    BY <1>8, <2>1 DEF Copied, Said
  <2>3. /\ e[j + 1] = e[j] + Len(b)
        /\ \A x \in 1..Len(b) : K!Expansion[e[j] + x] = b[x]
    BY <1>2, <1>8 DEF Layout
  <2>4. ASSUME NEW x \in 1..(len + Len(b))
        PROVE  message'[x - 1] = K!Expansion[x]
    <3>1. CASE x <= len
      <4>1. x \in 1..len /\ x - 1 \in 0..(len - 1)
        BY <1>1, <1>3, <3>1
      <4>. QED
        BY <2>2, <4>1
    <3>2. CASE x > len
      <4>1. x - len \in 1..Len(b) /\ len + ((x - len) - 1) = x - 1 /\ len + (x - len) = x
        BY <1>1, <1>3, <3>2
      <4>2. message'[x - 1] = b[x - len]
        BY <4>1
      <4>. QED
        BY <2>2, <2>3, <4>1, <4>2
    <3>. QED
      BY <1>1, <1>3, <3>1, <3>2
  <2>. QED
    BY <2>2, <2>3, <2>4
<1>9. (\A e : Layout(Meanings, K!Expansion, e) => Said(e, j + 1))'
  BY <1>5, <1>8 DEF Layout
<1>. QED
  BY <1>6, <1>7, <1>9 DEF Copied

\* A round that leaves out data there is no room for.
LEMMA LeftOut ==
  ASSUME Written, tokens' = tokens, size' = size, message' = message, len' = len,
         NEW j \in 1..Len(tokens), Copied(j),
         NEW k \in Keys, tokens[j] = <<"%", k>>, len + size[k] > MSGLENMAX - 1
  PROVE  Copied(j + 1)'
<1>1. /\ MSGLENMAX \in Nat /\ len \in 0..(MSGLENMAX - 1) /\ size \in [Keys -> Nat]
      /\ size[k] \in Nat
  BY RoutinesConfig DEF K!KlineConfig, Written
<1>2. /\ Len(Meanings) = Len(tokens) /\ Len(tokens) \in Nat
      /\ Meanings[j] = K!Meaning(tokens[j]) /\ tokens[j] \in K!Tokens
      /\ Len(K!Expansion) \in Nat
  BY MeaningsTyped
<1>3. Meanings' = Meanings /\ K!Expansion' = K!Expansion
  BY DEF Meanings, K!Expansion, K!Meaning, K!Data, K!Lit
<1>4. (\A x \in len..(MSGLENMAX - 1) : message[x] \in {K!NUL, K!Junk})' /\ Whole'
  BY DEF Copied, Whole, K!NUL, K!Junk
<1>5. ASSUME NEW e, Layout(Meanings, K!Expansion, e)
      PROVE  Len(K!Expansion) > MSGLENMAX - 2
  <2>1. CASE len = e[j]
    <3>1. Len(Meanings[j]) = size[k]
      BY <1>1, <1>2, MeaningIs
    <3>2. e[j + 1] = e[j] + size[k] /\ e[j + 1] <= Len(K!Expansion)
      BY <1>2, <1>5, <3>1 DEF Layout
    <3>. QED
      BY <1>1, <1>2, <2>1, <3>2
  <2>. QED
    BY <1>5, <2>1 DEF Copied, Said
<1>6. (\A e : Layout(Meanings, K!Expansion, e) => Said(e, j + 1))'
  BY <1>3, <1>5 DEF Layout, Said
<1>. QED
  BY <1>4, <1>6 DEF Copied

\* irc_send's buffer holds the message, and the end of line if there is room.
LEMMA TosendIs ==
  ASSUME NEW B, K!NL \in B, NEW s \in Seq(B), Len(s) <= MSGLENMAX - 1
  PROVE  K!tosend(s) = IF Len(s) <= MSGLENMAX - 2 THEN Append(s, K!NL) ELSE s
<1> DEFINE r == Append(s, K!NL)
<1>1. MSGLENMAX \in Nat /\ MSGLENMAX > 2 /\ Len(s) \in Nat
  BY RoutinesConfig, LenProperties DEF K!KlineConfig
<1>2. ASSUME NEW x \in Int, NEW y \in Int
      PROVE  K!Min({x, y}) = IF x <= y THEN x ELSE y
  <2>1. K!Min({x, y}) = CHOOSE z \in {x, y} : \A w \in {x, y} : z <= w
    BY DEF K!Min
  <2> DEFINE v == IF x <= y THEN x ELSE y
  <2>2. v \in {x, y} /\ \A w \in {x, y} : v <= w
    OBVIOUS
  <2>3. \A z \in {x, y} : (\A w \in {x, y} : z <= w) => z = v
    OBVIOUS
  <2>. HIDE DEF v
  <2>4. K!Min({x, y}) = v
    BY <2>1, <2>2, <2>3
  <2>. QED
    BY <2>4 DEF v
<1>3. K!Cut(s) = s
  <2>1. K!Min({Len(s), MSGLENMAX - 1}) = Len(s)
    BY <1>1, <1>2
  <2>. QED
    BY <2>1, SubSeqFull DEF K!Cut
<1>4. K!tosend(s) = K!Cut(r)
  BY <1>3 DEF K!tosend
<1>5. r \in Seq(B) /\ Len(r) = Len(s) + 1 /\ \A x \in 1..Len(s) : r[x] = s[x]
  BY AppendProperties
<1>. HIDE DEF r
<1>6. CASE Len(s) <= MSGLENMAX - 2
  <2>1. K!Min({Len(r), MSGLENMAX - 1}) = Len(r)
    BY <1>1, <1>2, <1>5, <1>6
  <2>2. K!Cut(r) = r
    BY <1>5, <2>1, SubSeqFull DEF K!Cut
  <2>. QED
    BY <1>4, <1>6, <2>2 DEF r
<1>7. CASE ~ (Len(s) <= MSGLENMAX - 2)
  <2>1. Len(s) = MSGLENMAX - 1 /\ Len(r) = MSGLENMAX
    BY <1>1, <1>5, <1>7
  <2>2. K!Min({Len(r), MSGLENMAX - 1}) = Len(s)
    BY <1>1, <1>2, <2>1
  <2>3. K!Cut(r) = SubSeq(r, 1, Len(s))
    BY <2>2 DEF K!Cut
  <2>4. \A x \in 1..Len(s) : r[x] \in B
    BY <1>5, ElementOfSeq
  <2>5. /\ SubSeq(r, 1, Len(s)) \in Seq(B)
        /\ Len(SubSeq(r, 1, Len(s))) = IF 1 <= Len(s) THEN Len(s) - 1 + 1 ELSE 0
        /\ \A x \in 1..(Len(s) - 1 + 1) : SubSeq(r, 1, Len(s))[x] = r[1 + x - 1]
    BY <1>1, <2>4, SubSeqProperties
  <2>6. Len(SubSeq(r, 1, Len(s))) = Len(s)
    BY <1>1, <2>5
  <2>7. \A x \in 1..Len(s) : SubSeq(r, 1, Len(s))[x] = s[x]
    <3>1. \A x \in 1..Len(s) : x \in 1..(Len(s) - 1 + 1) /\ 1 + x - 1 = x
      BY <1>1
    <3>. QED
      BY <1>5, <2>5, <3>1
  <2>8. SubSeq(r, 1, Len(s)) = s
    BY <2>5, <2>6, <2>7, SeqEqual
  <2>. QED
    BY <1>4, <1>7, <2>3, <2>8
<1>. QED
  BY <1>6, <1>7

\* The end of the message is not found before the bytes written end.
LEMMA StrlenFrom ==
  ASSUME Written
  PROVE  K!strlen \in len..MSGLENMAX
<1> DEFINE S == {x \in 0..(MSGLENMAX - 1) : message[x] = K!NUL} \cup {MSGLENMAX}
<1>1. MSGLENMAX \in Nat /\ MSGLENMAX > 2
  BY RoutinesConfig DEF K!KlineConfig
<1>2. len \in 0..(MSGLENMAX - 1) /\ \A x \in 0..(len - 1) : message[x] # K!NUL
  BY DEF Written
<1>3. S \subseteq Nat /\ MSGLENMAX \in S
  BY <1>1
<1>4. ASSUME NEW y \in S
      PROVE  y \in len..MSGLENMAX
  <2>1. CASE y = MSGLENMAX
    BY <1>1, <1>2, <2>1
  <2>2. CASE y \in 0..(MSGLENMAX - 1) /\ message[y] = K!NUL
    <3>1. y \notin 0..(len - 1)
      BY <1>2, <2>2
    <3>. QED
      BY <1>1, <1>2, <2>2, <3>1
  <2>. QED
    BY <2>1, <2>2
<1>5. K!strlen = CHOOSE z \in S : \A y \in S : z <= y
  BY DEF K!strlen, K!Min
<1>. HIDE DEF S
<1>6. \E z \in S : \A y \in S : z <= y
  BY <1>3, LeastNat
<1>7. K!strlen \in S
  BY <1>5, <1>6
<1>. QED
  BY <1>4, <1>7

\* If the message is not terminated at token j, a literal is still to come.
LEMMA LiteralAhead ==
  ASSUME K!Supported, Len(tokens) \in Nat, NEW j \in 1..(Len(tokens) + 1),
         ~ K!Terminated(j)
  PROVE  \E l \in j..Len(tokens) : Len(tokens[l]) = 1
<1>1. PICK l \in 1..((Len(tokens) + 1) - 1) :
        /\ Len(tokens[l]) = 1
        /\ \A x \in (l + 1)..((Len(tokens) + 1) - 1) : tokens[x] # <<"%", "%">>
  BY DEF K!Supported, K!Terminated
<1>2. ~ (l \in 1..(j - 1))
  <2>1. \A x \in (l + 1)..(j - 1) : x \in (l + 1)..((Len(tokens) + 1) - 1)
    BY <1>1
  <2>. QED
    BY <1>1, <2>1 DEF K!Terminated
<1>3. l \in j..Len(tokens)
  BY <1>1, <1>2
<1>. QED
  BY <1>1, <1>3

\* With the format at its end, or no room left, the message is all of what the
\* format means and is terminated, if that fits.
LEMMA AllCopied ==
  ASSUME Written, K!Supported, kpc = "send", NEW off, NEW j, Round(off, j), Copied(j),
         Len(K!Expansion) <= MSGLENMAX - 2
  PROVE  /\ len = Len(K!Expansion) /\ message[len] = K!NUL
         /\ \A x \in 1..len : message[x - 1] = K!Expansion[x]
<1>1. MSGLENMAX \in Nat /\ len \in 0..(MSGLENMAX - 1) /\ size \in [Keys -> Nat]
  BY RoutinesConfig DEF K!KlineConfig, Written
<1>2. /\ Meanings \in Seq(Seq(Bytes)) /\ Len(Meanings) = Len(tokens) /\ Len(tokens) \in Nat
      /\ \A x \in 1..Len(tokens) : /\ Meanings[x] = K!Meaning(tokens[x])
                                   /\ tokens[x] \in K!Tokens
      /\ K!Expansion \in Seq(Bytes) /\ Len(K!Expansion) \in Nat
  BY MeaningsTyped
<1>3. PICK e : Layout(Meanings, K!Expansion, e)
  <2>1. K!Expansion = K!FlattenSeq(Meanings)
    BY DEF K!Expansion, Meanings
  <2>. QED
    BY <1>2, <2>1, FlattenLayout
<1>4. \A x \in 1..Len(Meanings) : Len(Meanings[x]) \in Nat
  BY <1>2, ElementOfSeq, LenProperties
<1>5. /\ j \in 1..(Len(Meanings) + 1) /\ e[Len(Meanings) + 1] = Len(K!Expansion)
      /\ Len(Meanings) + 1 \in j..(Len(Meanings) + 1)
      /\ Len(Meanings) \in Nat
  BY <1>2, <1>3 DEF Round, Layout
<1>6. len = e[j] /\ \A x \in 1..len : message[x - 1] = K!Expansion[x]
  <2>1. Said(e, j)
    BY <1>3 DEF Copied
  <2>. QED
    BY <1>1, <1>2, <2>1 DEF Said
<1>7. e[j] <= Len(K!Expansion)
  BY <1>3, <1>4, <1>5, LayoutOnward
<1>8. j = Len(tokens) + 1 \/ len >= MSGLENMAX - 2
  BY DEF Round
<1>9. len = Len(K!Expansion)
  <2>1. CASE j = Len(tokens) + 1
    BY <1>2, <1>5, <1>6, <2>1
  <2>2. CASE len >= MSGLENMAX - 2
    BY <1>1, <1>2, <1>6, <1>7, <2>2
  <2>. QED
    BY <1>8, <2>1, <2>2
<1>10. K!Terminated(j)
  <2>1. SUFFICES ASSUME ~ K!Terminated(j)
                 PROVE  FALSE
    OBVIOUS
  <2>2. PICK l \in j..Len(tokens) : Len(tokens[l]) = 1
    BY <1>2, <1>5, <2>1, LiteralAhead
  <2>3. /\ l \in 1..Len(Meanings) /\ l \in j..(Len(Meanings) + 1)
        /\ l + 1 \in 1..(Len(Meanings) + 1)
        /\ l \in 1..Len(tokens)
    BY <1>2, <1>5
  <2>4. Len(Meanings[l]) = 1
    BY <1>1, <1>2, <2>2, <2>3, MeaningIs
  <2>5. e[l + 1] = e[l] + Len(Meanings[l]) /\ e[l + 1] <= Len(K!Expansion) /\ e[l] \in Nat
    <3>1. l \in 1..(Len(Meanings) + 1)
      BY <2>3
    <3>. QED
      BY <1>3, <2>3, <3>1 DEF Layout
  <2>6. e[j] <= e[l]
    BY <1>3, <1>4, <1>5, <2>3, LayoutOnward
  <2>. QED
    BY <1>1, <1>2, <1>6, <1>9, <2>4, <2>5, <2>6
<1>. QED
  BY <1>6, <1>9, <1>10 DEF Round

LEMMA SendsIt ==
  ASSUME Written, K!Supported, kpc = "send", NEW off, NEW j, Round(off, j), Copied(j),
         K!strlen < MSGLENMAX, tokens' = tokens, size' = size,
         wire' = K!tosend([x \in 1..K!strlen |-> message[x - 1]])
  PROVE  Sentence'
<1> DEFINE q == K!strlen
           B == {message[x] : x \in 0..(MSGLENMAX - 1)} \cup {K!NL} \cup Bytes
           s == [x \in 1..q |-> message[x - 1]]
<1>1. MSGLENMAX \in Nat /\ len \in 0..(MSGLENMAX - 1) /\ size \in [Keys -> Nat]
  BY RoutinesConfig DEF K!KlineConfig, Written
<1>2. q \in len..(MSGLENMAX - 1) /\ q \in Nat /\ q <= MSGLENMAX - 1
  BY <1>1, StrlenFrom
<1>. HIDE DEF q
<1>3. /\ s \in Seq(B) /\ Len(s) = q /\ \A x \in 1..q : s[x] = message[x - 1]
  <2>1. \A x \in 1..q : message[x - 1] \in B
    <3>1. \A x \in 1..q : x - 1 \in 0..(MSGLENMAX - 1)
      BY <1>1, <1>2
    <3>. QED
      BY <3>1
  <2>. HIDE DEF B
  <2>. QED
    BY <1>2, <2>1
<1>4. K!NL \in B
  OBVIOUS
<1>5. wire' = K!tosend(s)
  BY DEF q
<1>. HIDE DEF s, B
<1>6. wire' = IF q <= MSGLENMAX - 2 THEN Append(s, K!NL) ELSE s
  BY <1>2, <1>3, <1>4, <1>5, TosendIs
<1>7. K!Expansion' = K!Expansion
  BY DEF K!Expansion, K!Meaning, K!Data, K!Lit
<1>8. ASSUME Len(K!Expansion) <= MSGLENMAX - 2
      PROVE  wire' = Append(K!Expansion, K!NL)
  <2>1. /\ len = Len(K!Expansion) /\ message[len] = K!NUL
        /\ \A x \in 1..len : message[x - 1] = K!Expansion[x]
    BY <1>8, AllCopied
  <2>2. q = len
    BY <2>1, StrlenIs DEF q
  <2>3. K!Expansion \in Seq(B)
    <3>1. K!Expansion \in Seq(Bytes) /\ Bytes \subseteq B
      BY MeaningsTyped DEF B
    <3>. QED
      BY <3>1
  <2>4. s = K!Expansion
    BY <1>3, <2>1, <2>2, <2>3, SeqEqual
  <2>. QED
    BY <1>6, <1>8, <2>1, <2>2, <2>4
<1>9. /\ Len(wire') \in Nat /\ Len(wire') >= q /\ DOMAIN wire' = 1..Len(wire')
      /\ wire' \in Seq(B)
      /\ \A x \in 1..q : wire'[x] = message[x - 1]
      /\ \A x \in (q + 1)..Len(wire') : wire'[x] = K!NL
  <2>1. CASE q <= MSGLENMAX - 2
    <3>1. wire' = Append(s, K!NL)
      BY <1>6, <2>1
    <3>2. /\ Append(s, K!NL) \in Seq(B) /\ Len(Append(s, K!NL)) = q + 1
          /\ \A x \in 1..q : Append(s, K!NL)[x] = s[x]
          /\ Append(s, K!NL)[q + 1] = K!NL
      BY <1>3, <1>4, AppendProperties
    <3> DEFINE w == Append(s, K!NL)
    <3>3. w \in Seq(B) /\ Len(w) = q + 1 /\ DOMAIN w = 1..Len(w)
      BY <3>2, LenProperties
    <3>4. (\A x \in 1..q : w[x] = message[x - 1]) /\ w[q + 1] = K!NL
      BY <1>3, <3>2
    <3>. HIDE DEF w
    <3>5. \A x \in (q + 1)..Len(w) : x = q + 1
      BY <1>2, <3>3
    <3>6. Len(w) \in Nat /\ Len(w) >= q
      BY <1>2, <3>3
    <3>7. wire' = w
      BY <3>1 DEF w
    <3>. QED
      BY <3>3, <3>4, <3>5, <3>6, <3>7
  <2>2. CASE ~ (q <= MSGLENMAX - 2)
    <3>1. wire' = s
      BY <1>6, <2>2
    <3>2. DOMAIN s = 1..Len(s)
      BY <1>3, LenProperties
    <3>3. \A x \in (q + 1)..Len(s) : FALSE
      BY <1>2, <1>3
    <3>4. /\ Len(s) \in Nat /\ Len(s) >= q /\ DOMAIN s = 1..Len(s) /\ s \in Seq(B)
          /\ \A x \in 1..q : s[x] = message[x - 1]
      BY <1>2, <1>3, <3>2
    <3>. QED
      BY <3>1, <3>3, <3>4
  <2>. QED
    BY <2>1, <2>2
<1>10. ASSUME NEW k \in Keys, NEW x \in DOMAIN wire', wire'[x] = <<"data", k>>
       PROVE  \E from \in 1..x :
                /\ from + size[k] > x
                /\ from + size[k] - 1 <= Len(wire')
                /\ SubSeq(wire', from, from + size[k] - 1) = K!Data(k)
  <2>1. size[k] \in Nat /\ x \in 1..Len(wire')
    BY <1>1, <1>9
  <2>2. x \in 1..q /\ x - 1 \in 0..(MSGLENMAX - 1) /\ message[x - 1] = <<"data", k>>
    <3>1. <<"data", k>> # K!NL
      BY DEF K!NL
    <3>2. x \notin (q + 1)..Len(wire')
      BY <1>9, <1>10, <3>1
    <3>3. x \in 1..q
      BY <1>2, <1>9, <2>1, <3>2
    <3>. QED
      BY <1>1, <1>2, <1>9, <1>10, <3>3
  <2>3. x - 1 \in 0..(len - 1)
    <3>1. <<"data", k>> \notin {K!NUL, K!Junk}
      BY DEF K!NUL, K!Junk
    <3>2. x - 1 \notin len..(MSGLENMAX - 1)
      BY <2>2, <3>1 DEF Copied
    <3>. QED
      BY <1>1, <2>2, <3>2
  <2>4. PICK f \in 0..(x - 1) :
          /\ f + size[k] > x - 1 /\ f + size[k] <= len
          /\ \A y \in f..(f + size[k] - 1) : message[y] = <<"data", k>>
    BY <2>2, <2>3 DEF Copied, Whole
  <2> DEFINE lo == f + 1
             hi == lo + size[k] - 1
  <2>5. /\ lo \in 1..x /\ lo + size[k] > x /\ hi <= Len(wire') /\ hi = f + size[k]
        /\ lo \in Int /\ hi \in Int /\ lo <= hi /\ hi - lo + 1 = size[k] /\ hi <= q
    BY <1>1, <1>2, <1>9, <2>1, <2>3, <2>4
  <2>6. \A y \in lo..hi : wire'[y] = <<"data", k>>
    <3>1. \A y \in lo..hi : y \in 1..q /\ y - 1 \in f..(f + size[k] - 1)
      <4>1. f \in Nat /\ lo = f + 1 /\ hi = f + size[k] /\ hi <= q
        BY <2>2, <2>4, <2>5
      <4>. HIDE DEF lo, hi
      <4>. QED
        BY <1>2, <2>1, <4>1
    <3>. QED
      BY <1>9, <2>4, <3>1
  <2>7. SubSeq(wire', lo, hi) = K!Data(k)
    <3> DEFINE a == <<"data", k>>
               w == wire'
               u == SubSeq(w, lo, hi)
               d == [y \in 1..size[k] |-> a]
    <3>1. (\A y \in lo..hi : w[y] = a) /\ lo \in Int /\ hi \in Int
      BY <2>5, <2>6
    <3>2. K!Data(k) = d
      BY DEF K!Data
    <3>. HIDE DEF a, lo, hi, w
    <3>3. \A y \in lo..hi : w[y] \in {a}
      BY <3>1
    <3>4. /\ u \in Seq({a})
          /\ Len(u) = IF lo <= hi THEN hi - lo + 1 ELSE 0
      BY <3>1, <3>3, SubSeqProperties
    <3>5. d \in Seq({a}) /\ Len(d) = size[k] /\ \A y \in 1..size[k] : d[y] = a
      BY <2>1
    <3>6. Len(u) = size[k]
      BY <2>5, <3>4
    <3>. HIDE DEF u, d
    <3>7. \A y \in 1..size[k] : u[y] = a
      BY <3>4, <3>6, ElementOfSeq
    <3>8. u = d
      BY <3>4, <3>5, <3>6, <3>7, SeqEqual
    <3>. QED
      BY <3>2, <3>8 DEF u, w
  <2>. QED
    BY <2>5, <2>7
<1>11. K!DataWhole'
  BY <1>10 DEF K!DataWhole, K!Data
<1>. QED
  BY <1>7, <1>8, <1>11 DEF Sentence, K!NL

LEMMA LiteralStep ==
  ASSUME KlineState, K!kline_literal
  PROVE  KlineState'
<1>1. MSGLENMAX \in Nat /\ MSGLENMAX > 2
  BY RoutinesConfig DEF K!KlineConfig
<1>2. /\ Written /\ kpc = "loop" /\ K!At(kpos) # "NUL" /\ K!At(kpos) # "%"
      /\ len < MSGLENMAX - 2 /\ kpc' = kpc /\ tokens' = tokens /\ size' = size
      /\ len' = len + 1 /\ kpos' = kpos + 1
      /\ message' = [message EXCEPT ![len] = K!Lit(K!At(kpos)), ![len + 1] = K!NUL]
  BY DEF KlineState, K!kline_literal, K!Loop
<1>3. PICK off, j : Round(off, j) /\ Copied(j)
  BY DEF KlineState
<1>4. /\ Len(tokens) \in Nat /\ j \in 1..Len(tokens) /\ j + 1 \in 1..(Len(tokens) + 1)
      /\ Len(tokens[j]) = 1 /\ K!At(kpos) = tokens[j][1] /\ off[j + 1] = kpos + 1
  BY <1>2, <1>3, AtToken
<1>5. /\ len \in Nat /\ len \in 0..(MSGLENMAX - 1) /\ len + 1 \in 0..(MSGLENMAX - 1)
      /\ message = [x \in 0..(MSGLENMAX - 1) |-> message[x]]
      /\ \A x \in 0..(len - 1) : message[x] # K!NUL
  BY <1>2, Room
<1>6. /\ message' = [x \in 0..(MSGLENMAX - 1) |-> message'[x]]
      /\ message'[len + 1] = K!NUL /\ message'[len] = K!Lit(K!At(kpos))
      /\ \A x \in 0..(len - 1) : message'[x] = message[x]
      /\ \A x \in (len + 1)..(MSGLENMAX - 1) : message'[x] \in {K!NUL, message[x]}
  <2> DEFINE a == K!Lit(K!At(kpos))
             b == K!NUL
  <2>. HIDE DEF a, b
  <2>1. message' = [message EXCEPT ![len] = a, ![len + 1] = b]
    BY <1>2 DEF a, b
  <2>2. \A x \in 0..(len - 1) : x \in 0..(MSGLENMAX - 1) /\ x # len /\ x # len + 1
    BY <1>1, <1>5
  <2>3. len # len + 1
    BY <1>5
  <2>4. \A x \in (len + 1)..(MSGLENMAX - 1) : x \in 0..(MSGLENMAX - 1) /\ x # len
    BY <1>1, <1>5
  <2>5. \A x \in (len + 1)..(MSGLENMAX - 1) : message'[x] \in {b, message[x]}
    BY <1>5, <2>1, <2>4
  <2>. QED
    BY <1>5, <2>1, <2>2, <2>3, <2>5 DEF a, b
<1>7. Written'
  <2>1. \A x \in 0..((len + 1) - 1) : x = len \/ x \in 0..(len - 1)
    BY <1>5
  <2>2. \A x \in 0..((len + 1) - 1) : message'[x] # K!NUL
    BY <1>5, <1>6, <2>1, BytesDiffer
  <2>. QED
    BY <1>2, <1>5, <1>6, <2>2 DEF Written, K!NUL
<1>8. Round(off, j + 1)'
  <2>1. K!Terminated(j + 1)
    BY <1>4, TerminatedStep
  <2>2. /\ K!Terminated(j + 1)' /\ K!format' = K!format
    BY <1>2, <2>1, SameFormat
  <2>3. message'[len'] = K!NUL
    BY <1>2, <1>6
  <2>4. Layout(tokens, K!format, off)
    BY <1>3 DEF Round
  <2>. QED
    BY <1>2, <1>4, <2>2, <2>3, <2>4 DEF Round, K!NUL
<1>9. Copied(j + 1)'
  <2> DEFINE b == K!Meaning(tokens[j])
  <2>1. Len(b) = 1 /\ b[1] = K!Lit(K!At(kpos))
    <3>1. tokens[j] \in K!Tokens /\ size \in [Keys -> Nat]
      BY <1>2, <1>4, MeaningsTyped DEF Written
    <3>. QED
      BY <1>4, <3>1, MeaningIs
  <2>2. \A x \in 1..1 : message'[len + (x - 1)] = b[x]
    <3>1. \A x \in 1..1 : x = 1 /\ len + (x - 1) = len
      BY <1>5
    <3>. QED
      BY <1>6, <2>1, <3>1
  <2>3. \A x \in (len + 1)..(MSGLENMAX - 1) : message'[x] \in {K!NUL, K!Junk}
    <3>1. \A x \in (len + 1)..(MSGLENMAX - 1) : x \in len..(MSGLENMAX - 1)
      BY <1>5
    <3>. QED
      BY <1>3, <1>6, <3>1 DEF Copied
  <2>. HIDE DEF b
  <2>4. b = K!Meaning(tokens[j]) /\ len' = len + Len(b)
    BY <1>2, <2>1 DEF b
  <2>5. /\ \A x \in 1..Len(b) : message'[len + (x - 1)] = b[x]
        /\ \A x \in (len + Len(b))..(MSGLENMAX - 1) : message'[x] \in {K!NUL, K!Junk}
    BY <2>1, <2>2, <2>3
  <2>6. \A x \in 0..(len - 1) : message'[x] = message[x]
    BY <1>6
  <2>7. /\ Written /\ Written' /\ tokens' = tokens /\ size' = size
        /\ j \in 1..Len(tokens) /\ Copied(j)
    BY <1>2, <1>3, <1>4, <1>7
  <2>. QED
    BY <2>4, <2>5, <2>6, <2>7, Wrote
<1>. QED
  BY <1>2, <1>7, <1>8, <1>9 DEF KlineState

LEMMA EscapeStep ==
  ASSUME KlineState, K!kline_escape
  PROVE  KlineState'
<1>1. MSGLENMAX \in Nat /\ MSGLENMAX > 2
  BY RoutinesConfig DEF K!KlineConfig
<1>2. /\ Written /\ kpc = "loop" /\ K!At(kpos) # "NUL"
      /\ K!At(kpos) = "%" /\ K!At(kpos + 1) = "%"
      /\ len < MSGLENMAX - 2 /\ kpc' = kpc /\ tokens' = tokens /\ size' = size
      /\ len' = len + 1 /\ kpos' = kpos + 2
      /\ message' = [message EXCEPT ![len] = K!Lit("%")]
  BY DEF KlineState, K!kline_escape, K!Loop
<1>3. PICK off, j : Round(off, j) /\ Copied(j)
  BY DEF KlineState
<1>4. /\ Len(tokens) \in Nat /\ j \in 1..Len(tokens) /\ j + 1 \in 1..(Len(tokens) + 1)
      /\ tokens[j] = <<"%", "%">> /\ off[j + 1] = kpos + 2
  BY <1>2, <1>3, AtToken
<1>5. /\ len \in Nat /\ len \in 0..(MSGLENMAX - 1) /\ len + 1 \in 0..(MSGLENMAX - 1)
      /\ message = [x \in 0..(MSGLENMAX - 1) |-> message[x]]
      /\ \A x \in 0..(len - 1) : message[x] # K!NUL
  BY <1>2, Room
<1>6. /\ message' = [x \in 0..(MSGLENMAX - 1) |-> message'[x]]
      /\ message'[len] = K!Lit("%")
      /\ \A x \in 0..(len - 1) : message'[x] = message[x]
      /\ \A x \in (len + 1)..(MSGLENMAX - 1) : message'[x] = message[x]
  <2> DEFINE a == K!Lit("%")
  <2>. HIDE DEF a
  <2>1. message' = [message EXCEPT ![len] = a]
    BY <1>2 DEF a
  <2>2. \A x \in 0..(len - 1) : x \in 0..(MSGLENMAX - 1) /\ x # len
    BY <1>1, <1>5
  <2>3. \A x \in (len + 1)..(MSGLENMAX - 1) : x \in 0..(MSGLENMAX - 1) /\ x # len
    BY <1>1, <1>5
  <2>. QED
    BY <1>5, <2>1, <2>2, <2>3 DEF a
<1>7. Written'
  <2>1. \A x \in 0..((len + 1) - 1) : x = len \/ x \in 0..(len - 1)
    BY <1>5
  <2>2. \A x \in 0..((len + 1) - 1) : message'[x] # K!NUL
    BY <1>5, <1>6, <2>1, BytesDiffer
  <2>. QED
    BY <1>2, <1>5, <1>6, <2>2 DEF Written, K!NUL
<1>8. Round(off, j + 1)'
  <2>1. ~ K!Terminated(j + 1)
    BY <1>4, TerminatedStep
  <2>2. ~ K!Terminated(j + 1)' /\ K!format' = K!format
    BY <1>2, <2>1, SameFormat
  <2>3. Layout(tokens, K!format, off)
    BY <1>3 DEF Round
  <2>4. j + 1 > 1 /\ (j + 1) - 1 = j /\ (len + 1 >= MSGLENMAX - 2 => len + 1 = MSGLENMAX - 2)
    BY <1>1, <1>2, <1>4, <1>5
  <2>. QED
    BY <1>2, <1>4, <2>2, <2>3, <2>4 DEF Round
<1>9. Copied(j + 1)'
  <2> DEFINE b == K!Meaning(tokens[j])
  <2>1. Len(b) = 1 /\ b[1] = K!Lit("%")
    <3>1. tokens[j] \in K!Tokens /\ size \in [Keys -> Nat]
      BY <1>2, <1>4, MeaningsTyped DEF Written
    <3>. QED
      BY <1>4, <3>1, MeaningIs
  <2>2. \A x \in 1..1 : message'[len + (x - 1)] = b[x]
    <3>1. \A x \in 1..1 : x = 1 /\ len + (x - 1) = len
      BY <1>5
    <3>. QED
      BY <1>6, <2>1, <3>1
  <2>3. \A x \in (len + 1)..(MSGLENMAX - 1) : message'[x] \in {K!NUL, K!Junk}
    <3>1. \A x \in (len + 1)..(MSGLENMAX - 1) : x \in len..(MSGLENMAX - 1)
      BY <1>5
    <3>. QED
      BY <1>3, <1>6, <3>1 DEF Copied
  <2>. HIDE DEF b
  <2>4. b = K!Meaning(tokens[j]) /\ len' = len + Len(b)
    BY <1>2, <2>1 DEF b
  <2>5. /\ \A x \in 1..Len(b) : message'[len + (x - 1)] = b[x]
        /\ \A x \in (len + Len(b))..(MSGLENMAX - 1) : message'[x] \in {K!NUL, K!Junk}
    BY <2>1, <2>2, <2>3
  <2>6. \A x \in 0..(len - 1) : message'[x] = message[x]
    BY <1>6
  <2>7. /\ Written /\ Written' /\ tokens' = tokens /\ size' = size
        /\ j \in 1..Len(tokens) /\ Copied(j)
    BY <1>2, <1>3, <1>4, <1>7
  <2>. QED
    BY <2>4, <2>5, <2>6, <2>7, Wrote
<1>. QED
  BY <1>2, <1>7, <1>8, <1>9 DEF KlineState

\* The format has a literal before the key and no "%%" since, so strcat finds
\* the end of the message where the bytes written end, and room for the data.
LEMMA KeyStep ==
  ASSUME KlineState, K!Supported, NEW k \in Keys, K!kline_key(k)
  PROVE  KlineState'
<1>1. MSGLENMAX \in Nat /\ MSGLENMAX > 2 /\ k # "%"
  BY RoutinesConfig DEF K!KlineConfig
<1>2. /\ Written /\ kpc = "loop" /\ K!At(kpos) # "NUL"
      /\ K!At(kpos) = "%" /\ K!At(kpos + 1) = k
      /\ len < MSGLENMAX - 2 /\ tokens' = tokens /\ size' = size /\ kpos' = kpos + 2
      /\ IF K!Fits(k) THEN K!strcat(k) /\ len' = len + size[k]
         ELSE UNCHANGED <<message, len, kpc>>
  BY DEF KlineState, K!kline_key, K!Loop
<1>3. PICK off, j : Round(off, j) /\ Copied(j)
  BY DEF KlineState
<1>4. /\ Len(tokens) \in Nat /\ j \in 1..Len(tokens) /\ j + 1 \in 1..(Len(tokens) + 1)
      /\ tokens[j] = <<"%", k>> /\ off[j + 1] = kpos + 2
  BY <1>2, <1>3, AtToken
<1>5. /\ len \in Nat /\ len \in 0..(MSGLENMAX - 1) /\ size[k] \in Nat
      /\ message = [x \in 0..(MSGLENMAX - 1) |-> message[x]]
      /\ \A x \in 0..(len - 1) : message[x] # K!NUL
  <2>1. size[k] \in Nat
    BY <1>2 DEF Written
  <2>. QED
    BY <1>2, <2>1, Room
<1>6. K!Terminated(j) /\ K!Terminated(j + 1)
  <2>1. j \in DOMAIN tokens
    BY <1>2, <1>4, LenProperties DEF Written
  <2>2. K!Terminated(j)
    BY <1>4, <2>1 DEF K!Supported
  <2>3. Len(tokens[j]) # 1 /\ tokens[j] # <<"%", "%">>
    BY <1>1, <1>4
  <2>. QED
    BY <1>4, <2>2, <2>3, TerminatedStep
<1>7. message[len] = K!NUL /\ K!strlen = len
  BY <1>2, <1>3, <1>6, StrlenIs DEF Round
<1>8. Written' /\ kpc' = "loop" /\ message'[len'] = K!NUL /\ Copied(j + 1)'
  <2>1. CASE K!Fits(k)
    <3>1. len + size[k] \in 0..(MSGLENMAX - 1) /\ len + size[k] < MSGLENMAX
      BY <1>1, <1>5, <2>1 DEF K!Fits
    <3>2. /\ kpc' = kpc /\ len' = len + size[k]
          /\ message' = [x \in DOMAIN message |->
                           IF x < len THEN message[x]
                           ELSE IF x < len + size[k] THEN <<"data", k>>
                           ELSE IF x = len + size[k] THEN K!NUL ELSE message[x]]
      BY <1>2, <1>7, <2>1, <3>1 DEF K!strcat
    <3>3. DOMAIN message = 0..(MSGLENMAX - 1)
      BY <1>5
    <3>4. /\ message' = [x \in 0..(MSGLENMAX - 1) |-> message'[x]]
          /\ \A x \in 0..(MSGLENMAX - 1) :
               message'[x] = IF x < len THEN message[x]
                             ELSE IF x < len + size[k] THEN <<"data", k>>
                             ELSE IF x = len + size[k] THEN K!NUL ELSE message[x]
      BY <3>2, <3>3
    <3>5. message'[len'] = K!NUL
      <4>1. ~ (len + size[k] < len) /\ ~ (len + size[k] < len + size[k])
        BY <1>5
      <4>. QED
        BY <3>1, <3>2, <3>4, <4>1
    <3>6. ASSUME NEW x \in 0..((len + size[k]) - 1)
          PROVE  message'[x] # K!NUL
      <4>1. x \in 0..(MSGLENMAX - 1) /\ x < len + size[k] /\ (x < len => x \in 0..(len - 1))
        BY <1>1, <1>5, <3>1
      <4>2. CASE x < len
        BY <1>5, <3>4, <4>1, <4>2
      <4>3. CASE ~ (x < len)
        <5>1. message'[x] = <<"data", k>>
          BY <3>4, <4>1, <4>3
        <5>. QED
          BY <5>1, BytesDiffer
      <4>. QED
        BY <4>2, <4>3
    <3>7. Written'
      BY <1>2, <3>1, <3>2, <3>4, <3>6 DEF Written, K!NUL
    <3>8. Copied(j + 1)'
      <4> DEFINE b == K!Meaning(tokens[j])
      <4>1. Len(b) = size[k] /\ \A x \in 1..size[k] : b[x] = <<"data", k>>
        <5>1. tokens[j] \in K!Tokens /\ size \in [Keys -> Nat]
          BY <1>2, <1>4, MeaningsTyped DEF Written
        <5>. QED
          BY <1>4, <5>1, MeaningIs
      <4>2. \A x \in 0..(len - 1) : message'[x] = message[x]
        <5>1. \A x \in 0..(len - 1) : x \in 0..(MSGLENMAX - 1) /\ x < len
          BY <1>1, <1>5
        <5>. QED
          BY <3>4, <5>1
      <4>3. ASSUME NEW x \in 1..size[k]
            PROVE  message'[len + (x - 1)] = b[x]
        <5>1. /\ len + (x - 1) \in 0..(MSGLENMAX - 1) /\ ~ (len + (x - 1) < len)
              /\ len + (x - 1) < len + size[k]
          BY <1>1, <1>5, <3>1
        <5>2. message'[len + (x - 1)] = <<"data", k>>
          BY <3>4, <5>1
        <5>. QED
          BY <4>1, <5>2
      <4>4. ASSUME NEW x \in (len + size[k])..(MSGLENMAX - 1)
            PROVE  message'[x] \in {K!NUL, K!Junk}
        <5>1. /\ x \in 0..(MSGLENMAX - 1) /\ ~ (x < len) /\ ~ (x < len + size[k])
              /\ x \in len..(MSGLENMAX - 1)
          BY <1>1, <1>5
        <5>2. message[x] \in {K!NUL, K!Junk}
          BY <1>3, <5>1 DEF Copied
        <5>3. message'[x] \in {K!NUL, message[x]}
          BY <3>4, <5>1
        <5>. QED
          BY <5>2, <5>3
      <4>. HIDE DEF b
      <4>5. b = K!Meaning(tokens[j]) /\ len' = len + Len(b)
        BY <3>2, <4>1 DEF b
      <4>. QED
        BY <1>2, <1>3, <1>4, <3>7, <4>1, <4>2, <4>3, <4>4, <4>5, Wrote
    <3>. QED
      BY <1>2, <3>2, <3>5, <3>7, <3>8
  <2>2. CASE ~ K!Fits(k)
    <3>1. message' = message /\ len' = len /\ kpc' = kpc
      BY <1>2, <2>2
    <3>2. len + size[k] > MSGLENMAX - 1
      BY <1>1, <1>5, <2>2 DEF K!Fits
    <3>3. Copied(j + 1)'
      BY <1>2, <1>3, <1>4, <3>1, <3>2, LeftOut
    <3>. QED
      BY <1>2, <1>7, <3>1, <3>3 DEF Written, K!NUL
  <2>. QED
    BY <2>1, <2>2
<1>9. Round(off, j + 1)'
  <2>1. K!Terminated(j + 1)' /\ K!format' = K!format
    BY <1>2, <1>6, SameFormat
  <2>2. Layout(tokens, K!format, off)
    BY <1>3 DEF Round
  <2>. QED
    BY <1>2, <1>4, <1>8, <2>1, <2>2 DEF Round, K!NUL
<1>. QED
  BY <1>8, <1>9 DEF KlineState

LEMMA UnknownStep ==
  ASSUME KlineState, K!kline_unknown
  PROVE  KlineState'
<1>1. MSGLENMAX \in Nat /\ MSGLENMAX > 2
  BY RoutinesConfig DEF K!KlineConfig
<1>2. /\ Written /\ kpc = "loop" /\ K!At(kpos) # "NUL"
      /\ K!At(kpos) = "%" /\ K!At(kpos + 1) \notin Keys \cup {"%"} /\ len < MSGLENMAX - 2
      /\ kpos' = kpos + 2 /\ UNCHANGED <<tokens, size, message, len, kpc>>
  BY DEF KlineState, K!kline_unknown, K!Loop
<1>3. PICK off, j : Round(off, j) /\ Copied(j)
  BY DEF KlineState
<1>4. /\ Len(tokens) \in Nat /\ j \in 1..Len(tokens) /\ j + 1 \in 1..(Len(tokens) + 1)
      /\ tokens[j] = <<"%", K!At(kpos + 1)>> /\ off[j + 1] = kpos + 2
  BY <1>2, <1>3, AtToken
<1>5. Len(tokens[j]) # 1 /\ tokens[j] # <<"%", "%">>
  BY <1>2, <1>4
<1>6. K!Terminated(j + 1)' <=> K!Terminated(j)
  BY <1>2, <1>4, <1>5, TerminatedStep, SameFormat
<1>7. Written' /\ K!format' = K!format
  BY <1>2, SameFormat DEF Written, K!NUL
<1>8. Round(off, j + 1)'
  <2>1. ~ (len >= MSGLENMAX - 2)
    BY <1>1, <1>2 DEF Written
  <2>2. Layout(tokens, K!format, off) /\ (K!Terminated(j) => message[len] = K!NUL)
    BY <1>3 DEF Round
  <2>. QED
    BY <1>2, <1>4, <1>6, <1>7, <2>1, <2>2 DEF Round, K!NUL
<1>9. Copied(j + 1)'
  <2> DEFINE b == K!Meaning(tokens[j])
  <2>1. Len(b) = 0
    <3>1. tokens[j] \in K!Tokens /\ size \in [Keys -> Nat]
      BY <1>2, <1>4, MeaningsTyped DEF Written
    <3>2. tokens[j][2] \notin Keys \cup {"%"}
      BY <1>2, <1>4
    <3>. QED
      BY <1>5, <3>1, <3>2, MeaningIs
  <2>2. len \in Nat /\ \A x \in len..(MSGLENMAX - 1) : message[x] \in {K!NUL, K!Junk}
    BY <1>2, <1>3, Room DEF Copied
  <2>. HIDE DEF b
  <2>3. b = K!Meaning(tokens[j]) /\ len' = len + Len(b) /\ len + Len(b) = len
    BY <1>2, <2>1, <2>2 DEF b
  <2>4. \A x \in 1..Len(b) : FALSE
    BY <2>1
  <2>. QED
    BY <1>2, <1>3, <1>4, <1>7, <2>2, <2>3, <2>4, Wrote
<1>. QED
  BY <1>2, <1>7, <1>8, <1>9 DEF KlineState

\* While message, format and data stay, so does what has been copied.
LEMMA SameCopied ==
  ASSUME UNCHANGED <<tokens, size, message, len>>, NEW j, Copied(j)
  PROVE  Copied(j)'
<1>1. Meanings' = Meanings /\ K!Expansion' = K!Expansion
  BY DEF Meanings, K!Expansion, K!Meaning, K!Data, K!Lit
<1>2. Whole'
  BY DEF Copied, Whole
<1>3. (\A e : Layout(Meanings, K!Expansion, e) => Said(e, j))'
  BY <1>1 DEF Copied, Layout, Said
<1>. QED
  BY <1>2, <1>3 DEF Copied, K!NUL, K!Junk

\* The loop ends with the format or for want of room.
LEMMA DoneStep ==
  ASSUME KlineState, K!kline_done
  PROVE  KlineState'
<1>1. /\ Written /\ kpc = "loop" /\ kpc' = "send"
      /\ K!At(kpos) = "NUL" \/ len >= MSGLENMAX - 2
      /\ UNCHANGED <<tokens, size, message, kpos, len>>
  BY DEF KlineState, K!kline_done
<1>2. PICK off, j : Round(off, j) /\ Copied(j)
  BY DEF KlineState
<1>3. j = Len(tokens) + 1 \/ len >= MSGLENMAX - 2
  BY <1>1, <1>2, AtToken
<1>4. K!format' = K!format /\ \A x : K!Terminated(x)' <=> K!Terminated(x)
  BY <1>1, SameFormat
<1>5. Round(off, j)'
  BY <1>1, <1>2, <1>3, <1>4 DEF Round, K!NUL
<1>6. Copied(j)'
  BY <1>1, <1>2, SameCopied
<1>. QED
  BY <1>1, <1>5, <1>6 DEF KlineState, Written, K!NUL

\* irc_send finds the end of the message, or the loop ended after a "%%".
LEMMA SendStep ==
  ASSUME KlineState, K!Supported, K!irc_send
  PROVE  KlineState'
<1>1. MSGLENMAX \in Nat /\ MSGLENMAX > 2
  BY RoutinesConfig DEF K!KlineConfig
<1>2. /\ Written /\ kpc = "send" /\ UNCHANGED <<tokens, size, message, kpos, len>>
      /\ kpc' \in {"sent", "lost"} \/ (kpc' = "undefined" /\ ~ (K!strlen < MSGLENMAX))
  BY DEF KlineState, K!irc_send
<1>3. PICK off, j : Round(off, j) /\ Copied(j)
  BY DEF KlineState
<1>4. /\ K!format' = K!format
      /\ \A x : K!Terminated(x)' <=> K!Terminated(x)
      /\ \A p : K!At(p)' = K!At(p)
  BY <1>2, SameFormat
<1>5. Written' /\ Round(off, j)'
  BY <1>2, <1>3, <1>4 DEF Written, Round, K!NUL
<1>6. ASSUME ~ (K!strlen < MSGLENMAX)
      PROVE  K!CutAtEscape
  <2>1. len \in 0..(MSGLENMAX - 1) /\ len < MSGLENMAX
    BY <1>1, <1>2 DEF Written
  <2>2. ~ K!Terminated(j)
    BY <1>2, <1>3, <1>6, <2>1, StrlenIs DEF Round
  <2>3. j # Len(tokens) + 1
    BY <2>2 DEF K!Supported
  <2>4. len = MSGLENMAX - 2 /\ j > 1 /\ tokens[j - 1] = <<"%", "%">>
    BY <1>2, <1>3, <2>2, <2>3 DEF Round
  <2>5. /\ Len(tokens) \in Nat /\ kpos \in Nat /\ j \in 1..Len(tokens)
        /\ K!At(kpos) # "NUL" /\ kpos = off[j]
    BY <1>2, <1>3, <2>3, AtToken DEF Round
  <2>6. /\ Layout(tokens, K!format, off) /\ (j - 1) + 1 = j
        /\ j - 1 \in 1..Len(tokens) /\ j - 1 \in 1..(Len(tokens) + 1)
    BY <1>3, <2>4, <2>5 DEF Round
  <2>7. /\ off[j - 1] \in Nat /\ kpos = off[j - 1] + 2 /\ kpos <= Len(K!format)
        /\ \A x \in 1..2 : K!format[off[j - 1] + x] = <<"%", "%">>[x]
    <3>1. Len(tokens[j - 1]) = 2
      BY <2>4
    <3>. QED
      BY <2>4, <2>5, <2>6, <3>1 DEF Layout
  <2>8. /\ kpos - 2 = off[j - 1] /\ kpos - 1 = off[j - 1] + 1 /\ kpos >= 2
        /\ kpos - 2 < Len(K!format) /\ kpos - 1 < Len(K!format)
        /\ (kpos - 2) + 1 = off[j - 1] + 1 /\ (kpos - 1) + 1 = off[j - 1] + 2
        /\ Len(K!format) \in Nat
    <3>1. Len(K!format) \in Nat
      <4>1. Len(tokens) + 1 \in 1..(Len(tokens) + 1)
        BY <2>5
      <4>. QED
        BY <2>6, <4>1 DEF Layout
    <3>2. /\ off[j - 1] \in Nat /\ kpos \in Nat
          /\ kpos = off[j - 1] + 2 /\ kpos <= Len(K!format)
      BY <2>5, <2>7
    <3>. QED
      BY <3>1, <3>2
  <2>9. K!At(kpos - 2) = "%" /\ K!At(kpos - 1) = "%"
    BY <2>7, <2>8 DEF K!At
  <2>. QED
    BY <2>4, <2>5, <2>8, <2>9 DEF K!CutAtEscape
<1>7. kpc' = "undefined" => K!CutAtEscape'
  BY <1>2, <1>4, <1>6 DEF K!CutAtEscape
<1>8. Copied(j)'
  BY <1>2, <1>3, SameCopied
<1>9. kpc' = "sent" => Sentence'
  <2>1. SUFFICES ASSUME kpc' = "sent"
                 PROVE  Sentence'
    OBVIOUS
  <2>2. /\ K!strlen < MSGLENMAX
        /\ wire' = K!tosend([x \in 1..K!strlen |-> message[x - 1]])
    BY <2>1 DEF K!irc_send
  <2>. QED
    BY <1>2, <1>3, <2>2, SendsIt
<1>. QED
  BY <1>5, <1>7, <1>8, <1>9 DEF KlineState

\* With a format that does not end in a single "%".
LEMMA KlineBegins ==
  ASSUME K!Init, K!Supported
  PROVE  KlineState
<1>1. MSGLENMAX \in Nat /\ MSGLENMAX > 2 /\ DataSizes \subseteq Nat
  BY RoutinesConfig DEF K!KlineConfig
<1>2. PICK k \in 0..MaxTokens : \E t \in [1..k -> K!Tokens] :
        tokens \in {t} \cup (IF Trailing THEN {Append(t, <<"%">>)} ELSE {})
  BY DEF K!Init
<1>3. PICK t \in [1..k -> K!Tokens] : tokens = t \/ tokens = Append(t, <<"%">>)
  BY <1>2
<1>4. t \in Seq(K!Tokens)
  <2>1. k \in Nat
    BY RoutinesConfig DEF K!KlineConfig
  <2>. QED
    BY <1>2, <2>1
<1>5. tokens = t
  <2>1. ASSUME tokens = Append(t, <<"%">>)
        PROVE  FALSE
    <3> DEFINE T == K!Tokens \cup {<<"%">>}
    <3>1. t \in Seq(T) /\ <<"%">> \in T
      BY <1>4
    <3>. HIDE DEF T
    <3>2. /\ tokens \in Seq(T) /\ Len(t) \in Nat
          /\ Len(tokens) = Len(t) + 1 /\ tokens[Len(t) + 1] = <<"%">>
      BY <2>1, <3>1, AppendProperties, LenProperties
    <3>3. Len(t) + 1 \in DOMAIN tokens
      BY <3>2, LenProperties
    <3>4. <<"%">> \in K!ToSet(tokens)
      BY <3>2, <3>3 DEF K!ToSet
    <3>. QED
      BY <3>4 DEF K!Supported
  <2>. QED
    BY <1>3, <2>1
<1>6. /\ size \in [Keys -> Nat] /\ kpos = 0 /\ len = 0 /\ kpc = "loop"
      /\ message = [x \in 0..(MSGLENMAX - 1) |-> message[x]]
  BY <1>1 DEF K!Init
<1>7. Written
  <2>1. 0 \in 0..(MSGLENMAX - 1) /\ \A x \in 0..(0 - 1) : FALSE
    BY <1>1
  <2>. QED
    BY <1>4, <1>5, <1>6, <2>1 DEF Written
<1>8. PICK off : Layout(tokens, K!format, off)
  <2> DEFINE C == {"%"} \cup Literals \cup Keys
  <2>1. \A x \in K!Tokens : x \in Seq(C)
    BY TokenFacts
  <2>2. Len(tokens) \in Nat /\ tokens \in Seq(Seq(C))
    <3>. HIDE DEF C
    <3>. QED
      BY <1>4, <1>5, <2>1, LenProperties
  <2>. QED
    BY <2>2, FlattenLayout DEF K!format
<1>9. Round(off, 1)
  <2>1. Len(tokens) \in Nat
    BY <1>4, <1>5, LenProperties
  <2>2. 1 \in 1..(Len(tokens) + 1) /\ off[1] = 0
    BY <1>8, <2>1 DEF Layout
  <2>3. \A x \in 1..(1 - 1) : FALSE
    OBVIOUS
  <2>4. ~ K!Terminated(1)
    BY <2>3 DEF K!Terminated
  <2>5. ~ (0 >= MSGLENMAX - 2)
    BY <1>1
  <2>. QED
    BY <1>6, <1>8, <2>2, <2>4, <2>5 DEF Round
<1>10. Copied(1)
  <2>1. \A x \in 0..(MSGLENMAX - 1) : message[x] \in {K!NUL, K!Junk}
    BY DEF K!Init
  <2>2. 0 - 1 < 0 /\ (\A x \in 0..(0 - 1) : FALSE) /\ (\A x \in 1..0 : FALSE)
    OBVIOUS
  <2>3. Whole
    BY <1>6, <2>2 DEF Whole
  <2>4. \A e : Layout(Meanings, K!Expansion, e) => Said(e, 1)
    BY <1>6, <2>2 DEF Layout, Said
  <2>. QED
    BY <1>6, <2>1, <2>3, <2>4 DEF Copied
<1>. QED
  BY <1>6, <1>7, <1>9, <1>10 DEF KlineState

LEMMA KlineSame ==
  ASSUME KlineInv, UNCHANGED <<routine, klineVars>>
  PROVE  KlineInv'
<1>1. UNCHANGED <<routine, tokens, size, message, kpos, len, kpc, wire>>
  BY DEF klineVars
<1>2. /\ K!Supported' <=> K!Supported
      /\ \A x : K!Terminated(x)' <=> K!Terminated(x)
      /\ \A p : K!At(p)' = K!At(p)
      /\ K!format' = K!format
  BY <1>1, SameFormat
<1>3. KlineState => KlineState'
  <2>1. Written => Written'
    BY <1>1 DEF Written, K!NUL
  <2>2. ASSUME NEW off, NEW j, Round(off, j)
        PROVE  Round(off, j)'
    BY <1>1, <1>2, <2>2 DEF Round, K!NUL
  <2>3. K!CutAtEscape => K!CutAtEscape'
    BY <1>1, <1>2 DEF K!CutAtEscape
  <2>4. Sentence => Sentence'
    <3>1. K!Expansion' = K!Expansion
      BY <1>1 DEF K!Expansion, K!Meaning, K!Data, K!Lit
    <3>2. K!DataWhole => K!DataWhole'
      BY <1>1 DEF K!DataWhole, K!Data
    <3>. QED
      BY <1>1, <3>1, <3>2 DEF Sentence, K!NL
  <2>5. \A j : Copied(j) => Copied(j)'
    BY <1>1, SameCopied
  <2>. QED
    BY <1>1, <2>1, <2>2, <2>3, <2>4, <2>5 DEF KlineState
<1>. QED
  BY <1>1, <1>2, <1>3 DEF KlineInv

LEMMA KlineAlways == Spec => []KlineInv
<1>1. Init => KlineInv
  BY KlineBegins DEF Init, KlineInv, NoKline
<1>2. ASSUME KlineInv, [Next]_vars
      PROVE  KlineInv'
  <2>1. CASE KlineNext
    <3>1. SUFFICES ASSUME K!Supported'
                   PROVE  KlineState'
      BY <2>1 DEF KlineNext, KlineInv
    <3>2. routine = "kline" /\ K!Next /\ tokens' = tokens
      BY <2>1 DEF KlineNext, K!Next, K!Round, K!kline_literal, K!kline_escape, K!kline_key,
                  K!kline_unknown, K!kline_last_percent, K!vars, K!kline_done, K!irc_send
    <3>3. K!Supported /\ KlineState
      BY <1>2, <3>1, <3>2, SameFormat DEF KlineInv
    <3>4. CASE K!kline_last_percent
      <4>1. UNCHANGED <<routine, klineVars>>
        BY <2>1, <3>4 DEF KlineNext, klineVars, K!kline_last_percent, K!vars
      <4>2. KlineInv' /\ routine' = routine
        BY <1>2, <4>1, KlineSame
      <4>. QED
        BY <3>1, <3>2, <4>2 DEF KlineInv
    <3>. QED
      BY <3>2, <3>3, <3>4, LiteralStep, EscapeStep, KeyStep, UnknownStep, DoneStep, SendStep
         DEF K!Next, K!Round
  <2>2. CASE UNCHANGED <<routine, klineVars>>
    BY <1>2, <2>2, KlineSame
  <2>. QED
    BY <1>2, <2>1, <2>2 DEF Next, ListNext, MatchNext, ReplyNext, ParseNext, vars
<1>. QED
  BY <1>1, <1>2, PTL DEF Spec

\* For a format of any length, data of any length and a buffer of any size,
\* scan_irckline does not write behind its message, and strcat and irc_send find
\* the end of it, unless the loop ended for want of room right after a "%%".
THEOREM KlineStaysInBuffer == Spec => []InBuffer
<1>1. MSGLENMAX \in Nat /\ MSGLENMAX > 2
  BY RoutinesConfig DEF K!KlineConfig
<1>2. KlineInv => InBuffer
  <2>1. CASE routine = "kline"
    <3>1. len \in 0..(MSGLENMAX - 1) => len < MSGLENMAX
      BY <1>1
    <3>. QED
      BY <2>1, <3>1 DEF KlineInv, KlineState, Written, InBuffer, K!InBuffer
  <2>2. CASE routine # "kline"
    BY <1>1, <2>2 DEF KlineInv, InBuffer, K!InBuffer
  <2>. QED
    BY <2>1, <2>2
<1>. QED
  BY <1>2, KlineAlways, PTL

\* A KLINE that leaves room for the end of line is sent as the format says, and
\* one that does not fit holds each address and host as a whole or not at all
\* (scan.c, irc.c): for formats, data and buffers of any length.
THEOREM KlineAsWritten == Spec => []KlineIsExpansion
<1>1. KlineInv => KlineIsExpansion
  BY DEF KlineInv, KlineState, Sentence, KlineIsExpansion, K!KlineIsExpansion
<1>. QED
  BY <1>1, KlineAlways, PTL

-----------------------------------------------------------------------------
(* dnsbl_positive: the strings *)

\* An entry that is in the configuration, and the characters of a text.
Entries == [number : Numbers, length : NameLengths]
Letters == {<<"name", x>> : x \in DOMAIN reply} \cup {D!COMMA, <<" ", 0>>}

ReplyTyped ==
  /\ type \in {"A_BITMASK", "A_REPLY"} /\ ban_unknown \in BOOLEAN
  /\ reply \in Seq(Entries) /\ octet \in 0..(2^W - 1)
  /\ i \in 1..(Len(reply) + 1)

LEMMA ReplyFacts ==
  ASSUME ReplyTyped
  PROVE  /\ Len(reply) \in Nat /\ DOMAIN reply = 1..Len(reply)
         /\ TEXTMAX \in Nat /\ TEXTMAX > 4
         /\ 2^W \in Nat \ {0} /\ 2^(W - 1) \in Nat \ {0}
         /\ \A x \in 1..Len(reply) : /\ reply[x].length \in Nat \ {0}
                                     /\ reply[x].number \in 0..(2^W - 1)
<1>1. /\ W \in Nat \ {0} /\ \A k \in 0..W : 2^k \in Nat \ {0}
      /\ TEXTMAX \in Nat /\ TEXTMAX > 4
      /\ Numbers \subseteq 0..(2^W - 1) /\ NameLengths \subseteq Nat \ {0}
  BY RoutinesConfig DEF D!DnsblConfig
<1>2. W \in 0..W /\ W - 1 \in 0..W
  BY <1>1
<1>3. Len(reply) \in Nat /\ DOMAIN reply = 1..Len(reply)
  BY LenProperties DEF ReplyTyped
<1>4. \A x \in 1..Len(reply) : reply[x] \in Entries
  BY ElementOfSeq DEF ReplyTyped
<1>5. \A x \in Entries : x.length \in NameLengths /\ x.number \in Numbers
  BY DEF Entries
<1>. QED
  BY <1>1, <1>2, <1>3, <1>4, <1>5

LEMMA LesserOf ==
  ASSUME NEW x \in Int, NEW y \in Int
  PROVE  D!Min({x, y}) = IF x <= y THEN x ELSE y
<1>1. D!Min({x, y}) = CHOOSE z \in {x, y} : \A w \in {x, y} : z <= w
  BY DEF D!Min
<1> DEFINE v == IF x <= y THEN x ELSE y
<1>2. v \in {x, y} /\ \A w \in {x, y} : v <= w
  OBVIOUS
<1>3. \A z \in {x, y} : (\A w \in {x, y} : z <= w) => z = v
  OBVIOUS
<1>. HIDE DEF v
<1>4. D!Min({x, y}) = v
  BY <1>1, <1>2, <1>3
<1>. QED
  BY <1>4 DEF v

\* The first k characters of a string, or all of them.
LEMMA TakeIs ==
  ASSUME NEW C, NEW s \in Seq(C), NEW k \in Nat
  PROVE  /\ D!Take(s, k) \in Seq(C)
         /\ Len(D!Take(s, k)) = IF Len(s) <= k THEN Len(s) ELSE k
         /\ \A x \in 1..Len(D!Take(s, k)) : D!Take(s, k)[x] = s[x]
         /\ Len(s) <= k => D!Take(s, k) = s
<1> DEFINE l == IF Len(s) <= k THEN Len(s) ELSE k
           u == SubSeq(s, 1, l)
<1>1. Len(s) \in Nat /\ l \in Nat /\ l <= Len(s)
  BY LenProperties
<1>2. D!Take(s, k) = u
  BY <1>1, LesserOf DEF D!Take
<1>3. Len(s) <= k => u = s
  BY SubSeqFull
<1>. HIDE DEF l
<1>4. \A x \in 1..l : s[x] \in C
  BY <1>1, ElementOfSeq
<1>5. /\ u \in Seq(C) /\ Len(u) = IF 1 <= l THEN l - 1 + 1 ELSE 0
      /\ \A x \in 1..(l - 1 + 1) : u[x] = s[1 + x - 1]
  BY <1>1, <1>4, SubSeqProperties
<1>6. Len(u) = l /\ \A x \in 1..l : x \in 1..(l - 1 + 1) /\ 1 + x - 1 = x
  BY <1>1, <1>5
<1>7. \A x \in 1..l : u[x] = s[x]
  BY <1>5, <1>6
<1>. HIDE DEF u
<1>. QED
  BY <1>2, <1>3, <1>5, <1>6, <1>7 DEF l

\* A name is one character over and over, and the separator a comma and a blank.
LEMMA NameIs ==
  ASSUME ReplyTyped, NEW j \in 1..Len(reply)
  PROVE  /\ D!Name(j) \in Seq(Letters) /\ Len(D!Name(j)) = reply[j].length
         /\ \A x \in 1..reply[j].length : D!Name(j)[x] = <<"name", j>>
         /\ D!Separator \in Seq(Letters) /\ Len(D!Separator) = 2
         /\ D!Separator[1] = D!COMMA /\ D!Separator[2] = <<" ", 0>>
<1>1. reply[j].length \in Nat /\ DOMAIN reply = 1..Len(reply)
  BY ReplyFacts
<1> DEFINE a == <<"name", j>>
           b == D!COMMA
           c == <<" ", 0>>
           l == reply[j].length
           s == [x \in 1..l |-> a]
<1>2. a \in Letters /\ b \in Letters /\ c \in Letters
  BY <1>1 DEF Letters
<1>3. D!Name(j) = s /\ D!Separator = <<b, c>>
  BY DEF D!Name, D!Separator
<1>. HIDE DEF a, b, c, l
<1>4. s \in Seq(Letters) /\ Len(s) = l /\ \A x \in 1..l : s[x] = a
  BY <1>1, <1>2 DEF l
<1>5. <<b, c>> \in Seq(Letters) /\ Len(<<b, c>>) = 2 /\ <<b, c>>[1] = b /\ <<b, c>>[2] = c
  BY <1>2
<1>. HIDE DEF s
<1>. QED
  BY <1>3, <1>4, <1>5 DEF a, b, c, l

\* strncat, given the room there is: what it keeps and what it adds.
AtMost(x, k) == IF x <= k THEN x ELSE k
Follows(u, s, t, k) ==
  /\ Len(u) = Len(s) + AtMost(Len(t), k)
  /\ \A x \in 1..Len(s) : u[x] = s[x]
  /\ \A x \in 1..AtMost(Len(t), k) : u[Len(s) + x] = t[x]

LEMMA Appended ==
  ASSUME NEW C, NEW s \in Seq(C), NEW t \in Seq(C), NEW k \in Nat
  PROVE  /\ D!strncat(s, t, k) \in Seq(C)
         /\ Follows(D!strncat(s, t, k), s, t, k)
<1> DEFINE v == D!Take(t, k)
           p == Len(s)
           e == AtMost(Len(t), k)
           u == D!strncat(s, t, k)
<1>1. p \in Nat /\ Len(t) \in Nat
  BY LenProperties
<1>2. e \in Nat
  BY <1>1 DEF AtMost
<1>3. v \in Seq(C) /\ Len(v) = e /\ \A x \in 1..e : v[x] = t[x]
  <2>1. /\ v \in Seq(C) /\ Len(v) = (IF Len(t) <= k THEN Len(t) ELSE k)
        /\ \A x \in 1..Len(v) : v[x] = t[x]
    BY TakeIs
  <2>. QED
    BY <2>1 DEF AtMost
<1>4. u = s \o v
  <2>1. ~ (k < 0)
    OBVIOUS
  <2>. QED
    BY <2>1 DEF D!strncat
<1>. HIDE DEF v, u, e
<1>5. /\ u \in Seq(C) /\ Len(u) = p + e
      /\ \A x \in 1..(p + e) : u[x] = IF x <= p THEN s[x] ELSE v[x - p]
  <2>1. s \in Seq(C) /\ v \in Seq(C) /\ Len(v) = e
    BY <1>3
  <2>2. /\ s \o v \in Seq(C) /\ Len(s \o v) = Len(s) + Len(v)
        /\ \A x \in 1..(Len(s) + Len(v)) : (s \o v)[x] = IF x <= Len(s) THEN s[x] ELSE v[x - Len(s)]
    BY ONLY <2>1, ConcatProperties
  <2>. QED
    BY ONLY <1>4, <2>1, <2>2
<1>. HIDE DEF p
<1>6. ASSUME NEW x \in 1..p
      PROVE  u[x] = s[x]
  <2>1. x \in 1..(p + e) /\ x <= p
    BY <1>1, <1>2
  <2>. QED
    BY <1>5, <2>1
<1>7. ASSUME NEW x \in 1..e
      PROVE  u[p + x] = t[x]
  <2>1. p + x \in 1..(p + e) /\ ~ (p + x <= p) /\ (p + x) - p = x
    BY <1>1, <1>2
  <2>. QED
    BY <1>3, <1>5, <2>1
<1>. QED
  BY <1>5, <1>6, <1>7 DEF p, u, e, Follows

\* What is put behind a text that leaves room: the name, up to c characters in
\* all, a comma, and a blank if there is room for it too.
Adds(u, c, j) ==
  /\ c \in Nat /\ Len(D!WithName(j)) < TEXTMAX
  /\ u \in Seq(Letters)
  /\ Len(u) = IF c + 2 <= TEXTMAX - 1 THEN c + 2 ELSE c + 1
  /\ \A x \in 1..Len(text_type) : u[x] = text_type[x]
  /\ \A x \in (Len(text_type) + 1)..c : u[x] = <<"name", j>>
  /\ u[c + 1] = D!COMMA
  /\ Len(u) = c + 2 => u[c + 2] = <<" ", 0>>

LEMMA Extended ==
  ASSUME ReplyTyped, NEW j \in 1..Len(reply), text_type \in Seq(Letters),
         Len(text_type) <= TEXTMAX - 2
  PROVE  Adds(D!WithComma(D!WithName(j)),
              AtMost(Len(text_type) + reply[j].length, TEXTMAX - 2), j)
<1> DEFINE c == AtMost(Len(text_type) + reply[j].length, TEXTMAX - 2)
           u == D!WithComma(D!WithName(j))
           p == Len(text_type)
           q == TEXTMAX
           k == q - p - 2
           h == q - c - 1
           l == reply[j].length
           s == D!Name(j)
           d == D!Separator
           v == D!strncat(text_type, s, k)
           w == D!strncat(v, d, h)
           e == AtMost(l, k)
           f == AtMost(2, h)
<1>1. q \in Nat /\ q > 4 /\ l \in Nat /\ l > 0 /\ p \in Nat /\ p <= q - 2
  BY ReplyFacts, LenProperties
<1>2. c = IF p + l <= q - 2 THEN p + l ELSE q - 2
  BY DEF AtMost
<1>3. /\ s \in Seq(Letters) /\ Len(s) = l /\ \A x \in 1..l : s[x] = <<"name", j>>
      /\ d \in Seq(Letters) /\ Len(d) = 2 /\ d[1] = D!COMMA /\ d[2] = <<" ", 0>>
  BY NameIs, Zenon
<1>4. D!WithName(j) = v
  BY DEF D!WithName
<1>16. u = D!WithComma(v)
  BY <1>4
<1>. HIDE DEF p, q, l, s, d, c, u
<1>5. /\ c \in Nat /\ p <= c /\ c <= q - 2 /\ h \in Nat /\ h >= 1 /\ k \in Nat
      /\ c = p + e /\ e \in Nat /\ e <= l /\ f \in Nat /\ f >= 1
      /\ c + f = (IF c + 2 <= q - 1 THEN c + 2 ELSE c + 1)
      /\ c + f <= q - 1
  BY ONLY <1>1, <1>2 DEF AtMost
<1>6. /\ v \in Seq(Letters) /\ Len(v) = c
      /\ \A x \in 1..p : v[x] = text_type[x]
      /\ \A x \in 1..e : v[p + x] = s[x]
  <2>. HIDE DEF k, e, v
  <2>1. text_type \in Seq(Letters) /\ s \in Seq(Letters) /\ k \in Nat
    BY <1>3, <1>5
  <2>2. e = AtMost(Len(s), k)
    BY <1>3 DEF e
  <2>3. /\ v \in Seq(Letters) /\ Len(v) = Len(text_type) + AtMost(Len(s), k)
        /\ \A x \in 1..Len(text_type) : v[x] = text_type[x]
        /\ \A x \in 1..AtMost(Len(s), k) : v[Len(text_type) + x] = s[x]
    <3>1. v \in Seq(Letters) /\ Follows(v, text_type, s, k)
      BY ONLY <2>1, Appended DEF v
    <3>. QED
      BY ONLY <3>1 DEF Follows
  <2>4. /\ Len(v) = p + e /\ \A x \in 1..p : v[x] = text_type[x]
        /\ \A x \in 1..e : v[p + x] = s[x]
    BY ONLY <2>2, <2>3 DEF p
  <2>5. Len(v) = c
    BY <1>5, <2>4 DEF e
  <2>. QED
    BY <2>3, <2>4, <2>5 DEF e
<1>. HIDE DEF v
<1>7. /\ w \in Seq(Letters) /\ Len(w) = c + f
      /\ \A x \in 1..c : w[x] = v[x]
      /\ \A x \in 1..f : w[c + x] = d[x]
  <2>. HIDE DEF h, f, w
  <2>1. v \in Seq(Letters) /\ d \in Seq(Letters) /\ h \in Nat
    BY <1>3, <1>5, <1>6
  <2>2. f = AtMost(Len(d), h) /\ Len(v) = c
    BY <1>3, <1>6 DEF f
  <2>3. /\ w \in Seq(Letters) /\ Len(w) = Len(v) + AtMost(Len(d), h)
        /\ \A x \in 1..Len(v) : w[x] = v[x]
        /\ \A x \in 1..AtMost(Len(d), h) : w[Len(v) + x] = d[x]
    <3>1. w \in Seq(Letters) /\ Follows(w, v, d, h)
      BY ONLY <2>1, Appended DEF w
    <3>. QED
      BY ONLY <3>1 DEF Follows
  <2>4. /\ w \in Seq(Letters) /\ Len(w) = c + f
        /\ \A x \in 1..c : w[x] = v[x]
        /\ \A x \in 1..f : w[c + x] = d[x]
    BY ONLY <2>2, <2>3
  <2>. QED
    BY <2>4 DEF f
<1>8. u = w
  <2>1. q - 2 \in Nat /\ q - 1 \in Nat
    BY <1>1
  <2>2. Len(v) <= q - 2 /\ v \in Seq(Letters)
    BY <1>5, <1>6
  <2>3. D!Take(v, q - 2) = v
    <3> DEFINE y == q - 2
    <3>. HIDE DEF y
    <3>1. y \in Nat /\ Len(v) <= y
      BY <2>1, <2>2 DEF y
    <3>2. D!Take(v, y) = v
      BY ONLY <2>2, <3>1, TakeIs
    <3>. QED
      BY <3>2 DEF y
  <2>4. D!strncat(v, d, q - Len(v) - 1) = w
    BY <1>6
  <2>5. Len(w) <= q - 1 /\ w \in Seq(Letters)
    BY <1>5, <1>7
  <2>. HIDE DEF w
  <2>6. D!Take(w, q - 1) = w
    <3> DEFINE y == q - 1
    <3>. HIDE DEF y
    <3>1. y \in Nat /\ Len(w) <= y
      BY <2>1, <2>5 DEF y
    <3>2. D!Take(w, y) = w
      BY ONLY <2>5, <3>1, TakeIs
    <3>. QED
      BY <3>2 DEF y
  <2>7. u = D!WithComma(v)
    BY <1>16
  <2>8. D!WithComma(v) = D!Take(D!strncat(D!Take(v, q - 2), d, q - Len(D!Take(v, q - 2)) - 1), q - 1)
    BY DEF D!WithComma, q, d
  <2>. QED
    BY ONLY <2>3, <2>4, <2>6, <2>7, <2>8
<1>. HIDE DEF w, h, k, e, f
<1>9. ASSUME NEW x \in 1..p
      PROVE  w[x] = text_type[x]
  <2>1. x \in 1..c
    BY ONLY <1>1, <1>5, x \in 1..p
  <2>. QED
    BY <1>6, <1>7, <2>1
<1>10. ASSUME NEW x \in (p + 1)..c
       PROVE  w[x] = <<"name", j>>
  <2> DEFINE y == x - p
  <2>1. x \in 1..c /\ y \in 1..e /\ p + y = x /\ y \in 1..l
    BY ONLY <1>1, <1>5, x \in (p + 1)..c
  <2>. HIDE DEF y
  <2>2. w[x] = v[x]
    BY <1>7, <2>1
  <2>3. v[p + y] = s[y]
    BY <1>6, <2>1
  <2>4. s[y] = <<"name", j>>
    BY <1>3, <2>1
  <2>. QED
    BY ONLY <2>1, <2>2, <2>3, <2>4
<1>11. w[c + 1] = D!COMMA
  <2>1. 1 \in 1..f
    BY <1>5
  <2>2. w[c + 1] = d[1]
    BY <1>7, <2>1
  <2>. QED
    BY ONLY <1>3, <2>2
<1>12. ASSUME Len(w) = c + 2
       PROVE  w[c + 2] = <<" ", 0>>
  <2>1. 2 \in 1..f
    BY <1>5, <1>7, <1>12
  <2>2. w[c + 2] = d[2]
    BY <1>7, <2>1
  <2>. QED
    BY ONLY <1>3, <2>2
<1>13. Len(D!WithName(j)) < q
  BY <1>1, <1>4, <1>5, <1>6
<1>14. Len(w) = IF c + 2 <= q - 1 THEN c + 2 ELSE c + 1
  BY <1>5, <1>7
<1>15. c \in Nat /\ w \in Seq(Letters)
  BY <1>5, <1>7
<1>. QED
  <2>1. Adds(u, c, j)
    BY ONLY <1>8, <1>9, <1>10, <1>11, <1>12, <1>13, <1>14, <1>15 DEF p, q, Adds
  <2>. QED
    BY <2>1 DEF u, c

\* An entry's number read back from a char has the bits it had, and is the number
\* it was if the char could hold it.
LEMMA NumberRead ==
  ASSUME ReplyTyped, NEW j \in 1..Len(reply)
  PROVE  /\ D!number(j) % 2^W = reply[j].number
         /\ ~ CharSigned \/ reply[j].number < 2^(W - 1) => D!number(j) = reply[j].number
<1> DEFINE b == 2^W
           h == 2^(W - 1)
           r == reply[j].number
<1>1. b \in Nat /\ b > 0 /\ h \in Nat /\ r \in 0..(b - 1)
  BY ReplyFacts
<1>2. D!number(j) = IF CharSigned /\ r >= h THEN r - b ELSE r
  BY DEF D!number
<1>. HIDE DEF b, h, r
<1>3. r % b = r /\ (r - b) % b = r
  BY ONLY <1>1
<1>4. CASE CharSigned /\ r >= h
  <2>1. ~ (~ CharSigned \/ r < h)
    BY ONLY <1>1, <1>4
  <2>2. D!number(j) = r - b
    BY ONLY <1>2, <1>4
  <2>. QED
    BY ONLY <1>3, <2>1, <2>2 DEF b, h, r
<1>5. CASE ~ (CharSigned /\ r >= h)
  <2>1. D!number(j) = r
    BY ONLY <1>2, <1>5
  <2>. QED
    BY ONLY <1>3, <2>1 DEF b, h, r
<1>. QED
  BY <1>4, <1>5

\* So the loop stops at the entries meant.
LEMMA FindsMeant ==
  ASSUME ReplyTyped, NEW j \in 1..Len(reply)
  PROVE  /\ type = "A_BITMASK" => (D!AnyBit(j) <=> j \in D!Meant)
         /\ type = "A_REPLY" /\ D!Held => (D!number(j) = octet <=> j \in D!Meant)
<1>1. DOMAIN reply = 1..Len(reply)
  BY ReplyFacts
<1>2. j \in D!Meant <=> D!Means(j)
  BY <1>1 DEF D!Meant
<1>3. D!number(j) % 2^W = reply[j].number
  BY NumberRead
<1>4. ASSUME type = "A_BITMASK"
      PROVE  D!AnyBit(j) <=> D!Means(j)
  <2>1. D!AnyBit(j) <=> D!Bits(D!number(j) % 2^W) \cap D!Bits(octet) # {}
    BY DEF D!AnyBit
  <2>2. D!Means(j) <=> D!Bits(reply[j].number) \cap D!Bits(octet) # {}
    BY <1>4 DEF D!Means
  <2>. QED
    BY ONLY <1>3, <2>1, <2>2, Zenon
<1>5. ASSUME type = "A_REPLY", D!Held
      PROVE  D!number(j) = octet <=> D!Means(j)
  <2>1. ~ CharSigned \/ reply[j].number < 2^(W - 1)
    BY <1>1, <1>5 DEF D!Held
  <2>2. D!number(j) = reply[j].number
    BY <2>1, NumberRead
  <2>3. type # "A_BITMASK"
    BY <1>5
  <2>4. D!Means(j) <=> reply[j].number = octet
    BY <2>3 DEF D!Means
  <2>. QED
    BY ONLY <2>2, <2>4
<1>. QED
  BY <1>2, <1>4, <1>5

\* Parts of the list of names: a name and a separator for each entry meant.
Parts == [x \in DOMAIN reply |-> IF D!Means(x) THEN D!Name(x) \o D!Separator ELSE <<>>]

LEMMA PartIs ==
  ASSUME ReplyTyped, NEW j \in 1..Len(reply)
  PROVE  /\ Parts[j] \in Seq(Letters)
         /\ j \notin D!Meant => Len(Parts[j]) = 0
         /\ j \in D!Meant =>
              /\ Len(Parts[j]) = reply[j].length + 2
              /\ \A x \in 1..reply[j].length : Parts[j][x] = <<"name", j>>
              /\ Parts[j][reply[j].length + 1] = D!COMMA
              /\ Parts[j][reply[j].length + 2] = <<" ", 0>>
<1> DEFINE l == reply[j].length
           s == D!Name(j)
           d == D!Separator
<1>1. DOMAIN reply = 1..Len(reply) /\ l \in Nat
  BY ReplyFacts
<1>2. j \in D!Meant <=> D!Means(j)
  BY <1>1 DEF D!Meant
<1>3. Parts[j] = IF D!Means(j) THEN s \o d ELSE <<>>
  BY <1>1 DEF Parts
<1>4. /\ s \in Seq(Letters) /\ Len(s) = l /\ \A x \in 1..l : s[x] = <<"name", j>>
      /\ d \in Seq(Letters) /\ Len(d) = 2 /\ d[1] = D!COMMA /\ d[2] = <<" ", 0>>
  BY NameIs, Zenon
<1>. HIDE DEF s, d, l
<1>5. CASE j \notin D!Meant
  <2>1. Parts[j] = <<>>
    BY <1>2, <1>3, <1>5
  <2>2. <<>> \in Seq(Letters) /\ Len(<<>>) = 0
    OBVIOUS
  <2>. QED
    BY <1>5, <2>1, <2>2
<1>6. CASE j \in D!Meant
  <2>1. Parts[j] = s \o d
    BY <1>2, <1>3, <1>6
  <2>2. s \in Seq(Letters) /\ d \in Seq(Letters)
    BY <1>4
  <2>3. /\ s \o d \in Seq(Letters) /\ Len(s \o d) = Len(s) + Len(d)
        /\ \A x \in 1..(Len(s) + Len(d)) :
             (s \o d)[x] = IF x <= Len(s) THEN s[x] ELSE d[x - Len(s)]
    BY ONLY <2>2, ConcatProperties
  <2>4. /\ Parts[j] \in Seq(Letters) /\ Len(Parts[j]) = l + 2
        /\ \A x \in 1..(l + 2) : Parts[j][x] = IF x <= l THEN s[x] ELSE d[x - l]
    BY ONLY <1>4, <2>1, <2>3
  <2>5. ASSUME NEW x \in 1..l
        PROVE  Parts[j][x] = <<"name", j>>
    <3>1. x \in 1..(l + 2) /\ x <= l
      BY <1>1
    <3>. QED
      BY <1>4, <2>4, <3>1
  <2>6. /\ l + 1 \in 1..(l + 2) /\ ~ (l + 1 <= l) /\ (l + 1) - l = 1
        /\ l + 2 \in 1..(l + 2) /\ ~ (l + 2 <= l) /\ (l + 2) - l = 2
    BY <1>1
  <2>7. Parts[j][l + 1] = d[1]
    BY <2>4, <2>6
  <2>8. Parts[j][l + 2] = d[2]
    BY <2>4, <2>6
  <2>. QED
    BY ONLY <1>4, <1>6, <2>4, <2>5, <2>7, <2>8 DEF l
<1>. QED
  BY <1>5, <1>6

\* All of them together.
LEMMA ListedIs ==
  ASSUME ReplyTyped
  PROVE  /\ Len(Parts) = Len(reply) /\ D!Listed \in Seq(Letters)
         /\ \E e : Layout(Parts, D!Listed, e)
<1>1. DOMAIN reply = 1..Len(reply) /\ Len(reply) \in Nat
  BY ReplyFacts
<1>2. \A x \in 1..Len(reply) : Parts[x] \in Seq(Letters)
  BY PartIs
<1>3. Parts \in Seq(Seq(Letters)) /\ Len(Parts) = Len(reply)
  <2> DEFINE g(x) == IF D!Means(x) THEN D!Name(x) \o D!Separator ELSE <<>>
  <2>1. Parts = [x \in 1..Len(reply) |-> g(x)]
    BY <1>1 DEF Parts
  <2>. HIDE DEF g
  <2>2. \A x \in 1..Len(reply) : g(x) \in Seq(Letters)
    BY <1>2, <2>1
  <2>. QED
    BY ONLY <1>1, <2>1, <2>2
<1>4. D!Listed = K!FlattenSeq(Parts)
  BY DEF D!Listed, D!FlattenSeq, K!FlattenSeq, Parts
<1>5. K!FlattenSeq(Parts) \in Seq(Letters)
  BY ONLY <1>3, FlattenTyped
<1>6. \E e : Layout(Parts, K!FlattenSeq(Parts), e)
  BY ONLY <1>3, FlattenLayout
<1>. QED
  BY ONLY <1>3, <1>4, <1>5, <1>6

\* Entries that are not meant take no room in the list.
LEMMA LayoutFlat ==
  ASSUME NEW ts, NEW s, NEW e, Layout(ts, s, e), Len(ts) \in Nat,
         NEW a \in 1..(Len(ts) + 1), NEW b \in a..(Len(ts) + 1),
         \A x \in a..(b - 1) : Len(ts[x]) = 0
  PROVE  e[a] = e[b]
<1> DEFINE S == {d \in Nat : a + d <= b => e[a] = e[a + d]}
<1>1. e \in [1..(Len(ts) + 1) -> Nat]
  BY DEF Layout
<1>2. 0 \in S
  OBVIOUS
<1>3. ASSUME NEW d \in Nat, d \in S
      PROVE  d + 1 \in S
  <2>1. SUFFICES ASSUME a + (d + 1) <= b
                 PROVE  e[a] = e[a + (d + 1)]
    OBVIOUS
  <2>2. /\ a + d \in 1..Len(ts) /\ a + d \in 1..(Len(ts) + 1) /\ a + d <= b
        /\ (a + d) + 1 = a + (d + 1) /\ a + d \in a..(b - 1)
    BY <2>1
  <2>3. e[(a + d) + 1] = e[a + d] + Len(ts[a + d])
    BY <2>2 DEF Layout
  <2>4. e[a] = e[a + d] /\ Len(ts[a + d]) = 0 /\ e[a + d] \in Nat
    BY <1>1, <1>3, <2>2
  <2>. QED
    BY ONLY <2>2, <2>3, <2>4
<1>4. Nat \subseteq S
  <2>. HIDE DEF S
  <2>. QED
    BY <1>2, <1>3, SetInduction
<1>5. b - a \in Nat /\ a + (b - a) = b /\ b <= b
  OBVIOUS
<1>6. b - a \in S
  BY <1>4, <1>5
<1>. QED
  BY <1>5, <1>6

\* The last and the first of some entries.
LEMMA LastOf ==
  ASSUME NEW l \in Nat, NEW S \in SUBSET (1..l), S # {}
  PROVE  D!Max(S) \in S /\ \A y \in S : y <= D!Max(S)
<1> DEFINE T == {d \in Nat : l - d \in S}
<1>1. PICK z \in S : TRUE
  OBVIOUS
<1>2. l - z \in T
  <2>1. z \in 1..l
    BY <1>1
  <2>2. l - z \in Nat /\ l - (l - z) = z
    BY <2>1
  <2>. QED
    BY <1>1, <2>2
<1>3. PICK d \in T : \A c \in T : d <= c
  <2>1. T \subseteq Nat /\ T # {}
    BY <1>2
  <2>. HIDE DEF T
  <2>. QED
    BY <2>1, LeastNat
<1>4. ASSUME NEW y \in S
      PROVE  y <= l - d
  <2>1. y \in 1..l
    OBVIOUS
  <2>2. l - y \in Nat /\ l - (l - y) = y
    BY <2>1
  <2>3. l - y \in T
    BY <2>2
  <2>4. d <= l - y /\ d \in Nat
    BY <1>3, <2>3
  <2>. QED
    BY <2>1, <2>4
<1>5. l - d \in S
  BY <1>3
<1>6. D!Max(S) = CHOOSE x \in S : \A y \in S : x >= y
  BY DEF D!Max
<1>7. \A y \in S : l - d >= y
  <2>1. l - d \in Int /\ S \subseteq Int
    BY <1>3
  <2>. QED
    BY <1>4, <2>1
<1>8. D!Max(S) \in S /\ \A y \in S : D!Max(S) >= y
  <2> DEFINE w == l - d
  <2>1. w \in S /\ \A y \in S : w >= y
    BY <1>5, <1>7
  <2>. HIDE DEF w
  <2>. QED
    BY ONLY <1>6, <2>1
<1>. QED
  <2>1. S \subseteq Int
    OBVIOUS
  <2>. QED
    BY <1>8, <2>1

LEMMA FirstOf ==
  ASSUME NEW l \in Nat, NEW S \in SUBSET (1..l), S # {}
  PROVE  D!Min(S) \in S /\ \A y \in S : D!Min(S) <= y
<1>1. S \subseteq Nat
  OBVIOUS
<1>2. \E z \in S : \A y \in S : z <= y
  BY <1>1, LeastNat
<1>3. D!Min(S) = CHOOSE x \in S : \A y \in S : x <= y
  BY DEF D!Min
<1>. QED
  BY ONLY <1>2, <1>3

\* Whether an entry meant is yet to come; and what a text is then: the list so far,
\* or the whole of it with its last separator, cut off if need be.
Ahead(y) == \E x \in D!Meant : x >= y
Kept == AtMost(Len(D!Listed) - 2, TEXTMAX - 2)
Cut(t) ==
  /\ Len(t) \in {Kept + 1, Kept + 2}
  /\ \A x \in 1..Kept : t[x] = D!Listed[x]
  /\ t[Kept + 1] = D!COMMA
  /\ Len(t) = Kept + 2 => t[Kept + 2] = <<" ", 0>>
Gathered(t, y, e) ==
  /\ Ahead(y) => Len(t) = e[y] /\ \A x \in 1..e[y] : t[x] = D!Listed[x]
  /\ D!Meant = {} => t = <<>>
  /\ ~ Ahead(y) /\ D!Meant # {} => Cut(t)

\* What is before the last entry meant fits, and after it there is nothing.
LEMMA RoomBefore ==
  ASSUME ReplyTyped, type = "A_BITMASK", D!Fits, D!Meant # {},
         NEW e, Layout(Parts, D!Listed, e)
  PROVE  \E z \in D!Meant : /\ \A y \in D!Meant : y <= z
                            /\ z \in 1..Len(reply) /\ e[z] \in Nat /\ e[z] <= TEXTMAX - 2
                            /\ Len(D!Listed) = e[z] + reply[z].length + 2
<1>1. DOMAIN reply = 1..Len(reply) /\ Len(reply) \in Nat /\ TEXTMAX \in Nat
  BY ReplyFacts
<1>2. D!Meant \in SUBSET (1..Len(reply))
  BY <1>1 DEF D!Meant
<1> DEFINE z == D!Max(D!Meant)
           l == Len(reply)
<1>3. z \in D!Meant /\ \A y \in D!Meant : y <= z
  BY ONLY <1>1, <1>2, D!Meant # {}, LastOf
<1>. HIDE DEF z
<1>4. z \in 1..l /\ l \in Nat
  BY <1>1, <1>2, <1>3
<1>5. Len(Parts) = l /\ D!Listed \in Seq(Letters) /\ Len(D!Listed) \in Nat
  BY ListedIs, LenProperties
<1>6. Len(Parts[z]) = reply[z].length + 2 /\ reply[z].length \in Nat
  BY <1>3, <1>4, PartIs, ReplyFacts
<1>7. \A x \in (z + 1)..l : Len(Parts[x]) = 0
  <2>1. ASSUME NEW x \in (z + 1)..l
        PROVE  x \in 1..l /\ x \notin D!Meant
    <3>1. x \in 1..l /\ ~ (x <= z)
      BY <1>4
    <3>. QED
      BY <1>3, <3>1
  <2>. QED
    BY <2>1, PartIs
<1>. HIDE DEF l
<1>8. /\ e \in [1..(l + 1) -> Nat] /\ Len(D!Listed) = e[l + 1]
      /\ e[z + 1] = e[z] + Len(Parts[z])
  BY <1>4, <1>5 DEF Layout
<1>9. e[z + 1] = e[l + 1]
  <2>1. z + 1 \in 1..(l + 1) /\ l + 1 \in (z + 1)..(l + 1) /\ (l + 1) - 1 = l
    BY <1>4
  <2>2. /\ Layout(Parts, D!Listed, e) /\ Len(Parts) \in Nat
        /\ z + 1 \in 1..(Len(Parts) + 1) /\ l + 1 \in (z + 1)..(Len(Parts) + 1)
        /\ \A x \in (z + 1)..((l + 1) - 1) : Len(Parts[x]) = 0
    BY <1>4, <1>5, <1>7, <2>1
  <2>. QED
    BY ONLY <2>2, LayoutFlat
<1>10. e[z] \in Nat /\ Len(D!Listed) = e[z] + reply[z].length + 2
  <2>1. z \in 1..(l + 1)
    BY <1>4
  <2>2. e[z] \in Nat
    BY <1>8, <2>1
  <2>3. Len(D!Listed) = e[z] + (reply[z].length + 2)
    BY ONLY <1>6, <1>8, <1>9
  <2>. QED
    BY ONLY <1>6, <2>2, <2>3
<1>11. Len(D!Joined) = Len(D!Listed) - 2
  <2> DEFINE v == D!Listed
             k == Len(v) - 2
  <2>1. D!Joined = SubSeq(v, 1, k)
    BY DEF D!Joined
  <2>2. k \in Nat /\ k >= 0 /\ k <= Len(v) /\ Len(v) \in Nat /\ v \in Seq(Letters)
    BY <1>5, <1>6, <1>10
  <2>. HIDE DEF v, k
  <2>3. \A x \in 1..k : v[x] \in Letters
    <3>1. \A x \in 1..k : x \in 1..Len(v)
      BY <2>2
    <3>. QED
      BY <2>2, <3>1, ElementOfSeq
  <2>4. Len(SubSeq(v, 1, k)) = IF 1 <= k THEN k - 1 + 1 ELSE 0
    BY ONLY <2>2, <2>3, SubSeqProperties
  <2>5. Len(D!Joined) = k
    BY ONLY <2>1, <2>2, <2>4
  <2>. QED
    BY <2>5 DEF k, v
<1>12. Len(D!Joined) - reply[z].length <= TEXTMAX - 2
  BY DEF D!Fits, z
<1>13. e[z] <= TEXTMAX - 2
  BY ONLY <1>1, <1>6, <1>10, <1>11, <1>12
<1>. QED
  BY <1>3, <1>4, <1>10, <1>13 DEF l

\* An entry that is not meant leaves the text as it should be.
LEMMA GatherNone ==
  ASSUME ReplyTyped, i \in 1..Len(reply), i \notin D!Meant,
         NEW e, Layout(Parts, D!Listed, e), NEW t, Gathered(t, i, e)
  PROVE  Gathered(t, i + 1, e)
<1>1. DOMAIN reply = 1..Len(reply) /\ Len(reply) \in Nat
  BY ReplyFacts
<1>2. D!Meant \subseteq Int
  BY <1>1 DEF D!Meant
<1>3. Ahead(i + 1) <=> Ahead(i)
  <2>1. \A x \in D!Meant : x >= i + 1 <=> x >= i
    <3>1. ASSUME NEW x \in D!Meant
          PROVE  x >= i + 1 <=> x >= i
      <4>1. x \in Int /\ x # i /\ i \in Int
        BY <1>2
      <4>. QED
        BY ONLY <4>1
    <3>. QED
      BY <3>1
  <2>. QED
    BY <2>1 DEF Ahead
<1>4. e[i + 1] = e[i]
  <2>1. Len(Parts) = Len(reply) /\ Len(Parts[i]) = 0
    BY ListedIs, PartIs
  <2>2. e \in [1..(Len(reply) + 1) -> Nat] /\ e[i + 1] = e[i] + Len(Parts[i])
    BY <2>1 DEF Layout
  <2>3. i \in 1..(Len(reply) + 1)
    BY <1>1
  <2>4. e[i] \in Nat
    BY <2>2, <2>3
  <2>. QED
    BY ONLY <2>1, <2>2, <2>4
<1>. QED
  BY ONLY <1>3, <1>4, Gathered(t, i, e) DEF Gathered

\* One that is meant adds its name and a separator.
LEMMA GatherMore ==
  ASSUME ReplyTyped, type = "A_BITMASK", D!Fits, text_type \in Seq(Letters),
         i \in 1..Len(reply), i \in D!Meant,
         NEW e, Layout(Parts, D!Listed, e), Gathered(text_type, i, e),
         NEW u, u = D!WithComma(D!WithName(i))
  PROVE  /\ Len(D!WithName(i)) < TEXTMAX /\ u \in Seq(Letters)
         /\ Gathered(u, i + 1, e)
<1> DEFINE p == e[i]
           l == reply[i].length
           q == TEXTMAX
           s == D!Listed
           c == AtMost(p + l, q - 2)
           r == Len(reply)
<1>1. /\ DOMAIN reply = 1..r /\ r \in Nat /\ q \in Nat /\ q > 4
      /\ l \in Nat /\ l > 0 /\ i \in Int
  BY ReplyFacts
<1>2. D!Meant \subseteq 1..r
  BY <1>1 DEF D!Meant
<1>3. Ahead(i)
  <2>1. i >= i
    BY <1>1
  <2>. QED
    BY <2>1 DEF Ahead
<1>4. Len(text_type) = p /\ \A x \in 1..p : text_type[x] = s[x]
  BY <1>3 DEF Gathered
<1>5. PICK z \in D!Meant : /\ \A y \in D!Meant : y <= z
                           /\ z \in 1..r /\ e[z] \in Nat /\ e[z] <= q - 2
                           /\ Len(s) = e[z] + reply[z].length + 2
  BY RoomBefore
<1>6. Len(Parts) = r /\ \A x \in 1..r : Len(Parts[x]) \in Nat
  <2>1. \A x \in 1..r : Parts[x] \in Seq(Letters)
    BY PartIs
  <2>. QED
    BY <2>1, ListedIs, LenProperties
<1>7. /\ Len(Parts[i]) = l + 2
      /\ \A x \in 1..l : Parts[i][x] = <<"name", i>>
      /\ Parts[i][l + 1] = D!COMMA /\ Parts[i][l + 2] = <<" ", 0>>
  BY PartIs, Zenon
<1>8. \A a \in 1..(r + 1) : \A b \in a..(r + 1) : e[a] <= e[b]
  BY <1>1, <1>6, LayoutOnward
<1>9. /\ e \in [1..(r + 1) -> Nat] /\ e[i + 1] = p + Len(Parts[i])
      /\ \A x \in 1..Len(Parts[i]) : s[p + x] = Parts[i][x]
  BY <1>6 DEF Layout
<1>10. p \in Nat /\ p <= q - 2
  <2>1. i \in 1..(r + 1) /\ z \in i..(r + 1)
    BY <1>1, <1>5
  <2>2. p \in Nat /\ p <= e[z]
    BY <1>8, <1>9, <2>1
  <2>. QED
    BY ONLY <1>1, <1>5, <2>2
<1>. HIDE DEF p, l, q, s, r
<1>11. e[i + 1] = p + l + 2
  <2>1. e[i + 1] = p + (l + 2)
    BY ONLY <1>7, <1>9
  <2>2. p \in Nat /\ l \in Nat
    BY <1>1, <1>10
  <2>. QED
    BY ONLY <2>1, <2>2
<1>12. /\ \A x \in 1..l : s[p + x] = <<"name", i>>
       /\ s[p + l + 1] = D!COMMA /\ s[p + l + 2] = <<" ", 0>>
  <2>1. /\ \A x \in 1..l : x \in 1..(l + 2)
        /\ l + 1 \in 1..(l + 2) /\ l + 2 \in 1..(l + 2)
        /\ p + (l + 1) = p + l + 1 /\ p + (l + 2) = p + l + 2
    BY ONLY <1>1, <1>10
  <2>2. \A x \in 1..(l + 2) : s[p + x] = Parts[i][x]
    BY ONLY <1>7, <1>9
  <2>3. \A x \in 1..l : s[p + x] = <<"name", i>>
    BY ONLY <1>7, <2>1, <2>2
  <2>4. s[p + (l + 1)] = D!COMMA /\ s[p + (l + 2)] = <<" ", 0>>
    BY ONLY <1>7, <2>1, <2>2
  <2>. QED
    BY ONLY <2>1, <2>3, <2>4
<1>13. /\ c \in Nat /\ Len(D!WithName(i)) < q /\ u \in Seq(Letters)
       /\ Len(u) = (IF c + 2 <= q - 1 THEN c + 2 ELSE c + 1)
       /\ \A x \in 1..p : u[x] = text_type[x]
       /\ \A x \in (p + 1)..c : u[x] = <<"name", i>>
       /\ u[c + 1] = D!COMMA
       /\ Len(u) = c + 2 => u[c + 2] = <<" ", 0>>
  <2>1. ReplyTyped /\ i \in 1..Len(reply) /\ text_type \in Seq(Letters)
        /\ Len(text_type) <= TEXTMAX - 2
    BY <1>4, <1>10 DEF q
  <2>2. Adds(D!WithComma(D!WithName(i)),
             AtMost(Len(text_type) + reply[i].length, TEXTMAX - 2), i)
    BY ONLY <2>1, Extended
  <2>3. Adds(u, c, i)
    BY <1>4, <2>2 DEF l, q
  <2>. HIDE DEF c
  <2>. QED
    BY ONLY <1>4, <2>3 DEF q, Adds
<1>14. c <= p + l /\ c <= q - 2 /\ p <= c
  BY ONLY <1>1, <1>10 DEF AtMost
<1>. HIDE DEF c
<1>15. \A x \in 1..c : u[x] = s[x]
  <2>1. ASSUME NEW x \in 1..c, x <= p
        PROVE  u[x] = s[x]
    <3>1. x \in 1..p
      BY <2>1, <1>10
    <3>. QED
      BY <1>4, <1>13, <3>1
  <2>2. ASSUME NEW x \in 1..c, ~ (x <= p)
        PROVE  u[x] = s[x]
    <3> DEFINE y == x - p
    <3>1. x \in (p + 1)..c /\ y \in 1..l /\ p + y = x
      <4>1. c \in Nat /\ p \in Nat /\ l \in Nat /\ c <= p + l
        BY <1>1, <1>10, <1>13, <1>14
      <4>. QED
        BY ONLY <2>2, <4>1, x \in 1..c
    <3>. HIDE DEF y
    <3>2. u[x] = <<"name", i>>
      BY <1>13, <3>1
    <3>3. s[p + y] = <<"name", i>>
      BY <1>12, <3>1
    <3>. QED
      BY ONLY <3>1, <3>2, <3>3
  <2>. QED
    BY <2>1, <2>2
<1>16. CASE Ahead(i + 1)
  <2>1. PICK y \in D!Meant : y >= i + 1
    BY <1>16 DEF Ahead
  <2>2. i + 1 \in 1..(r + 1) /\ z \in (i + 1)..(r + 1)
    <3>1. y <= z /\ y \in 1..r
      BY <1>2, <1>5, <2>1 DEF r
    <3>. QED
      BY ONLY <1>1, <1>5, <2>1, <3>1, i \in 1..Len(reply) DEF r
  <2>3. e[i + 1] <= e[z]
    BY <1>8, <2>2
  <2>4. p + l + 2 <= q - 2
    BY ONLY <1>1, <1>5, <1>10, <1>11, <2>3
  <2>5. c = p + l /\ c + 2 <= q - 1
    BY ONLY <1>1, <1>10, <2>4 DEF AtMost, c
  <2>6. Len(u) = c + 2 /\ e[i + 1] = c + 2
    BY ONLY <1>11, <1>13, <2>5
  <2>7. \A x \in 1..(c + 2) : u[x] = s[x]
    <3>1. \A x \in 1..(c + 2) : x \in 1..c \/ x = c + 1 \/ x = c + 2
      <4>1. c \in Nat
        BY <1>13
      <4>. QED
        BY ONLY <4>1
    <3>2. u[c + 1] = s[c + 1] /\ u[c + 2] = s[c + 2]
      BY ONLY <1>12, <1>13, <2>5, <2>6
    <3>. QED
      BY ONLY <1>15, <3>1, <3>2
  <2>8. D!Meant # {}
    BY <1>5
  <2>. QED
    BY ONLY <1>13, <1>16, <2>6, <2>7, <2>8 DEF Gathered, q, s
<1>17. CASE ~ Ahead(i + 1)
  <2>1. z = i
    <3>1. i <= z /\ ~ (z >= i + 1) /\ z \in Int
      BY <1>5, <1>17 DEF Ahead
    <3>. QED
      BY ONLY <1>1, <3>1
  <2>2. Len(s) = p + l + 2
    BY <1>5, <2>1 DEF p, l
  <2>3. Len(s) - 2 = p + l
    BY ONLY <1>1, <1>10, <2>2
  <2>4. Kept = c
    BY <2>3 DEF Kept, s, q, c
  <2>5. Len(u) \in {c + 1, c + 2}
    BY <1>13
  <2>6. Cut(u)
    BY ONLY <1>13, <1>15, <2>4, <2>5 DEF Cut, s
  <2>7. D!Meant # {}
    BY <1>5
  <2>. QED
    BY ONLY <1>13, <1>17, <2>6, <2>7 DEF Gathered, q
<1>. QED
  BY <1>16, <1>17

\* What is joined is empty only if nothing is meant.
LEMMA JoinedIs ==
  ASSUME ReplyTyped, D!Meant # {}
  PROVE  /\ D!Joined \in Seq(Letters) /\ Len(D!Joined) \in Nat \ {0}
         /\ type = "A_BITMASK" =>
              /\ Len(D!Joined) = Len(D!Listed) - 2
              /\ \A x \in 1..(Len(D!Listed) - 2) : D!Joined[x] = D!Listed[x]
         /\ type = "A_REPLY" =>
              \A z \in D!Meant : (\A y \in D!Meant : z <= y) => D!Joined = D!Name(z)
<1>1. DOMAIN reply = 1..Len(reply) /\ Len(reply) \in Nat
  BY ReplyFacts
<1>2. D!Meant \in SUBSET (1..Len(reply))
  BY <1>1 DEF D!Meant
<1>3. type = "A_BITMASK" \/ type = "A_REPLY"
  BY DEF ReplyTyped
<1>4. CASE type = "A_BITMASK"
  <2> DEFINE v == D!Listed
             k == Len(v) - 2
  <2>1. D!Joined = SubSeq(v, 1, k)
    BY <1>4 DEF D!Joined
  <2>2. v \in Seq(Letters) /\ Len(v) \in Nat /\ Len(Parts) = Len(reply)
    BY ListedIs, LenProperties
  <2>3. k \in Nat /\ k >= 1 /\ k <= Len(v)
    <3>1. PICK z : z \in D!Meant
      OBVIOUS
    <3>2. z \in 1..Len(reply)
      BY <1>2, <3>1
    <3>3. Len(Parts[z]) = reply[z].length + 2 /\ reply[z].length \in Nat \ {0}
      BY <3>1, <3>2, PartIs, ReplyFacts
    <3>4. PICK e : Layout(Parts, v, e)
      BY ListedIs
    <3>5. /\ e \in [1..(Len(reply) + 1) -> Nat] /\ e[z + 1] = e[z] + Len(Parts[z])
          /\ e[z + 1] <= Len(v)
      BY <2>2, <3>2, <3>4 DEF Layout
    <3>6. z \in 1..(Len(reply) + 1)
      BY <1>1, <3>2
    <3>7. e[z] \in Nat
      BY <3>5, <3>6
    <3> DEFINE a == e[z]
               b == reply[z].length
               d == Len(v)
    <3>8. a \in Nat /\ b \in Nat /\ b # 0 /\ d \in Nat /\ a + (b + 2) <= d
      BY ONLY <2>2, <3>3, <3>5, <3>7
    <3>. HIDE DEF a, b, d
    <3>9. d - 2 \in Nat /\ d - 2 >= 1 /\ d - 2 <= d
      BY ONLY <3>8
    <3>. QED
      BY ONLY <3>9 DEF d
  <2>. HIDE DEF v, k
  <2>4. \A x \in 1..k : v[x] \in Letters
    <3>1. \A x \in 1..k : x \in 1..Len(v)
      BY <2>2, <2>3
    <3>. QED
      BY <2>2, <3>1, ElementOfSeq
  <2>5. /\ SubSeq(v, 1, k) \in Seq(Letters)
        /\ Len(SubSeq(v, 1, k)) = (IF 1 <= k THEN k - 1 + 1 ELSE 0)
        /\ \A x \in 1..(k - 1 + 1) : SubSeq(v, 1, k)[x] = v[1 + x - 1]
    BY ONLY <2>3, <2>4, SubSeqProperties
  <2>6. (IF 1 <= k THEN k - 1 + 1 ELSE 0) = k /\ k - 1 + 1 = k /\ \A x \in 1..k : 1 + x - 1 = x
    BY ONLY <2>3
  <2>7. /\ D!Joined \in Seq(Letters) /\ Len(D!Joined) = k
        /\ \A x \in 1..k : D!Joined[x] = v[x]
    BY ONLY <2>1, <2>5, <2>6
  <2>8. Len(D!Joined) \in Nat \ {0}
    BY ONLY <2>3, <2>7
  <2>9. type # "A_REPLY"
    BY <1>4
  <2>. QED
    BY ONLY <2>7, <2>8, <2>9 DEF k, v
<1>5. CASE type = "A_REPLY"
  <2> DEFINE w == D!Min(D!Meant)
  <2>1. type # "A_BITMASK"
    BY <1>5
  <2>2. D!Joined = D!Name(w)
    BY <2>1 DEF D!Joined
  <2>3. w \in D!Meant /\ \A y \in D!Meant : w <= y
    BY ONLY <1>1, <1>2, D!Meant # {}, FirstOf
  <2>. HIDE DEF w
  <2>4. w \in 1..Len(reply) /\ reply[w].length \in Nat \ {0}
    BY <1>2, <2>3, ReplyFacts
  <2>5. D!Name(w) \in Seq(Letters) /\ Len(D!Name(w)) = reply[w].length
    BY <2>4, NameIs
  <2>6. ASSUME NEW z \in D!Meant, \A y \in D!Meant : z <= y
        PROVE  z = w
    <3>1. z <= w /\ w <= z /\ z \in Int /\ w \in Int
      BY <1>2, <2>3, <2>6
    <3>. QED
      BY ONLY <3>1
  <2>7. \A z \in D!Meant : (\A y \in D!Meant : z <= y) => D!Joined = D!Name(z)
    BY ONLY <2>2, <2>6
  <2>8. D!Joined \in Seq(Letters) /\ Len(D!Joined) \in Nat \ {0}
    BY ONLY <2>2, <2>4, <2>5
  <2>. QED
    BY ONLY <2>1, <2>7, <2>8
<1>. QED
  BY <1>3, <1>4, <1>5

\* The text without its last comma and what follows it.
LEMMA ClosedIs ==
  ASSUME ReplyTyped, type = "A_BITMASK", text_type \in Seq(Letters), D!Meant # {},
         Cut(text_type)
  PROVE  D!Closed(text_type) = D!Take(D!Joined, TEXTMAX - 2)
<1> DEFINE t == text_type
           v == D!Listed
           w == D!Joined
           q == TEXTMAX - 2
           k == Len(v) - 2
           c == Kept
           C == {x \in DOMAIN t : t[x] = D!COMMA}
<1>1. /\ w \in Seq(Letters) /\ Len(w) = k /\ k \in Nat /\ k > 0
      /\ \A x \in 1..k : w[x] = v[x]
  BY JoinedIs
<1>2. q \in Nat /\ q > 0
  BY ReplyFacts
<1>3. c = IF k <= q THEN k ELSE q
  BY DEF Kept, AtMost
<1>4. /\ Len(t) \in {c + 1, c + 2}
      /\ \A x \in 1..c : t[x] = v[x]
      /\ t[c + 1] = D!COMMA
      /\ Len(t) = c + 2 => t[c + 2] = <<" ", 0>>
  BY DEF Cut
<1>5. Len(t) \in Nat /\ DOMAIN t = 1..Len(t)
  BY LenProperties
<1>. HIDE DEF t, v, w, q, k, c
<1>6. c \in Nat /\ c > 0 /\ c <= k /\ c <= Len(t) /\ c + 1 \in 1..Len(t)
  <2>1. k \in Nat /\ k > 0 /\ (Len(t) = c + 1 \/ Len(t) = c + 2)
    BY <1>1, <1>4
  <2>2. c \in Nat /\ c > 0 /\ c <= k
    BY ONLY <1>2, <1>3, <2>1
  <2>. QED
    BY ONLY <2>1, <2>2
<1>7. D!Max(C) = c + 1
  <2>1. D!Max(C) = CHOOSE x \in C : \A y \in C : x >= y
    BY DEF D!Max
  <2>2. c + 1 \in C
    BY <1>4, <1>5, <1>6
  <2>3. ASSUME NEW y \in C
        PROVE  y \in Int /\ c + 1 >= y
    <3>1. y \in 1..Len(t) /\ t[y] = D!COMMA
      BY <1>5
    <3>2. <<" ", 0>> # D!COMMA
      BY DEF D!COMMA
    <3>3. ~ (y = c + 2 /\ Len(t) = c + 2)
      BY ONLY <1>4, <3>1, <3>2
    <3>4. Len(t) = c + 1 \/ Len(t) = c + 2
      BY ONLY <1>4
    <3>. QED
      BY ONLY <1>6, <3>1, <3>3, <3>4
  <2> DEFINE a == c + 1
  <2>4. a \in Int
    BY <1>6
  <2>. HIDE DEF C, a
  <2>5. a \in C /\ \A y \in C : y \in Int /\ a >= y
    BY <2>2, <2>3 DEF a
  <2>6. \A x \in C : (\A y \in C : x >= y) => x = a
    <3>1. ASSUME NEW x \in C, \A y \in C : x >= y
          PROVE  x = a
      <4>1. x >= a /\ a >= x /\ x \in Int
        BY ONLY <2>5, <3>1, x \in C
      <4>. QED
        BY ONLY <2>4, <4>1
    <3>. QED
      BY <3>1
  <2>7. D!Max(C) = a
    <3>1. a \in C /\ \A y \in C : a >= y
      BY ONLY <2>5
    <3>. QED
      BY ONLY <2>1, <2>6, <3>1
  <2>. QED
    BY <2>7 DEF a
<1>8. t # <<>>
  <2>1. Len(t) # 0
    BY ONLY <1>5, <1>6
  <2>. QED
    BY <2>1, EmptySeq
<1>9. D!Closed(t) = D!Take(t, c)
  <2>1. D!Closed(t) = D!Take(t, D!Max(C) - 1)
    BY <1>8 DEF D!Closed
  <2>2. (c + 1) - 1 = c
    BY <1>6
  <2>. HIDE DEF C
  <2>. QED
    BY ONLY <1>7, <2>1, <2>2
<1>10. t \in Seq(Letters)
  BY DEF t
<1>11. /\ D!Take(t, c) \in Seq(Letters) /\ Len(D!Take(t, c)) = (IF Len(t) <= c THEN Len(t) ELSE c)
       /\ \A x \in 1..Len(D!Take(t, c)) : D!Take(t, c)[x] = t[x]
  <2>1. c \in Nat
    BY <1>6
  <2>. QED
    BY ONLY <1>10, <2>1, TakeIs
<1>12. /\ D!Take(w, q) \in Seq(Letters) /\ Len(D!Take(w, q)) = (IF Len(w) <= q THEN Len(w) ELSE q)
       /\ \A x \in 1..Len(D!Take(w, q)) : D!Take(w, q)[x] = w[x]
  <2>1. w \in Seq(Letters)
    BY <1>1
  <2>. QED
    BY ONLY <1>2, <2>1, TakeIs
<1> DEFINE g == D!Take(t, c)
           h == D!Take(w, q)
<1>13. g \in Seq(Letters) /\ Len(g) = c /\ \A x \in 1..c : g[x] = t[x]
  <2>1. (IF Len(t) <= c THEN Len(t) ELSE c) = c
    <3>1. c \in Nat /\ c + 1 \in 1..Len(t) /\ Len(t) \in Nat
      BY <1>5, <1>6
    <3>. QED
      BY ONLY <3>1
  <2>. QED
    BY ONLY <1>11, <2>1
<1>14. h \in Seq(Letters) /\ Len(h) = c /\ \A x \in 1..c : h[x] = w[x]
  <2>1. (IF Len(w) <= q THEN Len(w) ELSE q) = c
    BY ONLY <1>1, <1>3
  <2>. QED
    BY ONLY <1>12, <2>1
<1>. HIDE DEF g, h
<1>15. \A x \in 1..c : g[x] = h[x]
  <2>1. \A x \in 1..c : x \in 1..k
    BY ONLY <1>1, <1>6
  <2>. QED
    BY ONLY <1>1, <1>4, <1>13, <1>14, <2>1
<1>16. g = h
  BY ONLY <1>13, <1>14, <1>15, SeqEqual
<1>. QED
  BY ONLY <1>9, <1>16 DEF g, h, t, w, q

\* A text, entry and place that dnsbl_positive may be at.
Result == IF type = "A_BITMASK" THEN D!Take(D!Joined, TEXTMAX - 2) ELSE D!Joined
Places == {"loop", "decide", "positive", "unknown", "undefined", "none"}
Sound(t, y, p) ==
  /\ p # "undefined" /\ t \in Seq(Letters)
  /\ type = "A_BITMASK" /\ p = "loop" =>
       \A e : Layout(Parts, D!Listed, e) => Gathered(t, y, e)
  /\ type = "A_REPLY" /\ p = "loop" => t = <<>> /\ \A x \in D!Meant : x >= y
  /\ p \in {"decide", "positive", "unknown"} => t = Result
  /\ p \in {"positive", "unknown"} => (p = "positive" <=> D!Meant # {} \/ ban_unknown)

ReplyInv ==
  /\ ReplyTyped /\ dpc \in Places
  /\ D!Held /\ D!Fits => Sound(text_type, i, dpc)

\* The configuration and the answer stay as they are, and with them all that is
\* said of them alone.
LEMMA SameReply ==
  ASSUME UNCHANGED <<type, ban_unknown, reply, octet>>
  PROVE  /\ Parts' = Parts /\ D!Meant' = D!Meant /\ D!Listed' = D!Listed
         /\ D!Joined' = D!Joined /\ Letters' = Letters
         /\ (D!Held' <=> D!Held) /\ (D!Fits' <=> D!Fits)
<1>1. type' = type /\ reply' = reply /\ octet' = octet
  OBVIOUS
<1>2. D!Meant' = D!Meant
  BY ONLY <1>1 DEF D!Meant, D!Means, D!Bits
<1>3. Parts' = Parts
  BY ONLY <1>1 DEF Parts, D!Means, D!Bits, D!Name, D!Separator, D!COMMA
<1>4. D!Listed' = D!Listed
  <2>1. D!Listed = D!FlattenSeq(Parts)
    BY ONLY DEF D!Listed, Parts
  <2>2. D!Listed' = D!FlattenSeq(Parts')
    BY ONLY DEF D!Listed, Parts
  <2>. QED
    BY ONLY <1>3, <2>1, <2>2
<1>5. D!Joined' = D!Joined
  <2>1. D!Joined = IF D!Meant = {} THEN <<>>
                   ELSE IF type = "A_BITMASK" THEN SubSeq(D!Listed, 1, Len(D!Listed) - 2)
                   ELSE [k \in 1..reply[D!Min(D!Meant)].length |-> <<"name", D!Min(D!Meant)>>]
    BY ONLY DEF D!Joined, D!Name
  <2>2. D!Joined' = IF D!Meant' = {} THEN <<>>
                    ELSE IF type' = "A_BITMASK" THEN SubSeq(D!Listed', 1, Len(D!Listed') - 2)
                    ELSE [k \in 1..reply'[D!Min(D!Meant')].length |-> <<"name", D!Min(D!Meant')>>]
    BY ONLY DEF D!Joined, D!Name
  <2>. QED
    BY ONLY <1>1, <1>2, <1>4, <2>1, <2>2
<1>6. Letters' = Letters
  BY ONLY <1>1 DEF Letters, D!COMMA
<1>7. D!Held' <=> D!Held
  BY ONLY <1>1 DEF D!Held
<1>8. D!Fits' <=> D!Fits
  <2>1. D!Fits <=> IF type = "A_BITMASK"
                   THEN D!Meant # {} => Len(D!Joined) - reply[D!Max(D!Meant)].length <= TEXTMAX - 2
                   ELSE Len(D!Joined) < TEXTMAX
    BY ONLY DEF D!Fits
  <2>2. D!Fits' <=> IF type' = "A_BITMASK"
                    THEN D!Meant' # {} => Len(D!Joined') - reply'[D!Max(D!Meant')].length <= TEXTMAX - 2
                    ELSE Len(D!Joined') < TEXTMAX
    BY ONLY DEF D!Fits
  <2>. QED
    BY ONLY <1>1, <1>2, <1>5, <2>1, <2>2
<1>. QED
  BY <1>2, <1>3, <1>4, <1>5, <1>6, <1>7, <1>8

LEMMA SameSound ==
  ASSUME UNCHANGED <<type, ban_unknown, reply, octet>>,
         Sound(text_type', i', dpc')
  PROVE  Sound(text_type, i, dpc)'
<1>1. /\ Parts' = Parts /\ D!Meant' = D!Meant /\ D!Listed' = D!Listed
      /\ D!Joined' = D!Joined /\ Letters' = Letters
  BY SameReply
<1>2. type' = type /\ ban_unknown' = ban_unknown
  OBVIOUS
<1>3. Result' = Result
  BY ONLY <1>1, <1>2 DEF Result, D!Take, D!Min
<1>4. \A e : Gathered(text_type', i', e) => Gathered(text_type, i, e)'
  BY ONLY <1>1 DEF Gathered, Ahead, Cut, Kept, AtMost, D!COMMA
<1>5. \A e : Layout(Parts, D!Listed, e)' <=> Layout(Parts, D!Listed, e)
  BY ONLY <1>1 DEF Layout
<1>. QED
  BY ONLY <1>1, <1>2, <1>3, <1>4, <1>5, Sound(text_type', i', dpc') DEF Sound

LEMMA ReplyStep ==
  ASSUME ReplyInv, UNCHANGED <<type, ban_unknown, reply, octet>>,
         i' \in 1..(Len(reply) + 1), dpc' \in Places,
         D!Held /\ D!Fits => Sound(text_type', i', dpc')
  PROVE  ReplyInv'
<1>1. ReplyTyped'
  BY ONLY ReplyInv, UNCHANGED <<type, ban_unknown, reply, octet>>, i' \in 1..(Len(reply) + 1)
     DEF ReplyInv, ReplyTyped, Entries
<1>2. (D!Held' <=> D!Held) /\ (D!Fits' <=> D!Fits)
  BY SameReply
<1>3. Sound(text_type', i', dpc') => Sound(text_type, i, dpc)'
  BY SameSound
<1>4. dpc' \in Places /\ (D!Held' /\ D!Fits' => Sound(text_type, i, dpc)')
  BY <1>2, <1>3
<1>5. Places' = Places
  BY ONLY DEF Places
<1>. QED
  BY ONLY <1>1, <1>4, <1>5 DEF ReplyInv

LEMMA BitmaskMatch ==
  ASSUME ReplyInv, D!bitmask_match
  PROVE  ReplyInv'
<1>1. /\ dpc = "loop" /\ type = "A_BITMASK" /\ i <= Len(reply) /\ D!AnyBit(i)
      /\ UNCHANGED <<type, ban_unknown, reply, octet>>
      /\ IF Len(D!WithName(i)) < TEXTMAX
         THEN text_type' = D!WithComma(D!WithName(i)) /\ i' = i + 1 /\ dpc' = dpc
         ELSE dpc' = "undefined" /\ text_type' = text_type /\ i' = i
  BY DEF D!bitmask_match, D!conf
<1>2. ReplyTyped
  BY DEF ReplyInv
<1>3. Len(reply) \in Nat /\ i \in 1..Len(reply) /\ i \in 1..(Len(reply) + 1)
      /\ i + 1 \in 1..(Len(reply) + 1)
  <2>1. Len(reply) \in Nat /\ i \in 1..(Len(reply) + 1)
    BY <1>2, ReplyFacts DEF ReplyTyped
  <2>. QED
    BY ONLY <1>1, <2>1
<1>4. dpc' \in Places /\ i' \in 1..(Len(reply) + 1)
  BY ONLY <1>1, <1>3 DEF Places
<1>5. ASSUME D!Held, D!Fits
      PROVE  Sound(text_type', i', dpc')
  <2>1. /\ text_type \in Seq(Letters)
        /\ \A e : Layout(Parts, D!Listed, e) => Gathered(text_type, i, e)
    BY ONLY <1>1, <1>5, ReplyInv DEF ReplyInv, Sound
  <2>2. i \in D!Meant
    BY <1>1, <1>2, <1>3, FindsMeant
  <2>3. PICK f : Layout(Parts, D!Listed, f)
    BY <1>2, ListedIs
  <2> DEFINE u == D!WithComma(D!WithName(i))
  <2>4. ASSUME NEW e, Layout(Parts, D!Listed, e)
        PROVE  /\ Len(D!WithName(i)) < TEXTMAX /\ u \in Seq(Letters)
               /\ Gathered(u, i + 1, e)
    <3>1. /\ ReplyTyped /\ type = "A_BITMASK" /\ D!Fits /\ text_type \in Seq(Letters)
          /\ i \in 1..Len(reply) /\ i \in D!Meant /\ Layout(Parts, D!Listed, e)
          /\ Gathered(text_type, i, e)
      BY <1>1, <1>2, <1>3, <1>5, <2>1, <2>2, <2>4
    <3>. QED
      BY ONLY <3>1, GatherMore
  <2>. HIDE DEF u
  <2>5. Len(D!WithName(i)) < TEXTMAX /\ u \in Seq(Letters)
    BY <2>3, <2>4
  <2>6. text_type' = u /\ i' = i + 1 /\ dpc' = "loop"
    BY <1>1, <2>5 DEF u
  <2>7. Sound(u, i + 1, "loop")
    BY ONLY <1>1, <2>4, <2>5 DEF Sound
  <2>. QED
    BY ONLY <2>6, <2>7
<1>. QED
  BY <1>1, <1>4, <1>5, ReplyStep

LEMMA BitmaskOther ==
  ASSUME ReplyInv, D!bitmask_other
  PROVE  ReplyInv'
<1>1. /\ dpc = "loop" /\ type = "A_BITMASK" /\ i <= Len(reply) /\ ~ D!AnyBit(i)
      /\ UNCHANGED <<type, ban_unknown, reply, octet>>
      /\ text_type' = text_type /\ i' = i + 1 /\ dpc' = dpc
  BY DEF D!bitmask_other, D!conf
<1>2. ReplyTyped
  BY DEF ReplyInv
<1>3. i \in 1..Len(reply) /\ i + 1 \in 1..(Len(reply) + 1)
  <2>1. Len(reply) \in Nat /\ i \in 1..(Len(reply) + 1)
    BY <1>2, ReplyFacts DEF ReplyTyped
  <2>. QED
    BY ONLY <1>1, <2>1
<1>4. dpc' \in Places /\ i' \in 1..(Len(reply) + 1)
  BY ONLY <1>1, <1>3 DEF Places
<1>5. ASSUME D!Held, D!Fits
      PROVE  Sound(text_type', i', dpc')
  <2>1. /\ text_type \in Seq(Letters)
        /\ \A e : Layout(Parts, D!Listed, e) => Gathered(text_type, i, e)
    BY ONLY <1>1, <1>5, ReplyInv DEF ReplyInv, Sound
  <2>2. i \notin D!Meant
    BY <1>1, <1>2, <1>3, FindsMeant
  <2>3. \A e : Layout(Parts, D!Listed, e) => Gathered(text_type, i + 1, e)
    BY <1>2, <1>3, <2>1, <2>2, GatherNone
  <2>4. Sound(text_type, i + 1, "loop")
    BY ONLY <1>1, <2>1, <2>3 DEF Sound
  <2>. QED
    BY ONLY <1>1, <2>4
<1>. QED
  BY <1>1, <1>4, <1>5, ReplyStep

LEMMA BitmaskDone ==
  ASSUME ReplyInv, D!bitmask_done
  PROVE  ReplyInv'
<1>1. /\ dpc = "loop" /\ type = "A_BITMASK" /\ i > Len(reply)
      /\ UNCHANGED <<type, ban_unknown, reply, octet>>
      /\ text_type' = D!Closed(text_type) /\ i' = i /\ dpc' = "decide"
  BY DEF D!bitmask_done, D!conf
<1>2. ReplyTyped
  BY DEF ReplyInv
<1>3. /\ Len(reply) \in Nat /\ i \in 1..(Len(reply) + 1) /\ DOMAIN reply = 1..Len(reply)
      /\ TEXTMAX \in Nat /\ TEXTMAX > 4
  BY <1>2, ReplyFacts DEF ReplyTyped
<1>4. dpc' \in Places /\ i' \in 1..(Len(reply) + 1)
  BY ONLY <1>1, <1>3 DEF Places
<1>5. ASSUME D!Held, D!Fits
      PROVE  Sound(text_type', i', dpc')
  <2>1. /\ text_type \in Seq(Letters)
        /\ \A e : Layout(Parts, D!Listed, e) => Gathered(text_type, i, e)
    BY ONLY <1>1, <1>5, ReplyInv DEF ReplyInv, Sound
  <2>2. ~ Ahead(i)
    <3>1. D!Meant \subseteq 1..Len(reply)
      BY <1>3 DEF D!Meant
    <3>2. \A x \in 1..Len(reply) : ~ (x >= i)
      BY ONLY <1>1, <1>3
    <3>. QED
      BY ONLY <3>1, <3>2 DEF Ahead
  <2>3. PICK e : Layout(Parts, D!Listed, e)
    BY <1>2, ListedIs
  <2>4. Gathered(text_type, i, e)
    BY <2>1, <2>3
  <2>5. Result = D!Take(D!Joined, TEXTMAX - 2)
    BY <1>1 DEF Result
  <2>6. TEXTMAX - 2 \in Nat
    BY <1>3
  <2>7. D!Closed(text_type) = Result /\ Result \in Seq(Letters)
    <3>1. CASE D!Meant = {}
      <4>1. text_type = <<>> /\ D!Joined = <<>>
        BY <2>4, <3>1 DEF Gathered, D!Joined
      <4>2. D!Closed(text_type) = <<>>
        BY <4>1 DEF D!Closed
      <4>3. <<>> \in Seq(Letters) /\ Len(<<>>) <= TEXTMAX - 2
        BY <2>6
      <4>4. D!Take(<<>>, TEXTMAX - 2) = <<>>
        <5> DEFINE y == TEXTMAX - 2
                   z == <<>>
        <5>1. y \in Nat /\ z \in Seq(Letters) /\ Len(z) <= y
          BY <2>6, <4>3
        <5>. HIDE DEF y, z
        <5>2. D!Take(z, y) = z
          BY ONLY <5>1, TakeIs
        <5>. QED
          BY <5>2 DEF y, z
      <4>. QED
        BY ONLY <2>5, <4>1, <4>2, <4>3, <4>4
    <3>2. CASE D!Meant # {}
      <4>1. Cut(text_type)
        BY <2>2, <2>4, <3>2 DEF Gathered
      <4>2. D!Closed(text_type) = Result
        BY <1>1, <1>2, <2>1, <2>5, <3>2, <4>1, ClosedIs
      <4>3. D!Joined \in Seq(Letters)
        BY <1>2, <3>2, JoinedIs
      <4>4. D!Take(D!Joined, TEXTMAX - 2) \in Seq(Letters)
        BY ONLY <2>6, <4>3, TakeIs
      <4>. QED
        BY ONLY <2>5, <4>2, <4>4
    <3>. QED
      BY <3>1, <3>2
  <2>8. Sound(Result, i, "decide")
    BY ONLY <2>7 DEF Sound
  <2>. QED
    BY ONLY <1>1, <2>7, <2>8
<1>. QED
  BY <1>1, <1>4, <1>5, ReplyStep

LEMMA ReplyMatch ==
  ASSUME ReplyInv, D!reply_match
  PROVE  ReplyInv'
<1>1. /\ dpc = "loop" /\ type = "A_REPLY" /\ i <= Len(reply) /\ D!number(i) = octet
      /\ UNCHANGED <<type, ban_unknown, reply, octet>>
      /\ text_type' = D!Take(D!Name(i), TEXTMAX) /\ i' = i
      /\ dpc' = IF Len(D!Name(i)) < TEXTMAX THEN "decide" ELSE "undefined"
  BY DEF D!reply_match, D!conf
<1>2. ReplyTyped
  BY DEF ReplyInv
<1>3. /\ Len(reply) \in Nat /\ i \in 1..(Len(reply) + 1) /\ i \in 1..Len(reply)
      /\ TEXTMAX \in Nat
  <2>1. Len(reply) \in Nat /\ i \in 1..(Len(reply) + 1) /\ TEXTMAX \in Nat
    BY <1>2, ReplyFacts DEF ReplyTyped
  <2>. QED
    BY ONLY <1>1, <2>1
<1>4. dpc' \in Places /\ i' \in 1..(Len(reply) + 1)
  BY ONLY <1>1, <1>3 DEF Places
<1>5. ASSUME D!Held, D!Fits
      PROVE  Sound(text_type', i', dpc')
  <2>1. \A x \in D!Meant : x >= i
    BY ONLY <1>1, <1>5, ReplyInv DEF ReplyInv, Sound
  <2>2. i \in D!Meant
    BY <1>1, <1>2, <1>3, <1>5, FindsMeant
  <2>3. \A y \in D!Meant : i <= y
    <3>1. D!Meant \subseteq Int /\ i \in Int
      <4>1. DOMAIN reply = 1..Len(reply)
        BY <1>2, ReplyFacts
      <4>. QED
        BY <1>3, <4>1 DEF D!Meant
    <3>. QED
      BY ONLY <2>1, <3>1
  <2>4. D!Joined = D!Name(i)
    <3>1. D!Meant # {}
      BY <2>2
    <3>. QED
      BY <1>1, <1>2, <2>2, <2>3, <3>1, JoinedIs
  <2>5. type # "A_BITMASK"
    BY <1>1
  <2>6. Result = D!Name(i)
    BY <2>4, <2>5 DEF Result
  <2>7. Len(D!Name(i)) < TEXTMAX
    BY <1>5, <2>4, <2>5 DEF D!Fits
  <2>8. D!Name(i) \in Seq(Letters) /\ Len(D!Name(i)) <= TEXTMAX
    <3>1. D!Name(i) \in Seq(Letters)
      BY <1>2, <1>3, NameIs
    <3>. QED
      BY <1>3, <2>7, <3>1, LenProperties
  <2>9. D!Take(D!Name(i), TEXTMAX) = D!Name(i)
    <3> DEFINE z == D!Name(i)
    <3>1. z \in Seq(Letters) /\ Len(z) <= TEXTMAX /\ TEXTMAX \in Nat
      BY <1>3, <2>8
    <3>. HIDE DEF z
    <3>2. D!Take(z, TEXTMAX) = z
      BY ONLY <3>1, TakeIs
    <3>. QED
      BY <3>2 DEF z
  <2>10. Sound(Result, i, "decide")
    BY ONLY <2>5, <2>6, <2>8 DEF Sound
  <2>11. text_type' = Result /\ i' = i /\ dpc' = "decide"
    BY ONLY <1>1, <2>6, <2>7, <2>9
  <2>. QED
    BY ONLY <2>10, <2>11
<1>. QED
  BY <1>1, <1>4, <1>5, ReplyStep

LEMMA ReplyOther ==
  ASSUME ReplyInv, D!reply_other
  PROVE  ReplyInv'
<1>1. /\ dpc = "loop" /\ type = "A_REPLY" /\ i <= Len(reply) /\ D!number(i) # octet
      /\ UNCHANGED <<type, ban_unknown, reply, octet>>
      /\ text_type' = text_type /\ i' = i + 1 /\ dpc' = dpc
  BY DEF D!reply_other, D!conf
<1>2. ReplyTyped
  BY DEF ReplyInv
<1>3. /\ i \in 1..Len(reply) /\ i + 1 \in 1..(Len(reply) + 1)
      /\ DOMAIN reply = 1..Len(reply)
  <2>1. Len(reply) \in Nat /\ i \in 1..(Len(reply) + 1) /\ DOMAIN reply = 1..Len(reply)
    BY <1>2, ReplyFacts DEF ReplyTyped
  <2>. QED
    BY ONLY <1>1, <2>1
<1>4. dpc' \in Places /\ i' \in 1..(Len(reply) + 1)
  BY ONLY <1>1, <1>3 DEF Places
<1>5. ASSUME D!Held, D!Fits
      PROVE  Sound(text_type', i', dpc')
  <2>1. text_type \in Seq(Letters) /\ text_type = <<>> /\ \A x \in D!Meant : x >= i
    BY ONLY <1>1, <1>5, ReplyInv DEF ReplyInv, Sound
  <2>2. i \notin D!Meant
    BY <1>1, <1>2, <1>3, <1>5, FindsMeant
  <2>3. \A x \in D!Meant : x >= i + 1
    <3>1. D!Meant \subseteq Int /\ i \in Int
      BY <1>3 DEF D!Meant
    <3>2. ASSUME NEW x \in D!Meant
          PROVE  x >= i + 1
      <4>1. x \in Int /\ x >= i /\ x # i
        BY <2>1, <2>2, <3>1
      <4>. QED
        BY ONLY <3>1, <4>1
    <3>. QED
      BY <3>2
  <2>4. Sound(text_type, i + 1, "loop")
    BY ONLY <1>1, <2>1, <2>3 DEF Sound
  <2>. QED
    BY ONLY <1>1, <2>4
<1>. QED
  BY <1>1, <1>4, <1>5, ReplyStep

LEMMA ReplyDone ==
  ASSUME ReplyInv, D!reply_done
  PROVE  ReplyInv'
<1>1. /\ dpc = "loop" /\ type = "A_REPLY" /\ i > Len(reply)
      /\ UNCHANGED <<type, ban_unknown, reply, octet>>
      /\ text_type' = text_type /\ i' = i /\ dpc' = "decide"
  BY DEF D!reply_done, D!conf
<1>2. ReplyTyped
  BY DEF ReplyInv
<1>3. Len(reply) \in Nat /\ i \in 1..(Len(reply) + 1) /\ DOMAIN reply = 1..Len(reply)
  BY <1>2, ReplyFacts DEF ReplyTyped
<1>4. dpc' \in Places /\ i' \in 1..(Len(reply) + 1)
  BY ONLY <1>1, <1>3 DEF Places
<1>5. ASSUME D!Held, D!Fits
      PROVE  Sound(text_type', i', dpc')
  <2>1. text_type \in Seq(Letters) /\ text_type = <<>> /\ \A x \in D!Meant : x >= i
    BY ONLY <1>1, <1>5, ReplyInv DEF ReplyInv, Sound
  <2>2. D!Meant = {}
    <3>1. D!Meant \subseteq 1..Len(reply)
      BY <1>3 DEF D!Meant
    <3>2. \A x \in 1..Len(reply) : ~ (x >= i)
      BY ONLY <1>1, <1>3
    <3>. QED
      BY ONLY <2>1, <3>1, <3>2
  <2>3. type # "A_BITMASK"
    BY <1>1
  <2>4. Result = <<>>
    BY <2>2, <2>3 DEF Result, D!Joined
  <2>5. Sound(text_type, i, "decide")
    BY ONLY <2>1, <2>3, <2>4 DEF Sound
  <2>. QED
    BY ONLY <1>1, <2>5
<1>. QED
  BY <1>1, <1>4, <1>5, ReplyStep

\* There is a text exactly if something is meant.
LEMMA ResultIs ==
  ASSUME ReplyTyped
  PROVE  Result = <<>> <=> D!Meant = {}
<1> DEFINE w == D!Joined
           q == TEXTMAX - 2
<1>1. q \in Nat /\ q > 0
  BY ReplyFacts
<1>2. Result = IF type = "A_BITMASK" THEN D!Take(w, q) ELSE w
  BY DEF Result
<1>3. CASE D!Meant = {}
  <2>1. w = <<>>
    BY <1>3 DEF D!Joined
  <2>2. w \in Seq(Letters) /\ Len(w) <= q
    <3>1. Len(<<>>) = 0 /\ <<>> \in Seq(Letters)
      OBVIOUS
    <3>. HIDE DEF w, q
    <3>. QED
      BY ONLY <1>1, <2>1, <3>1
  <2>. HIDE DEF w, q
  <2>3. D!Take(w, q) = w
    BY ONLY <1>1, <2>2, TakeIs
  <2>. QED
    BY ONLY <1>2, <1>3, <2>1, <2>3
<1>4. CASE D!Meant # {}
  <2>1. w \in Seq(Letters) /\ Len(w) \in Nat \ {0}
    BY <1>4, JoinedIs
  <2>. HIDE DEF w, q
  <2>2. /\ D!Take(w, q) \in Seq(Letters)
        /\ Len(D!Take(w, q)) = IF Len(w) <= q THEN Len(w) ELSE q
    BY ONLY <1>1, <2>1, TakeIs
  <2>3. Len(D!Take(w, q)) # 0 /\ Len(w) # 0
    BY ONLY <1>1, <2>1, <2>2
  <2>4. Len(<<>>) = 0
    OBVIOUS
  <2>5. D!Take(w, q) # <<>> /\ w # <<>>
    BY ONLY <2>3, <2>4
  <2>. QED
    BY ONLY <1>2, <1>4, <2>5
<1>. QED
  BY <1>3, <1>4

LEMMA DecideStep ==
  ASSUME ReplyInv, D!decide
  PROVE  ReplyInv'
<1>1. /\ dpc = "decide" /\ UNCHANGED <<type, ban_unknown, reply, octet>>
      /\ text_type' = text_type /\ i' = i
      /\ dpc' = IF text_type = <<>> /\ ~ ban_unknown THEN "unknown" ELSE "positive"
  BY DEF D!decide, D!conf
<1>2. ReplyTyped
  BY DEF ReplyInv
<1>3. i \in 1..(Len(reply) + 1) /\ ban_unknown \in BOOLEAN
  BY <1>2 DEF ReplyTyped
<1>4. dpc' \in Places /\ i' \in 1..(Len(reply) + 1)
  BY ONLY <1>1, <1>3 DEF Places
<1>5. ASSUME D!Held, D!Fits
      PROVE  Sound(text_type', i', dpc')
  <2>1. text_type \in Seq(Letters) /\ text_type = Result
    BY ONLY <1>1, <1>5, ReplyInv DEF ReplyInv, Sound
  <2>2. text_type = <<>> <=> D!Meant = {}
    BY <1>2, <2>1, ResultIs
  <2>3. CASE text_type = <<>> /\ ~ ban_unknown
    <3>1. dpc' = "unknown"
      BY <1>1, <2>3
    <3>2. Sound(text_type, i, "unknown")
      BY ONLY <2>1, <2>2, <2>3 DEF Sound
    <3>. QED
      BY ONLY <1>1, <3>1, <3>2
  <2>4. CASE ~ (text_type = <<>> /\ ~ ban_unknown)
    <3>1. dpc' = "positive"
      BY <1>1, <2>4
    <3>2. Sound(text_type, i, "positive")
      BY ONLY <2>1, <2>2, <2>4 DEF Sound
    <3>. QED
      BY ONLY <1>1, <3>1, <3>2
  <2>. QED
    BY <2>3, <2>4
<1>. QED
  BY <1>1, <1>4, <1>5, ReplyStep

LEMMA ReplyBegins == Init => ReplyInv
<1>1. 2^W \in Nat \ {0}
  <2>1. W \in Nat \ {0} /\ \A k \in 0..W : 2^k \in Nat \ {0}
    BY RoutinesConfig DEF D!DnsblConfig
  <2>2. W \in 0..W
    BY <2>1
  <2>. QED
    BY <2>1, <2>2
<1>2. <<>> \in Seq(Letters) /\ Len(<<>>) = 0
  OBVIOUS
<1>3. ASSUME NoReply
      PROVE  ReplyInv
  <2>1. /\ type = "A_REPLY" /\ ban_unknown = FALSE /\ reply = <<>> /\ octet = 0
        /\ i = 1 /\ text_type = <<>> /\ dpc = "none"
    BY <1>3 DEF NoReply
  <2>2. <<>> \in Seq(Entries) /\ 0 \in 0..(2^W - 1) /\ 1 \in 1..(0 + 1)
    BY <1>1
  <2>3. ReplyTyped
    BY ONLY <1>2, <2>1, <2>2 DEF ReplyTyped
  <2>4. Sound(text_type, i, dpc)
    BY ONLY <1>2, <2>1 DEF Sound
  <2>. QED
    BY ONLY <2>1, <2>3, <2>4 DEF ReplyInv, Places
<1>4. ASSUME D!Init
      PROVE  ReplyInv
  <2>1. /\ type \in {"A_BITMASK", "A_REPLY"} /\ ban_unknown \in BOOLEAN
        /\ octet \in 0..(2^W - 1) /\ reply \in D!Replies
        /\ i = 1 /\ text_type = <<>> /\ dpc = "loop"
    BY <1>4 DEF D!Init
  <2>2. PICK l \in 0..MaxReplies : reply \in [1..l -> Entries]
    BY <2>1 DEF D!Replies, Entries
  <2>3. reply \in Seq(Entries)
    <3>1. l \in Nat
      BY RoutinesConfig DEF D!DnsblConfig
    <3>. QED
      BY <2>2, <3>1
  <2>4. Len(reply) \in Nat
    BY <2>3, LenProperties
  <2>5. ReplyTyped
    <3>1. 1 \in 1..(Len(reply) + 1)
      BY <2>4
    <3>. QED
      BY ONLY <2>1, <2>3, <3>1 DEF ReplyTyped
  <2>6. D!Meant \subseteq Int /\ \A x \in D!Meant : x >= 1
    <3>1. DOMAIN reply = 1..Len(reply)
      BY <2>3, LenProperties
    <3>2. D!Meant \subseteq 1..Len(reply)
      BY <3>1 DEF D!Meant
    <3>. QED
      BY <2>4, <3>2
  <2>7. ASSUME NEW e, Layout(Parts, D!Listed, e)
        PROVE  Gathered(text_type, i, e)
    <3>1. e[1] = 0
      BY <2>7 DEF Layout
    <3>2. D!Meant # {} => Ahead(1)
      BY <2>6 DEF Ahead
    <3>3. \A x \in 1..0 : FALSE
      OBVIOUS
    <3>. QED
      BY ONLY <1>2, <2>1, <3>1, <3>2, <3>3 DEF Gathered
  <2>8. Sound(text_type, i, dpc)
    BY ONLY <1>2, <2>1, <2>6, <2>7 DEF Sound
  <2>. QED
    BY ONLY <2>1, <2>5, <2>8 DEF ReplyInv, Places
<1>. QED
  BY <1>3, <1>4 DEF Init

LEMMA ReplySame ==
  ASSUME ReplyInv, UNCHANGED replyVars
  PROVE  ReplyInv'
<1>1. /\ UNCHANGED <<type, ban_unknown, reply, octet>>
      /\ i' = i /\ text_type' = text_type /\ dpc' = dpc
  BY DEF replyVars
<1>2. /\ i' \in 1..(Len(reply) + 1) /\ dpc' \in Places
      /\ D!Held /\ D!Fits => Sound(text_type', i', dpc')
  BY ONLY <1>1, ReplyInv DEF ReplyInv, ReplyTyped
<1>. QED
  BY <1>1, <1>2, ReplyStep

LEMMA ReplyAlways == Spec => []ReplyInv
<1>1. Init => ReplyInv
  BY ReplyBegins
<1>2. ASSUME ReplyInv, [Next]_vars
      PROVE  ReplyInv'
  <2>1. CASE ReplyNext
    <3>1. D!Next
      BY <2>1 DEF ReplyNext
    <3>. QED
      BY <1>2, <3>1, BitmaskMatch, BitmaskOther, BitmaskDone, ReplyMatch, ReplyOther,
         ReplyDone, DecideStep DEF D!Next
  <2>2. CASE UNCHANGED replyVars
    BY <1>2, <2>2, ReplySame
  <2>. QED
    BY <1>2, <2>1, <2>2 DEF Next, ListNext, MatchNext, KlineNext, ParseNext, vars
<1>. QED
  BY <1>1, <1>2, PTL DEF Spec

\* The answer of a blacklist is taken for what the configuration says, with any
\* number of replies and names of any length: dnsbl_positive joins the names of
\* all the entries whose bits are in it, or takes the first of its number, does
\* not overrun text_type, and counts it as positive exactly if there is such an
\* entry or unknown answers are banned (dnsbl.c).
THEOREM AnswersDecoded == Spec => []Decoded
<1>1. ReplyInv => Decoded
  <2>1. SUFFICES ASSUME ReplyInv, D!Held, D!Fits
                 PROVE  /\ dpc # "undefined"
                        /\ D!Ended => /\ text_type = (IF type = "A_BITMASK"
                                                      THEN D!Take(D!Joined, TEXTMAX - 2)
                                                      ELSE D!Joined)
                                      /\ dpc = "positive" <=> D!Meant # {} \/ ban_unknown
    BY DEF Decoded, D!Decoded
  <2>2. Sound(text_type, i, dpc)
    BY <2>1 DEF ReplyInv
  <2>3. D!Ended => dpc \in {"positive", "unknown"}
    BY DEF D!Ended
  <2>. QED
    BY ONLY <2>2, <2>3 DEF Sound, Result
<1>. QED
  BY <1>1, ReplyAlways, PTL

-----------------------------------------------------------------------------
(* The elements of a set of numbers in their order *)

Below(E, e) == {x \in E : x < e}
Rank(E, e) == Cardinality(Below(E, e))
Nth(E, k) == CHOOSE e \in E : Rank(E, e) = k

LEMMA RankTyped ==
  ASSUME NEW E \in SUBSET Nat, IsFiniteSet(E), NEW e \in Nat
  PROVE  IsFiniteSet(Below(E, e)) /\ Rank(E, e) \in Nat
<1>1. Below(E, e) \in SUBSET E
  BY DEF Below
<1>2. IsFiniteSet(Below(E, e))
  BY <1>1, FS_Subset
<1>. QED
  BY <1>2, FS_CardinalityType DEF Rank

\* One more is below a greater element, and only one below the next.
LEMMA RankGrows ==
  ASSUME NEW E \in SUBSET Nat, IsFiniteSet(E), NEW e \in E, NEW f \in E, e < f
  PROVE  /\ Rank(E, e) < Rank(E, f)
         /\ (\A x \in E : ~ (e < x /\ x < f)) => Rank(E, f) = Rank(E, e) + 1
<1> DEFINE A == Below(E, e)
           B == Below(E, f)
<1>1. e \in Nat /\ f \in Nat
  OBVIOUS
<1>2. IsFiniteSet(A) /\ Cardinality(A) \in Nat /\ IsFiniteSet(B) /\ Cardinality(B) \in Nat
  BY <1>1, RankTyped DEF Rank
<1>3. e \notin A
  BY <1>1 DEF Below
<1>4. Cardinality(A \cup {e}) = Cardinality(A) + 1
  BY <1>2, <1>3, FS_AddElement
<1>5. A \cup {e} \in SUBSET B
  <2>1. ASSUME NEW x \in A
        PROVE  x \in B
    <3>1. x \in E /\ x \in Nat /\ x < e
      BY DEF Below
    <3>2. x < f
      BY <1>1, <3>1
    <3>. QED
      BY <3>1, <3>2 DEF Below
  <2>2. e \in B
    BY DEF Below
  <2>. QED
    BY <2>1, <2>2
<1>6. Cardinality(A \cup {e}) <= Cardinality(B)
  BY <1>2, <1>5, FS_Subset
<1>7. ASSUME \A x \in E : ~ (e < x /\ x < f)
      PROVE  B = A \cup {e}
  <2>1. ASSUME NEW x \in B
        PROVE  x \in A \cup {e}
    <3>1. x \in E /\ x \in Nat /\ x < f
      BY DEF Below
    <3>2. ~ (e < x)
      BY <1>7, <3>1
    <3>3. x < e \/ x = e
      BY <1>1, <3>1, <3>2
    <3>. QED
      BY <3>1, <3>3 DEF Below
  <2>. QED
    BY <1>5, <2>1
<1>. HIDE DEF A, B
<1>8. Cardinality(A) < Cardinality(B)
  BY ONLY <1>2, <1>4, <1>6
<1>9. (\A x \in E : ~ (e < x /\ x < f)) => Cardinality(B) = Cardinality(A) + 1
  BY <1>4, <1>7
<1>. QED
  BY <1>8, <1>9 DEF Rank, A, B

\* There is an element of each rank, and only one.
LEMMA RankTaken ==
  ASSUME NEW E \in SUBSET Nat, IsFiniteSet(E), NEW k \in Nat, k < Cardinality(E)
  PROVE  \E e \in E : Rank(E, e) = k
<1>1. Cardinality(E) \in Nat
  BY FS_CardinalityType
<1> DEFINE S == {d \in Nat : d < Cardinality(E) => \E e \in E : Rank(E, e) = d}
<1>2. 0 \in S
  <2>1. SUFFICES ASSUME 0 < Cardinality(E)
                 PROVE  \E e \in E : Rank(E, e) = 0
    OBVIOUS
  <2>2. E # {}
    BY <2>1, FS_EmptySet
  <2>3. PICK e \in E : \A x \in E : e <= x
    BY <2>2, LeastNat
  <2>4. Below(E, e) = {}
    <3>1. ASSUME NEW x \in Below(E, e)
          PROVE  FALSE
      <4>1. x \in E /\ x \in Nat /\ x < e /\ e \in Nat
        BY DEF Below
      <4>. QED
        BY <2>3, <4>1
    <3>. QED
      BY <3>1
  <2>. QED
    BY <2>4, FS_EmptySet DEF Rank
<1>3. ASSUME NEW d \in Nat, d \in S
      PROVE  d + 1 \in S
  <2>1. SUFFICES ASSUME d + 1 < Cardinality(E)
                 PROVE  \E e \in E : Rank(E, e) = d + 1
    OBVIOUS
  <2>2. d < Cardinality(E)
    BY <1>1, <2>1
  <2>3. PICK e \in E : Rank(E, e) = d
    BY <1>3, <2>2
  <2> DEFINE T == {x \in E : x > e}
  <2>4. T # {}
    <3>1. SUFFICES ASSUME T = {}
                   PROVE  FALSE
      OBVIOUS
    <3>2. e \in Nat /\ \A x \in E : x \in Nat
      OBVIOUS
    <3>3. E = Below(E, e) \cup {e}
      <4>1. ASSUME NEW x \in E
            PROVE  x \in Below(E, e) \cup {e}
        <5>1. ~ (x > e)
          BY <3>1
        <5>2. x < e \/ x = e
          BY <3>2, <5>1
        <5>. QED
          BY <5>2 DEF Below
      <4>. QED
        BY <4>1 DEF Below
    <3>4. e \notin Below(E, e) /\ IsFiniteSet(Below(E, e))
      BY <3>2, RankTyped DEF Below
    <3>5. Cardinality(Below(E, e) \cup {e}) = Cardinality(Below(E, e)) + 1
      BY <3>4, FS_AddElement
    <3>6. Cardinality(E) = d + 1
      BY <2>3, <3>3, <3>5 DEF Rank
    <3>. QED
      BY <2>1, <3>6
  <2>5. T \in SUBSET Nat
    OBVIOUS
  <2>6. PICK f \in T : \A x \in T : f <= x
    BY <2>4, <2>5, LeastNat
  <2>7. f \in E /\ e < f /\ e \in Nat /\ f \in Nat
    BY <2>5, <2>6
  <2>8. \A x \in E : ~ (e < x /\ x < f)
    <3>1. ASSUME NEW x \in E, e < x, x < f
          PROVE  FALSE
      <4>1. x \in T /\ x \in Nat
        BY <2>7, <3>1
      <4>2. f <= x
        BY <2>6, <4>1
      <4>. QED
        BY <2>7, <3>1, <4>1, <4>2
    <3>. QED
      BY <3>1
  <2>9. Rank(E, f) = Rank(E, e) + 1
    BY <2>7, <2>8, RankGrows
  <2>. QED
    BY <2>3, <2>7, <2>9
<1>4. Nat \subseteq S
  <2>. HIDE DEF S
  <2>. QED
    BY <1>2, <1>3, SetInduction
<1>. QED
  BY <1>4

\* So they can be counted off.
LEMMA NthIs ==
  ASSUME NEW E \in SUBSET Nat, IsFiniteSet(E), NEW k \in Nat, k < Cardinality(E)
  PROVE  Nth(E, k) \in E /\ Rank(E, Nth(E, k)) = k
<1>1. \E e \in E : Rank(E, e) = k
  BY RankTaken
<1>. QED
  BY <1>1 DEF Nth

LEMMA NthOrder ==
  ASSUME NEW E \in SUBSET Nat, IsFiniteSet(E), NEW k \in Nat, k < Cardinality(E),
         NEW x \in E
  PROVE  /\ k = 0 => Nth(E, 0) <= x
         /\ k + 1 = Cardinality(E) => x <= Nth(E, k)
         /\ k + 1 < Cardinality(E) => /\ Nth(E, k) < Nth(E, k + 1)
                                      /\ ~ (Nth(E, k) < x /\ x < Nth(E, k + 1))
<1> DEFINE a == Nth(E, k)
           c == Cardinality(E)
           r == Rank(E, x)
<1>1. c \in Nat /\ k < c
  BY FS_CardinalityType
<1>2. a \in E /\ Rank(E, a) = k
  BY NthIs
<1>3. E \subseteq Nat /\ x \in Nat
  OBVIOUS
<1>4. r \in Nat
  BY <1>3, RankTyped
<1>5. \A e, f \in E : e < f => Rank(E, e) < Rank(E, f)
  BY RankGrows
<1>6. ASSUME k = 0
      PROVE  Nth(E, 0) <= x
  <2>1. x < a => r < 0
    BY <1>2, <1>5, <1>6
  <2>2. a \in Nat
    BY <1>2, <1>3
  <2>3. a <= x
    BY <1>3, <1>4, <2>1, <2>2
  <2>. QED
    BY <1>6, <2>3
<1>7. r < c
  <2>1. Below(E, x) \in SUBSET (E \ {x}) /\ IsFiniteSet(E \ {x})
    BY <1>3, FS_RemoveElement DEF Below
  <2>2. r <= Cardinality(E \ {x})
    BY <2>1, FS_Subset DEF Rank
  <2>3. Cardinality(E \ {x}) = c - 1
    BY FS_RemoveElement
  <2>. QED
    BY <1>1, <1>4, <2>2, <2>3
<1>8. ASSUME k + 1 = c
      PROVE  x <= a
  <2>1. a < x => k < r
    BY <1>2, <1>5
  <2>2. a \in Nat
    BY <1>2, <1>3
  <2>. QED
    BY <1>1, <1>3, <1>4, <1>7, <1>8, <2>1, <2>2
<1>9. ASSUME k + 1 < c
      PROVE  a < Nth(E, k + 1) /\ ~ (a < x /\ x < Nth(E, k + 1))
  <2> DEFINE b == Nth(E, k + 1)
  <2>1. b \in E /\ Rank(E, b) = k + 1
    <3>1. k + 1 \in Nat /\ k + 1 < Cardinality(E)
      BY <1>9
    <3>. QED
      BY <3>1, NthIs
  <2>2. a \in Nat /\ b \in Nat
    BY <1>2, <1>3, <2>1
  <2>. HIDE DEF a, b, c
  <2>3. ~ (b < a)
    <3>1. b < a => k + 1 < k
      BY <1>2, <1>5, <2>1
    <3>. QED
      BY <3>1
  <2>4. a # b
    BY <1>2, <2>1
  <2>5. ~ (a < x /\ x < b)
    <3>1. a < x /\ x < b => k < r /\ r < k + 1
      BY <1>2, <1>5, <2>1
    <3>. QED
      BY <1>4, <3>1
  <2>. QED
    BY <2>2, <2>3, <2>4, <2>5 DEF b
<1>. QED
  BY <1>6, <1>8, <1>9

-----------------------------------------------------------------------------
(* irc_parse: the words of a line *)

Symbols == Chars \cup {":", " "}
LineTyped == line \in Seq(Symbols) /\ Len(line) >= 1

\* The ends of the words, and the k-th of them.
Ends == {0, Len(P!Main) + 1} \cup {k \in DOMAIN P!Main : P!Main[k] = " "}
End(k) == Nth(Ends, k)
Count == Cardinality(Ends) - 1

LEMMA SameCardinality ==
  ASSUME NEW S
  PROVE  P!Cardinality(S) = Cardinality(S)
BY DEF P!Cardinality, Cardinality, P!IsFiniteSet, IsFiniteSet

\* What is before the final string, and that.
LEMMA MainIs ==
  ASSUME LineTyped
  PROVE  /\ P!Main \in Seq(Symbols) /\ Len(P!Main) \in Nat /\ Len(P!Main) <= Len(line)
         /\ DOMAIN P!Main = 1..Len(P!Main) /\ Len(line) \in Nat
         /\ \A x \in 1..Len(P!Main) : P!Main[x] = line[x]
         /\ P!Colons = {} => Len(P!Main) = Len(line) /\ P!Final = <<>>
         /\ P!Colons # {} =>
              /\ Len(P!Main) + 1 \in P!Colons
              /\ \A y \in P!Colons : Len(P!Main) + 1 <= y
              /\ P!Final = <<SubSeq(line, (Len(P!Main) + 1) + 2, Len(line))>>
<1> DEFINE c == P!Min(P!Colons)
           l == Len(line)
<1>1. line \in Seq(Symbols) /\ l \in Nat /\ l >= 1 /\ DOMAIN line = 1..l
  BY LenProperties DEF LineTyped
<1>2. CASE P!Colons = {}
  <2>1. P!Main = line /\ P!Final = <<>>
    BY <1>2 DEF P!Main, P!Final
  <2>. QED
    BY <1>1, <1>2, <2>1
<1>3. CASE P!Colons # {}
  <2>1. P!Colons \in SUBSET Nat
    <3>1. \A z \in P!Colons : z \in 1..(l - 1)
      BY DEF P!Colons
    <3>2. \A z \in 1..(l - 1) : z \in Nat
      BY <1>1
    <3>. QED
      BY ONLY <3>1, <3>2
  <2>2. \E z \in P!Colons : \A y \in P!Colons : z <= y
    BY <1>3, <2>1, LeastNat
  <2>3. c = CHOOSE z \in P!Colons : \A y \in P!Colons : z <= y
    BY DEF P!Min
  <2>4. c \in P!Colons /\ \A y \in P!Colons : c <= y
    BY ONLY <2>2, <2>3
  <2>5. P!Main = SubSeq(line, 1, c - 1) /\ P!Final = <<SubSeq(line, c + 2, l)>>
    BY <1>3 DEF P!Main, P!Final
  <2>6. c \in 1..(l - 1)
    BY <2>4 DEF P!Colons
  <2>. HIDE DEF c, l
  <2> DEFINE d == c - 1
             v == SubSeq(line, 1, d)
  <2>7. d \in Int /\ d >= 0 /\ d <= l /\ d + 1 = c
    BY ONLY <1>1, <2>6
  <2>. HIDE DEF d
  <2>8. \A x \in 1..d : line[x] \in Symbols
    <3>1. \A x \in 1..d : x \in 1..l
      BY ONLY <1>1, <2>7
    <3>. QED
      BY <1>1, <3>1, ElementOfSeq DEF l
  <2>9. /\ v \in Seq(Symbols) /\ Len(v) = (IF 1 <= d THEN d - 1 + 1 ELSE 0)
        /\ \A x \in 1..(d - 1 + 1) : v[x] = line[1 + x - 1]
    <3>1. 1 \in Int /\ d \in Int
      BY <2>7
    <3>. QED
      BY ONLY <2>8, <3>1, SubSeqProperties
  <2>10. (IF 1 <= d THEN d - 1 + 1 ELSE 0) = d /\ d - 1 + 1 = d /\ \A x \in 1..d : 1 + x - 1 = x
    BY ONLY <2>7
  <2>11. v \in Seq(Symbols) /\ Len(v) = d /\ \A x \in 1..d : v[x] = line[x]
    BY ONLY <2>9, <2>10
  <2>12. P!Main = v
    BY <2>5 DEF d
  <2>13. DOMAIN v = 1..Len(v)
    BY <2>11, LenProperties
  <2>. HIDE DEF v
  <2>14. /\ P!Main \in Seq(Symbols) /\ Len(P!Main) = d
         /\ DOMAIN P!Main = 1..Len(P!Main)
         /\ \A x \in 1..d : P!Main[x] = line[x]
    BY ONLY <2>11, <2>12, <2>13
  <2>15. d \in Nat
    BY ONLY <2>7
  <2>16. /\ Len(P!Main) + 1 \in P!Colons
         /\ \A y \in P!Colons : Len(P!Main) + 1 <= y
         /\ P!Final = <<SubSeq(line, (Len(P!Main) + 1) + 2, l)>>
    BY ONLY <2>4, <2>5, <2>7, <2>14
  <2>. QED
    BY ONLY <1>1, <1>3, <2>7, <2>14, <2>15, <2>16 DEF l
<1>. QED
  BY <1>2, <1>3

LEMMA EndsAre ==
  ASSUME LineTyped
  PROVE  /\ Count \in Nat /\ Count >= 1
         /\ End(0) = 0 /\ End(Count) = Len(P!Main) + 1
         /\ \A k \in 0..Count : End(k) \in Nat
         /\ \A k \in 1..Count : End(k - 1) < End(k)
         /\ \A k \in 1..(Count - 1) : End(k) \in 1..Len(P!Main) /\ line[End(k)] = " "
         /\ \A k \in 1..Count : \A x \in (End(k - 1) + 1)..(End(k) - 1) :
              x \in 1..Len(P!Main) /\ line[x] # " "
<1> DEFINE l == Len(P!Main)
           E == Ends
           c == Cardinality(Ends)
<1>1. l \in Nat /\ DOMAIN P!Main = 1..l /\ \A x \in 1..l : P!Main[x] = line[x]
  BY MainIs
<1>2. \A x : x \in E <=> x = 0 \/ x = l + 1 \/ (x \in 1..l /\ line[x] = " ")
  BY <1>1 DEF Ends
<1>. HIDE DEF l
<1>3. E \in SUBSET Nat /\ \A x \in E : x <= l + 1
  <2>. HIDE DEF E
  <2>1. ASSUME NEW x \in E
        PROVE  x \in Nat /\ x <= l + 1
    <3>1. x = 0 \/ x = l + 1 \/ x \in 1..l
      BY <1>2
    <3>. QED
      BY ONLY <1>1, <3>1
  <2>. QED
    BY ONLY <2>1
<1>4. l + 1 \in Nat
  BY <1>1
<1>. HIDE DEF E
<1>5. IsFiniteSet(E)
  BY ONLY <1>3, <1>4, FS_BoundedSetOfNaturals
<1>6. c \in Nat /\ c >= 2 /\ Count = c - 1
  <2>1. c \in Nat
    BY <1>5, FS_CardinalityType DEF E
  <2>2. 0 \in E /\ l + 1 \in E /\ 0 # l + 1
    <3>1. 0 # l + 1
      BY <1>1
    <3>. QED
      BY <1>2, <3>1
  <2>3. Cardinality({0} \cup {l + 1}) = 2
    <3>1. IsFiniteSet({0}) /\ Cardinality({0}) = 1
      BY FS_Singleton
    <3>2. l + 1 \notin {0}
      BY <2>2
    <3>. QED
      BY <3>1, <3>2, FS_AddElement
  <2>4. {0} \cup {l + 1} \in SUBSET E
    BY <2>2
  <2>5. 2 <= c
    BY <1>5, <2>3, <2>4, FS_Subset DEF E
  <2>6. Count = c - 1
    BY DEF Count
  <2>. QED
    BY <2>1, <2>5, <2>6
<1>. HIDE DEF c
<1>7. c = Cardinality(E)
  BY DEF c, E
<1>8. \A k \in 0..Count : End(k) \in E /\ End(k) \in Nat
  <2>1. ASSUME NEW k \in 0..Count
        PROVE  End(k) \in E
    <3>1. k \in Nat /\ k < Cardinality(E)
      BY <1>6, <1>7
    <3>2. Nth(E, k) \in E
      BY ONLY <1>3, <1>5, <3>1, NthIs
    <3>. QED
      BY <3>2 DEF End, E
  <2>. QED
    BY <1>3, <2>1
<1>9. \A x \in E : End(0) <= x /\ x <= End(Count)
  <2>1. ASSUME NEW x \in E
        PROVE  End(0) <= x /\ x <= End(Count)
    <3>1. 0 \in Nat /\ 0 < Cardinality(E)
      BY <1>6, <1>7
    <3>2. Nth(E, 0) <= x
      BY ONLY <1>3, <1>5, <3>1, x \in E, NthOrder
    <3>3. Count \in Nat /\ Count < Cardinality(E) /\ Count + 1 = Cardinality(E)
      BY <1>6, <1>7
    <3>4. x <= Nth(E, Count)
      BY ONLY <1>3, <1>5, <3>3, x \in E, NthOrder
    <3>. QED
      BY <3>2, <3>4 DEF End, E
  <2>. QED
    BY <2>1
<1>10. ASSUME NEW k \in 1..Count
       PROVE  /\ End(k - 1) < End(k)
              /\ \A x \in E : ~ (End(k - 1) < x /\ x < End(k))
  <2> DEFINE j == k - 1
  <2>1. j \in Nat /\ j < Cardinality(E) /\ j + 1 < Cardinality(E) /\ j + 1 = k
    BY <1>6, <1>7
  <2>. HIDE DEF j
  <2>2. ASSUME NEW x \in E
        PROVE  Nth(E, j) < Nth(E, j + 1) /\ ~ (Nth(E, j) < x /\ x < Nth(E, j + 1))
    BY ONLY <1>3, <1>5, <2>1, x \in E, NthOrder
  <2>3. E # {}
    BY <1>2
  <2>. QED
    BY <2>1, <2>2, <2>3 DEF End, E, j
<1>11. 0 \in E /\ l + 1 \in E
  BY <1>2
<1>12. Count \in 0..Count /\ 0 \in 0..Count /\ Count \in Nat /\ Count >= 1
  BY <1>6
<1>13. End(0) = 0
  <2>1. End(0) \in Nat /\ End(0) <= 0
    BY <1>8, <1>9, <1>11, <1>12
  <2>. QED
    BY ONLY <2>1
<1>14. End(Count) = l + 1
  <2>1. End(Count) \in Nat /\ End(Count) <= l + 1 /\ l + 1 <= End(Count)
    BY <1>3, <1>8, <1>9, <1>11, <1>12
  <2>. QED
    BY ONLY <1>1, <2>1
<1>15. ASSUME NEW k \in 1..(Count - 1)
       PROVE  End(k) \in 1..l /\ line[End(k)] = " "
  <2>1. k \in 1..Count /\ k + 1 \in 1..Count /\ (k + 1) - 1 = k /\ k \in 0..Count /\ k - 1 \in 0..Count
        /\ k + 1 \in 0..Count
    BY <1>12
  <2>2. End(k - 1) < End(k) /\ End(k) < End(k + 1)
    <3>1. End((k + 1) - 1) < End(k + 1)
      BY <1>10, <2>1
    <3>. QED
      BY <1>10, <2>1, <3>1
  <2>3. End(k) \in E /\ End(k) \in Nat /\ End(k - 1) \in Nat /\ End(k + 1) \in Nat
    BY <1>8, <2>1
  <2>4. End(k + 1) <= l + 1
    BY <1>3, <1>8, <2>1
  <2>5. End(k) # 0 /\ End(k) # l + 1
    BY ONLY <1>1, <2>2, <2>3, <2>4
  <2>. QED
    BY <1>2, <2>3, <2>5
<1>16. ASSUME NEW k \in 1..Count, NEW x \in (End(k - 1) + 1)..(End(k) - 1)
       PROVE  x \in 1..l /\ line[x] # " "
  <2>1. k \in 0..Count /\ k - 1 \in 0..Count
    BY <1>12
  <2>2. End(k) \in Nat /\ End(k - 1) \in Nat /\ End(k) <= l + 1
    BY <1>3, <1>8, <2>1
  <2>3. x \in 1..l /\ End(k - 1) < x /\ x < End(k)
    BY ONLY <1>1, <2>2, x \in (End(k - 1) + 1)..(End(k) - 1)
  <2>4. x \notin E
    BY <1>10, <2>3
  <2>. QED
    BY <1>2, <2>3, <2>4
<1>. QED
  BY <1>8, <1>10, <1>12, <1>13, <1>14, <1>15, <1>16 DEF l

\* The words are what is between the ends.
LEMMA WordsAre ==
  ASSUME LineTyped
  PROVE  P!Words = [k \in 1..Count |-> SubSeq(P!Main, End(k - 1) + 1, End(k) - 1)]
<1> DEFINE E == Ends
           G(k) == CHOOSE e \in E : P!Cardinality({x \in E : x < e}) = k
<1>1. P!Words = [k \in 1..(P!Cardinality(E) - 1) |-> SubSeq(P!Main, G(k - 1) + 1, G(k) - 1)]
  BY DEF P!Words, Ends
<1>2. \A e : P!Cardinality({x \in E : x < e}) = Rank(E, e)
  BY SameCardinality DEF Rank, Below
<1>3. ASSUME NEW k
      PROVE  G(k) = End(k)
  <2>1. G(k) = CHOOSE e \in E : Rank(E, e) = k
    BY <1>2
  <2>. QED
    BY <2>1 DEF End, Nth
<1>4. P!Cardinality(E) - 1 = Count
  BY SameCardinality DEF Count
<1>. HIDE DEF G
<1>. QED
  BY ONLY <1>1, <1>3, <1>4

LEMMA SymbolsAre == "NUL" \notin Symbols
  BY RoutinesConfig DEF P!ParseConfig, Symbols

\* A piece of a line.
LEMMA PieceIs ==
  ASSUME NEW C, NEW s, NEW a \in Nat, NEW b \in Int, a <= b + 1,
         \A x \in a..b : s[x] \in C
  PROVE  /\ SubSeq(s, a, b) \in Seq(C) /\ Len(SubSeq(s, a, b)) = b + 1 - a
         /\ \A x \in 1..(b + 1 - a) : SubSeq(s, a, b)[x] = s[a + x - 1]
<1>1. /\ SubSeq(s, a, b) \in Seq(C)
      /\ Len(SubSeq(s, a, b)) = (IF a <= b THEN b - a + 1 ELSE 0)
      /\ \A x \in 1..(b - a + 1) : SubSeq(s, a, b)[x] = s[a + x - 1]
  <2>1. a \in Int /\ b \in Int
    OBVIOUS
  <2>. QED
    BY ONLY <2>1, \A x \in a..b : s[x] \in C, SubSeqProperties
<1>2. (IF a <= b THEN b - a + 1 ELSE 0) = b + 1 - a /\ b - a + 1 = b + 1 - a
  OBVIOUS
<1>. QED
  BY ONLY <1>1, <1>2

\* Two strings that agree there have the same one.
LEMMA SamePiece ==
  ASSUME NEW C, NEW s, NEW t, NEW a \in Nat, NEW b \in Int, a <= b + 1,
         \A x \in a..b : s[x] \in C /\ t[x] = s[x]
  PROVE  SubSeq(s, a, b) = SubSeq(t, a, b)
<1> DEFINE u == SubSeq(s, a, b)
           v == SubSeq(t, a, b)
           l == b + 1 - a
<1>1. /\ u \in Seq(C) /\ Len(u) = l /\ \A x \in 1..l : u[x] = s[a + x - 1]
  <2>1. \A x \in a..b : s[x] \in C
    OBVIOUS
  <2>. QED
    BY <2>1, PieceIs
<1>2. /\ v \in Seq(C) /\ Len(v) = l /\ \A x \in 1..l : v[x] = t[a + x - 1]
  <2>1. \A x \in a..b : t[x] \in C
    OBVIOUS
  <2>. QED
    BY <2>1, PieceIs
<1>3. \A x \in 1..l : a + x - 1 \in a..b
  OBVIOUS
<1>4. \A x \in 1..l : u[x] = v[x]
  BY <1>1, <1>2, <1>3
<1>. HIDE DEF u, v, l
<1>5. u = v
  BY ONLY <1>1, <1>2, <1>4, SeqEqual
<1>. QED
  BY <1>5 DEF u, v

\* The words are pieces of the line.
Word(k) == SubSeq(line, End(k - 1) + 1, End(k) - 1)

LEMMA WordIs ==
  ASSUME LineTyped, NEW k \in 1..Count
  PROVE  /\ End(k - 1) \in Nat /\ End(k) \in Nat /\ End(k - 1) < End(k)
         /\ Word(k) \in Seq(Symbols) /\ Len(Word(k)) = End(k) - End(k - 1) - 1
         /\ P!Words[k] = Word(k)
<1> DEFINE a == End(k - 1) + 1
           b == End(k) - 1
<1>0. Count \in Nat
  BY EndsAre
<1>1. Count \in Nat /\ k \in 0..Count /\ k - 1 \in 0..Count
  BY ONLY <1>0, k \in 1..Count
<1>2. /\ End(k - 1) \in Nat /\ End(k) \in Nat /\ End(k - 1) < End(k)
      /\ \A x \in a..b : x \in 1..Len(P!Main)
  BY <1>1, EndsAre
<1>3. /\ P!Main \in Seq(Symbols) /\ \A x \in 1..Len(P!Main) : P!Main[x] = line[x]
  BY MainIs
<1>4. \A x \in 1..Len(P!Main) : P!Main[x] \in Symbols
  BY <1>3, ElementOfSeq
<1>5. a \in Nat /\ b \in Int /\ a <= b + 1 /\ b + 1 - a = End(k) - End(k - 1) - 1
  BY ONLY <1>2
<1>6. \A x \in a..b : P!Main[x] \in Symbols /\ line[x] = P!Main[x] /\ line[x] \in Symbols
  BY ONLY <1>2, <1>3, <1>4
<1>7. P!Words[k] = SubSeq(P!Main, a, b)
  BY WordsAre
<1>8. Word(k) = SubSeq(line, a, b)
  BY DEF Word
<1>. HIDE DEF a, b
<1>9. SubSeq(P!Main, a, b) = SubSeq(line, a, b)
  <2>1. \A x \in a..b : P!Main[x] \in Symbols /\ line[x] = P!Main[x]
    BY ONLY <1>6
  <2>. QED
    BY ONLY <1>5, <2>1, SamePiece
<1>10. SubSeq(line, a, b) \in Seq(Symbols) /\ Len(SubSeq(line, a, b)) = b + 1 - a
  <2>1. \A x \in a..b : line[x] \in Symbols
    BY ONLY <1>6
  <2>. QED
    BY ONLY <1>5, <2>1, PieceIs
<1>. QED
  BY ONLY <1>2, <1>5, <1>7, <1>8, <1>9, <1>10

LEMMA WordsTyped ==
  ASSUME LineTyped
  PROVE  /\ P!Words \in Seq(Seq(Symbols)) /\ Len(P!Words) = Count /\ Count \in Nat
         /\ Count >= 1 /\ DOMAIN P!Words = 1..Count
<1>1. Count \in Nat /\ Count >= 1
  BY EndsAre
<1> DEFINE g(k) == SubSeq(P!Main, End(k - 1) + 1, End(k) - 1)
<1>2. P!Words = [k \in 1..Count |-> g(k)]
  BY WordsAre
<1>. HIDE DEF g
<1>3. \A k \in 1..Count : g(k) \in Seq(Symbols)
  BY <1>2, WordIs
<1>. QED
  BY ONLY <1>1, <1>2, <1>3

\* In a conforming line, no word is empty.
LEMMA Apart ==
  ASSUME LineTyped, P!Conforming, NEW k \in 1..Count
  PROVE  End(k - 1) + 2 <= End(k)
<1>1. P!Words[k] # <<>>
  BY WordsTyped DEF P!Conforming
<1>2. /\ End(k - 1) \in Nat /\ End(k) \in Nat /\ End(k - 1) < End(k)
      /\ Word(k) \in Seq(Symbols) /\ Len(Word(k)) = End(k) - End(k - 1) - 1
      /\ P!Words[k] = Word(k)
  BY WordIs
<1>3. Len(Word(k)) # 0
  BY <1>1, <1>2, EmptySeq
<1>. QED
  BY ONLY <1>2, <1>3

\* The spaces before y made ends of strings.
CutTo(y) == [x \in 1..Len(line) |-> IF line[x] = " " /\ x < y THEN "NUL" ELSE line[x]]

\* A string ends at the first NUL.
LEMMA StringIs ==
  ASSUME LineTyped, IRC_RAW \in Seq(Symbols \cup {"NUL"}), Len(IRC_RAW) = Len(line),
         NEW p \in Nat, NEW q \in Nat, 1 <= p, p <= q, q <= Len(line) + 1,
         P!At(q) = "NUL", \A x \in p..(q - 1) : IRC_RAW[x] = line[x]
  PROVE  P!String(p) = SubSeq(line, p, q - 1)
<1> DEFINE l == Len(line)
           Z == {x \in p..(Len(IRC_RAW) + 1) : P!At(x) = "NUL"}
<1>1. l \in Nat /\ line \in Seq(Symbols)
  BY LenProperties DEF LineTyped
<1>2. \A x \in 1..l : line[x] \in Symbols
  BY <1>1, ElementOfSeq
<1>3. \A x \in p..(q - 1) : x \in 1..l /\ ~ (x > l)
  BY <1>1
<1>4. \A x \in p..(q - 1) : P!At(x) # "NUL"
  <2>1. ASSUME NEW x \in p..(q - 1)
        PROVE  P!At(x) = line[x]
    BY <1>3 DEF P!At
  <2>. QED
    BY <1>2, <1>3, <2>1, SymbolsAre
<1>5. q \in Z
  BY <1>1
<1>6. \A x \in Z : q <= x
  <2>1. ASSUME NEW x \in Z
        PROVE  q <= x
    <3>1. x \in Int /\ p <= x /\ P!At(x) = "NUL"
      BY <1>1
    <3>2. ~ (x \in p..(q - 1))
      BY <1>4, <3>1
    <3>. QED
      BY ONLY <3>1, <3>2, p \in Nat, q \in Nat
  <2>. QED
    BY <2>1
<1>7. Z \subseteq Int
  BY <1>1
<1>8. P!Min(Z) = q
  <2>1. P!Min(Z) = CHOOSE z \in Z : \A y \in Z : z <= y
    BY DEF P!Min
  <2>. HIDE DEF Z
  <2>2. \A z \in Z : (\A y \in Z : z <= y) => z = q
    <3>1. ASSUME NEW z \in Z, \A y \in Z : z <= y
          PROVE  z = q
      <4>1. z <= q /\ q <= z /\ z \in Int
        BY <1>5, <1>6, <1>7, <3>1
      <4>. QED
        BY ONLY <4>1, q \in Nat
    <3>. QED
      BY <3>1
  <2>. QED
    BY ONLY <1>5, <1>6, <2>1, <2>2
<1>9. P!String(p) = SubSeq(IRC_RAW, p, q - 1)
  <2>1. p # P!SERVER
    BY DEF P!SERVER
  <2>2. P!String(p) = SubSeq(IRC_RAW, p, P!Min(Z) - 1)
    BY <2>1 DEF P!String
  <2>. HIDE DEF Z
  <2>. QED
    BY ONLY <1>8, <2>2
<1>10. SubSeq(line, p, q - 1) = SubSeq(IRC_RAW, p, q - 1)
  <2> DEFINE b == q - 1
  <2>1. b \in Int /\ p <= b + 1
    OBVIOUS
  <2>2. \A x \in p..b : line[x] \in Symbols /\ IRC_RAW[x] = line[x]
    BY <1>2, <1>3
  <2>. HIDE DEF b
  <2>3. SubSeq(line, p, b) = SubSeq(IRC_RAW, p, b)
    BY ONLY <2>1, <2>2, p \in Nat, SamePiece
  <2>. QED
    BY <2>3 DEF b
<1>. QED
  BY ONLY <1>9, <1>10

-----------------------------------------------------------------------------
(* irc_parse: what the line says *)

\* The strings there are before the loop.
Base == IF line[1] = ":" THEN 1 ELSE 2
Outset == IF line[1] = ":" THEN <<Tail(P!Words[1])>> ELSE <<<<"SERVER">>, P!Words[1]>>

LEMMA FirstStrings ==
  ASSUME LineTyped, P!Conforming
  PROVE  /\ Base \in {1, 2} /\ Outset \in Seq(Seq(Symbols \cup {"SERVER"}))
         /\ Len(Outset) = Base
         /\ line[1] = ":" => Outset[1] = SubSeq(line, 2, End(1) - 1)
         /\ line[1] # ":" => Outset[1] = <<"SERVER">> /\ Outset[2] = SubSeq(line, 1, End(1) - 1)
<1> DEFINE C == Symbols \cup {"SERVER"}
           w == P!Words[1]
           d == End(1) - 1
<1>1. /\ line \in Seq(Symbols) /\ Len(line) \in Nat /\ Len(line) >= 1
  BY LenProperties DEF LineTyped
<1>2. Count \in Nat /\ Count >= 1 /\ 1 \in 1..Count /\ 1 \in 0..Count
  <2>1. Count \in Nat /\ Count >= 1
    BY EndsAre
  <2>. QED
    BY ONLY <2>1
<1>3. End(0) = 0 /\ End(1) \in Nat
  BY <1>2, EndsAre
<1>4. w = SubSeq(line, 1, d) /\ w \in Seq(Symbols)
  <2>1. P!Words[1] = Word(1) /\ Word(1) \in Seq(Symbols)
    BY <1>2, WordIs
  <2>2. Word(1) = SubSeq(line, End(1 - 1) + 1, End(1) - 1)
    BY DEF Word
  <2>3. 1 - 1 = 0 /\ 0 + 1 = 1
    OBVIOUS
  <2>. QED
    BY ONLY <1>3, <2>1, <2>2, <2>3
<1>5. d \in 1..Len(line)
  <2>1. End(1 - 1) + 2 <= End(1)
    BY <1>2, Apart
  <2>2. 1 - 1 = 0
    OBVIOUS
  <2>3. \A x \in (End(1 - 1) + 1)..(End(1) - 1) : x \in 1..Len(P!Main)
    BY <1>2, EndsAre
  <2>4. Len(P!Main) \in Nat /\ Len(P!Main) <= Len(line)
    BY MainIs
  <2>5. 2 <= End(1)
    BY ONLY <1>3, <2>1, <2>2
  <2>6. d \in (End(1 - 1) + 1)..(End(1) - 1)
    BY ONLY <1>3, <2>2, <2>5
  <2>7. d \in 1..Len(P!Main)
    BY <2>3, <2>6
  <2>. QED
    BY ONLY <1>1, <2>4, <2>7
<1>6. Tail(w) = SubSeq(line, 2, d) /\ Tail(w) \in Seq(Symbols)
  <2>. HIDE DEF d
  <2>1. 1 \in 1..Len(line) /\ 1 + 1 = 2
    BY ONLY <1>1
  <2>2. Tail(SubSeq(line, 1, d)) = SubSeq(line, 1 + 1, d)
    BY ONLY <1>1, <1>5, <2>1, HeadTailOfSubSeq
  <2>3. w # <<>>
    <3>1. 1 \in DOMAIN P!Words
      BY <1>2, WordsTyped
    <3>. QED
      BY <3>1 DEF P!Conforming
  <2>4. Tail(w) \in Seq(Symbols)
    <3>. HIDE DEF w
    <3>. QED
      BY ONLY <1>4, <2>3, HeadTailProperties
  <2>. QED
    BY ONLY <1>4, <2>1, <2>2, <2>4
<1>7. /\ w \in Seq(C) /\ Tail(w) \in Seq(C) /\ <<"SERVER">> \in Seq(C)
  <2>1. \A s \in Seq(Symbols) : s \in Seq(C)
    OBVIOUS
  <2>2. "SERVER" \in C
    OBVIOUS
  <2>. HIDE DEF C
  <2>3. <<"SERVER">> \in Seq(C)
    BY ONLY <2>2
  <2>. QED
    BY ONLY <1>4, <1>6, <2>1, <2>3
<1>8. CASE line[1] = ":"
  <2>1. Base = 1 /\ Outset = <<Tail(w)>>
    BY <1>8 DEF Base, Outset
  <2>. HIDE DEF w, C, d
  <2>2. Outset \in Seq(Seq(C)) /\ Len(Outset) = 1 /\ Outset[1] = Tail(w)
    BY ONLY <1>7, <2>1
  <2>. QED
    BY ONLY <1>6, <1>8, <2>1, <2>2 DEF C, d
<1>9. CASE line[1] # ":"
  <2>1. Base = 2 /\ Outset = <<<<"SERVER">>, w>>
    BY <1>9 DEF Base, Outset
  <2>. HIDE DEF w, C, d
  <2> DEFINE z == <<"SERVER">>
  <2>2. z \in Seq(C) /\ Outset = <<z, w>>
    BY ONLY <1>7, <2>1
  <2>. HIDE DEF z
  <2>3. Outset \in Seq(Seq(C)) /\ Len(Outset) = 2 /\ Outset[1] = z /\ Outset[2] = w
    BY ONLY <1>7, <2>2
  <2>. QED
    BY ONLY <1>4, <1>9, <2>1, <2>3 DEF C, d, z
<1>. QED
  BY <1>8, <1>9

\* What is said, by position.
SaidAt ==
  /\ P!Said \in Seq(Seq(Symbols \cup {"SERVER"}))
  /\ Len(P!Said) = Base + (Count - 1) + (IF P!Colons = {} THEN 0 ELSE 1)
  /\ line[1] = ":" => P!Said[1] = SubSeq(line, 2, End(1) - 1)
  /\ line[1] # ":" => P!Said[1] = <<"SERVER">> /\ P!Said[2] = SubSeq(line, 1, End(1) - 1)
  /\ \A k \in 2..Count : P!Said[Base + k - 1] = Word(k)
  /\ P!Colons # {} => P!Said[Base + Count] = SubSeq(line, End(Count) + 2, Len(line))

LEMMA SaidIs ==
  ASSUME LineTyped, P!Conforming
  PROVE  SaidAt
<1> DEFINE C == Symbols \cup {"SERVER"}
           S == Seq(C)
           t == Tail(P!Words)
           u == Outset \o t
           f == P!Final
           g == SubSeq(line, End(Count) + 2, Len(line))
<1>1. /\ Base \in {1, 2} /\ Outset \in Seq(S)
      /\ Len(Outset) = Base
      /\ line[1] = ":" => Outset[1] = SubSeq(line, 2, End(1) - 1)
      /\ line[1] # ":" => Outset[1] = <<"SERVER">> /\ Outset[2] = SubSeq(line, 1, End(1) - 1)
  BY FirstStrings
<1>2. /\ P!Words \in Seq(Seq(Symbols)) /\ Len(P!Words) = Count /\ Count \in Nat /\ Count >= 1
  BY WordsTyped
<1>3. \A k \in 1..Count : P!Words[k] = Word(k)
  BY WordIs
<1>4. \A s \in Seq(Symbols) : s \in S
  OBVIOUS
<1>5. P!Words # <<>>
  <2>1. Len(P!Words) # 0 /\ Len(<<>>) = 0
    BY <1>2
  <2>. QED
    BY ONLY <2>1
<1>6. /\ t \in Seq(Seq(Symbols)) /\ Len(t) = Count - 1
      /\ \A k \in 1..(Count - 1) : t[k] = Word(k + 1)
  <2>1. /\ t \in Seq(Seq(Symbols)) /\ Len(t) = Len(P!Words) - 1
        /\ \A k \in 1..Len(t) : t[k] = P!Words[k + 1]
    BY ONLY <1>2, <1>5, HeadTailProperties
  <2>. HIDE DEF t
  <2>2. Len(t) = Count - 1
    BY ONLY <1>2, <2>1
  <2>3. \A k \in 1..(Count - 1) : k + 1 \in 1..Count
    BY ONLY <1>2
  <2>. QED
    BY ONLY <1>3, <2>1, <2>2, <2>3
<1>7. t \in Seq(S)
  <2>. HIDE DEF t, S
  <2>. QED
    BY ONLY <1>4, <1>6
<1>8. P!Said = u \o f
  BY DEF P!Said, Outset
<1>9. /\ P!Colons = {} => f = <<>>
      /\ P!Colons # {} => f = <<g>> /\ g \in S
  <2>1. P!Colons = {} => f = <<>>
    BY MainIs
  <2>2. ASSUME P!Colons # {}
        PROVE  f = <<g>> /\ g \in S
    <3> DEFINE e == Len(P!Main) + 1
    <3>1. e = End(Count) /\ f = <<SubSeq(line, e + 2, Len(line))>> /\ e \in P!Colons
      BY <2>2, MainIs, EndsAre
    <3>2. f = <<g>>
      BY ONLY <3>1
    <3>3. e \in 1..(Len(line) - 1) /\ Len(line) \in Nat /\ line \in Seq(Symbols)
      BY <3>1, LenProperties DEF P!Colons, LineTyped
    <3>4. g = SubSeq(line, e + 2, Len(line))
      BY ONLY <3>1
    <3>. HIDE DEF e, g, S
    <3> DEFINE a == e + 2
               b == Len(line)
    <3>5. a \in Nat /\ b \in Int /\ a <= b + 1
      BY ONLY <3>3
    <3>6. \A x \in a..b : x \in 1..Len(line)
      BY ONLY <3>3
    <3>7. \A x \in a..b : line[x] \in Symbols
      BY ONLY <3>3, <3>6, ElementOfSeq
    <3>. HIDE DEF a, b
    <3>8. SubSeq(line, a, b) \in Seq(Symbols)
      BY ONLY <3>5, <3>7, PieceIs
    <3>9. g \in Seq(Symbols)
      BY <3>4, <3>8 DEF a, b
    <3>. QED
      BY ONLY <1>4, <3>2, <3>9
  <2>. QED
    BY <2>1, <2>2
<1>. HIDE DEF S, t, u, f, g, C
<1>10. /\ u \in Seq(S) /\ Len(u) = Len(Outset) + Len(t)
       /\ \A x \in 1..(Len(Outset) + Len(t)) :
            u[x] = IF x <= Len(Outset) THEN Outset[x] ELSE t[x - Len(Outset)]
  <2>1. /\ Outset \o t \in Seq(S) /\ Len(Outset \o t) = Len(Outset) + Len(t)
        /\ \A x \in 1..(Len(Outset) + Len(t)) :
             (Outset \o t)[x] = IF x <= Len(Outset) THEN Outset[x] ELSE t[x - Len(Outset)]
    <3>1. Outset \in Seq(S) /\ t \in Seq(S)
      BY ONLY <1>1, <1>7
    <3>. QED
      BY ONLY <3>1, ConcatProperties
  <2>. QED
    BY ONLY <2>1 DEF u
<1> DEFINE c == Base + (Count - 1)
<1>11. /\ Len(u) = c /\ c \in Nat
       /\ \A x \in 1..Base : u[x] = Outset[x]
       /\ \A k \in 2..Count : u[Base + k - 1] = Word(k)
  <2>1. Base \in Nat
    BY ONLY <1>1
  <2>2. Len(u) = c /\ c \in Nat
    BY ONLY <1>1, <1>2, <1>6, <1>10, <2>1
  <2>3. \A x \in 1..Base : x \in 1..(Base + (Count - 1)) /\ x <= Base
    BY ONLY <1>2, <2>1
  <2>4. \A x \in 1..Base : u[x] = Outset[x]
    BY ONLY <1>1, <1>6, <1>10, <2>3
  <2>5. ASSUME NEW k \in 2..Count
        PROVE  u[Base + k - 1] = Word(k)
    <3>1. /\ Base + k - 1 \in 1..(Base + (Count - 1)) /\ ~ (Base + k - 1 <= Base)
          /\ (Base + k - 1) - Base = k - 1 /\ k - 1 \in 1..(Count - 1) /\ (k - 1) + 1 = k
      BY ONLY <1>2, <2>1, k \in 2..Count
    <3>2. u[Base + k - 1] = t[k - 1]
      BY ONLY <1>1, <1>6, <1>10, <3>1
    <3>3. t[k - 1] = Word((k - 1) + 1)
      BY ONLY <1>6, <3>1
    <3>. QED
      BY ONLY <3>1, <3>2, <3>3
  <2>. QED
    BY ONLY <2>2, <2>4, <2>5
<1>12. /\ P!Said \in Seq(S) /\ Len(P!Said) = c + (IF P!Colons = {} THEN 0 ELSE 1)
       /\ \A x \in 1..c : P!Said[x] = u[x]
       /\ P!Colons # {} => P!Said[c + 1] = g
  <2>. HIDE DEF c
  <2>1. f \in Seq(S) /\ Len(f) = (IF P!Colons = {} THEN 0 ELSE 1) /\ (P!Colons # {} => f[1] = g)
    <3>1. CASE P!Colons = {}
      BY ONLY <1>9, <3>1, EmptySeq
    <3>2. CASE P!Colons # {}
      <4>1. f = <<g>> /\ g \in S
        BY ONLY <1>9, <3>2
      <4>. QED
        BY ONLY <3>2, <4>1
    <3>. QED
      BY ONLY <3>1, <3>2
  <2>2. /\ u \o f \in Seq(S) /\ Len(u \o f) = Len(u) + Len(f)
        /\ \A x \in 1..(Len(u) + Len(f)) :
             (u \o f)[x] = IF x <= Len(u) THEN u[x] ELSE f[x - Len(u)]
    <3>1. u \in Seq(S) /\ f \in Seq(S)
      BY ONLY <1>10, <2>1
    <3>. QED
      BY ONLY <3>1, ConcatProperties
  <2>3. /\ P!Said \in Seq(S) /\ Len(P!Said) = c + Len(f)
        /\ \A x \in 1..(c + Len(f)) :
             P!Said[x] = IF x <= c THEN u[x] ELSE f[x - c]
    BY ONLY <1>8, <1>11, <2>2
  <2>4. Len(f) \in Nat /\ (P!Colons # {} => Len(f) = 1)
    BY ONLY <2>1
  <2>5. /\ \A x \in 1..c : x \in 1..(c + Len(f)) /\ x <= c
        /\ (Len(f) = 1 => c + 1 \in 1..(c + Len(f)) /\ ~ (c + 1 <= c) /\ (c + 1) - c = 1)
    BY ONLY <1>11, <2>4
  <2>. QED
    BY ONLY <2>1, <2>3, <2>4, <2>5
<1>13. /\ c + 1 = Base + Count /\ \A k \in 2..Count : Base + k - 1 \in 1..c
       /\ \A x \in 1..Base : x \in 1..c
       /\ (Base = 1 => 1 \in 1..Base) /\ (Base = 2 => 1 \in 1..Base /\ 2 \in 1..Base)
  <2>1. Base \in Nat /\ Base >= 1
    BY ONLY <1>1
  <2>. QED
    BY ONLY <1>2, <2>1
<1>14. (line[1] = ":" => Base = 1) /\ (line[1] # ":" => Base = 2)
  BY DEF Base
<1>15. /\ line[1] = ":" => P!Said[1] = Outset[1]
       /\ line[1] # ":" => P!Said[1] = Outset[1] /\ P!Said[2] = Outset[2]
  BY ONLY <1>11, <1>12, <1>13, <1>14
<1>16. \A k \in 2..Count : P!Said[Base + k - 1] = Word(k)
  BY ONLY <1>11, <1>12, <1>13
<1>17. P!Colons # {} => P!Said[Base + Count] = g
  BY ONLY <1>12, <1>13
<1>. QED
  BY ONLY <1>1, <1>12, <1>15, <1>16, <1>17 DEF SaidAt, S, C, g

-----------------------------------------------------------------------------
(* irc_parse: the strings of the line once it is cut *)

\* A line, cut up to one of its ends.
LEMMA CutTyped ==
  ASSUME LineTyped, NEW y \in Nat
  PROVE  /\ CutTo(y) \in Seq(Symbols \cup {"NUL"}) /\ Len(CutTo(y)) = Len(line)
         /\ Len(line) \in Nat /\ line \in Seq(Symbols)
         /\ \A x \in 1..Len(line) :
              /\ line[x] \in Symbols
              /\ CutTo(y)[x] = IF line[x] = " " /\ x < y THEN "NUL" ELSE line[x]
<1> DEFINE l == Len(line)
           h(x) == IF line[x] = " " /\ x < y THEN "NUL" ELSE line[x]
<1>1. l \in Nat /\ line \in Seq(Symbols)
  BY LenProperties DEF LineTyped
<1>2. \A x \in 1..l : line[x] \in Symbols
  BY <1>1, ElementOfSeq
<1>3. \A x \in 1..l : h(x) \in Symbols \cup {"NUL"}
  BY <1>2
<1>4. CutTo(y) = [x \in 1..l |-> h(x)]
  BY DEF CutTo
<1>5. \A x \in 1..l : CutTo(y)[x] = h(x)
  BY <1>4
<1>6. CutTo(y) \in Seq(Symbols \cup {"NUL"}) /\ Len(CutTo(y)) = l
  <2>. HIDE DEF h, l
  <2>. QED
    BY ONLY <1>1, <1>3, <1>4
<1>. QED
  BY ONLY <1>1, <1>2, <1>5, <1>6

\* Cutting at the next end.
LEMMA CutNext ==
  ASSUME LineTyped, NEW k \in 1..Count
  PROVE  /\ End(k) <= Len(line) /\ line[End(k)] = " " =>
              [CutTo(End(k - 1) + 1) EXCEPT ![End(k)] = "NUL"] = CutTo(End(k) + 1)
         /\ End(k) = Len(line) + 1 => CutTo(End(k - 1) + 1) = CutTo(End(k) + 1)
<1> DEFINE a == End(k - 1)
           b == End(k)
           l == Len(line)
           s == CutTo(a + 1)
           t == CutTo(b + 1)
<1>1. a \in Nat /\ b \in Nat /\ a < b
  BY WordIs
<1>2. \A x \in (a + 1)..(b - 1) : line[x] # " "
  BY EndsAre
<1>3. /\ l \in Nat
      /\ s = [x \in 1..l |-> IF line[x] = " " /\ x < a + 1 THEN "NUL" ELSE line[x]]
      /\ t = [x \in 1..l |-> IF line[x] = " " /\ x < b + 1 THEN "NUL" ELSE line[x]]
  BY LenProperties DEF CutTo, LineTyped
<1>. HIDE DEF a, b, s, t, l
<1>3a. l \in Nat
  BY ONLY <1>3
<1>4. ASSUME NEW x \in 1..l, x # b, line[x] = " "
      PROVE  x < a + 1 <=> x < b + 1
  <2>1. ~ (x \in (a + 1)..(b - 1))
    BY ONLY <1>2, <1>4
  <2>. QED
    BY ONLY <1>1, <1>3a, x \in 1..l, x # b, <2>1
<1>5. \A x \in 1..l : x # b => s[x] = t[x]
  BY ONLY <1>3, <1>4
<1>6. ASSUME b <= l, line[b] = " "
      PROVE  [s EXCEPT ![b] = "NUL"] = t
  <2>0. b >= 1
    BY ONLY <1>1
  <2>1. b \in 1..l /\ b < b + 1
    BY ONLY <1>1, <1>3a, b <= l, <2>0
  <2>2. t[b] = "NUL"
    BY ONLY <1>3, <1>6, <2>1
  <2>3. DOMAIN s = 1..l /\ DOMAIN t = 1..l
    BY ONLY <1>3
  <2>4. [s EXCEPT ![b] = "NUL"] = [x \in 1..l |-> IF x = b THEN "NUL" ELSE s[x]]
    BY ONLY <2>3
  <2>5. t = [x \in 1..l |-> t[x]]
    BY ONLY <1>3
  <2>. QED
    BY ONLY <1>5, <2>2, <2>4, <2>5
<1>7. ASSUME b = l + 1
      PROVE  s = t
  <2>1. \A x \in 1..l : x # b
    BY ONLY <1>3a, <1>7
  <2>2. t = [x \in 1..l |-> t[x]] /\ s = [x \in 1..l |-> s[x]]
    BY ONLY <1>3
  <2>. QED
    BY ONLY <1>5, <2>1, <2>2
<1>. QED
  BY <1>6, <1>7 DEF a, b, s, t, l

\* The order of the ends.
LEMMA EndsOrder ==
  ASSUME LineTyped, NEW k \in 0..Count
  PROVE  /\ End(k) \in Nat /\ End(k) <= End(Count) /\ End(Count) \in Nat
         /\ End(Count) <= Len(line) + 1
         /\ k < Count => End(k) < End(Count)
         /\ k > 0 => End(k) > 0
<1>0. Count \in Nat /\ Count >= 1 /\ Len(P!Main) \in Nat /\ Len(P!Main) <= Len(line) /\ Len(line) \in Nat
  BY EndsAre, MainIs
<1>1. End(Count) = Len(P!Main) + 1 /\ End(0) = 0 /\ End(k) \in Nat
  BY EndsAre
<1>2. CASE k = Count
  BY ONLY <1>0, <1>1, <1>2
<1>3. CASE k = 0
  BY ONLY <1>0, <1>1, <1>3
<1>4. CASE k # 0 /\ k # Count
  <2>1. k \in 1..(Count - 1)
    BY ONLY <1>0, <1>4, k \in 0..Count
  <2>2. End(k) \in 1..Len(P!Main)
    BY <2>1, EndsAre
  <2>. QED
    BY ONLY <1>0, <1>1, <2>2
<1>. QED
  BY <1>2, <1>3, <1>4

\* A string that begins in a word goes to its end.
LEMMA StringAt ==
  ASSUME LineTyped, IRC_RAW = CutTo(End(Count) + 1), NEW k \in 1..Count,
         NEW p \in Nat, End(k - 1) + 1 <= p, p <= End(k)
  PROVE  P!String(p) = SubSeq(line, p, End(k) - 1)
<1> DEFINE q == End(k)
           l == Len(line)
           y == End(Count) + 1
<1>0. Count \in Nat
  BY EndsAre
<1>1. k \in 0..Count /\ k - 1 \in 0..Count
  BY ONLY <1>0, k \in 1..Count
<1>2. q \in Nat /\ q <= End(Count) /\ End(Count) \in Nat /\ End(Count) <= l + 1
  BY <1>1, EndsOrder
<1>3. End(k - 1) \in Nat
  BY <1>1, EndsOrder
<1>4. y \in Nat
  BY ONLY <1>2
<1>5. /\ IRC_RAW \in Seq(Symbols \cup {"NUL"}) /\ Len(IRC_RAW) = l
      /\ l \in Nat /\ \A x \in 1..l : IRC_RAW[x] = IF line[x] = " " /\ x < y THEN "NUL" ELSE line[x]
  <2>. HIDE DEF y
  <2>1. IRC_RAW = CutTo(y)
    BY DEF y
  <2>2. /\ CutTo(y) \in Seq(Symbols \cup {"NUL"}) /\ Len(CutTo(y)) = Len(line)
        /\ Len(line) \in Nat
        /\ \A x \in 1..Len(line) : CutTo(y)[x] = IF line[x] = " " /\ x < y THEN "NUL" ELSE line[x]
    BY <1>4, CutTyped
  <2>. QED
    BY ONLY <2>1, <2>2
<1>3a. l \in Nat /\ Len(IRC_RAW) = l
  BY ONLY <1>5
<1>6. \A x \in (End(k - 1) + 1)..(q - 1) : line[x] # " "
  BY EndsAre
<1>7. \A x \in p..(q - 1) : IRC_RAW[x] = line[x]
  <2>1. \A x \in p..(q - 1) : x \in (End(k - 1) + 1)..(q - 1) /\ x \in 1..l
    BY ONLY <1>2, <1>3, <1>3a, p \in Nat, End(k - 1) + 1 <= p, p <= End(k)
  <2>. QED
    BY ONLY <1>5, <1>6, <2>1
<1>8. P!At(q) = "NUL"
  <2>1. CASE q = l + 1
    <3>1. q > Len(IRC_RAW)
      BY ONLY <1>3a, <2>1
    <3>. QED
      BY <3>1 DEF P!At
  <2>2. CASE q # l + 1
    <3>1. q <= l /\ q >= 1
      BY ONLY <1>2, <1>3, <1>3a, <2>2, End(k - 1) + 1 <= p, p <= End(k), p \in Nat
    <3>2. q \in 1..l /\ q < y /\ ~ (q > Len(IRC_RAW))
      BY ONLY <1>2, <1>3a, <3>1
    <3>3. line[q] = " "
      <4>1. CASE k = Count
        <5>1. q = Len(P!Main) + 1
          BY <4>1, EndsAre
        <5>2. P!Colons # {}
          BY <2>2, <5>1, MainIs
        <5>3. q \in P!Colons
          BY <5>1, <5>2, MainIs
        <5>. QED
          BY <5>3 DEF P!Colons
      <4>2. CASE k # Count
        <5>1. k \in 1..(Count - 1)
          BY ONLY <1>0, <4>2, k \in 1..Count
        <5>. QED
          BY <5>1, EndsAre
      <4>. QED
        BY <4>1, <4>2
    <3>4. IRC_RAW[q] = "NUL"
      BY ONLY <1>5, <3>2, <3>3
    <3>. QED
      BY <3>2, <3>4 DEF P!At
  <2>. QED
    BY <2>1, <2>2
<1>9. 1 <= p /\ p <= q /\ q <= l + 1
  BY ONLY <1>2, <1>3, <1>3a, p \in Nat, End(k - 1) + 1 <= p, p <= End(k)
<1>. HIDE DEF q, l
<1>10. P!String(p) = SubSeq(line, p, q - 1)
  BY ONLY <1>2, <1>5, <1>7, <1>8, <1>9, LineTyped, p \in Nat, StringIs DEF l
<1>. QED
  BY <1>10 DEF q

\* The final string goes to the end of the line.
LEMMA FinalString ==
  ASSUME LineTyped, IRC_RAW = CutTo(End(Count) + 1), P!Colons # {}
  PROVE  P!String(End(Count) + 2) = SubSeq(line, End(Count) + 2, Len(line))
<1> DEFINE e == End(Count)
           p == e + 2
           l == Len(line)
           q == l + 1
           y == e + 1
<1>1. e \in P!Colons
  BY EndsAre, MainIs
<1>2. l \in Nat /\ e \in 1..(l - 1)
  BY <1>1, LenProperties DEF P!Colons, LineTyped
<1>. HIDE DEF e, l
<1>3. p \in Nat /\ q \in Nat /\ y \in Nat /\ 1 <= p /\ p <= q /\ q <= l + 1 /\ q - 1 = l
  BY ONLY <1>2
<1>4. /\ IRC_RAW \in Seq(Symbols \cup {"NUL"}) /\ Len(IRC_RAW) = l
      /\ \A x \in 1..l : IRC_RAW[x] = IF line[x] = " " /\ x < y THEN "NUL" ELSE line[x]
  <2>1. IRC_RAW = CutTo(y)
    BY DEF y, e
  <2>. HIDE DEF y
  <2>2. /\ CutTo(y) \in Seq(Symbols \cup {"NUL"}) /\ Len(CutTo(y)) = Len(line)
        /\ \A x \in 1..Len(line) : CutTo(y)[x] = IF line[x] = " " /\ x < y THEN "NUL" ELSE line[x]
    BY <1>3, CutTyped
  <2>. QED
    BY ONLY <2>1, <2>2 DEF l
<1>5. \A x \in p..(q - 1) : IRC_RAW[x] = line[x]
  <2>1. \A x \in p..(q - 1) : x \in 1..l /\ ~ (x < y)
    BY ONLY <1>2, <1>3
  <2>. QED
    BY ONLY <1>4, <2>1
<1>6. P!At(q) = "NUL"
  <2>1. q > l /\ Len(IRC_RAW) = l
    <3>1. q > l
      BY ONLY <1>2
    <3>. QED
      BY ONLY <3>1, <1>4
  <2>. QED
    BY <2>1 DEF P!At
<1>. HIDE DEF p, q
<1>7. P!String(p) = SubSeq(line, p, q - 1)
  BY ONLY <1>3, <1>4, <1>5, <1>6, LineTyped, StringIs DEF l
<1>. QED
  BY <1>3, <1>7 DEF p, e, l

-----------------------------------------------------------------------------
(* irc_parse: the loop *)

\* The source, and the command where it is not.
Given(v) ==
  /\ v \in [0..(PARVMAX - 1) -> Int]
  /\ line[1] = ":" => v[0] = 2
  /\ line[1] # ":" => v[0] = P!SERVER /\ v[1] = 1

\* Before a round: r + 1 words are found, and the line is cut behind the first r.
AtWord(r, raw, p, c, v) ==
  /\ r \in 0..(Count - 1) /\ p = End(r) + 1 /\ c = Base + r /\ raw = CutTo(End(r) + 1)
  /\ Given(v) /\ \A j \in 1..r : v[Base - 1 + j] = End(j) + 1

\* After the last one.
AllCut(raw, c, v) ==
  /\ raw = CutTo(End(Count) + 1) /\ c = Len(P!Said)
  /\ Given(v) /\ \A j \in 1..(Count - 1) : v[Base - 1 + j] = End(j) + 1
  /\ P!Colons # {} => v[Base - 1 + Count] = End(Count) + 2

InLoop(raw, p, c, v) == \E r : AtWord(r, raw, p, c, v)

\* What a line that conforms is cut to.
Parsed(raw, p, c, v, state) ==
  /\ state \in {"none", "loop", "handler"}
  /\ state = "loop" => InLoop(raw, p, c, v)
  /\ state = "handler" => AllCut(raw, c, v)

ParseInv == LineTyped /\ (P!Conforming => Parsed(IRC_RAW, ppos, parc, parv, ppc))

LEMMA LineKept ==
  ASSUME line' = line
  PROVE  /\ LineTyped' = LineTyped /\ P!Conforming' = P!Conforming /\ Count' = Count /\ Base' = Base
         /\ P!Colons' = P!Colons /\ P!Said' = P!Said
         /\ \A k : End(k)' = End(k)
         /\ \A k : CutTo(k)' = CutTo(k)
<1>1. P!Colons' = P!Colons
  BY DEF P!Colons
<1>2. P!Main' = P!Main /\ P!Final' = P!Final
  BY <1>1 DEF P!Main, P!Final
<1>3. Ends' = Ends
  BY <1>2 DEF Ends
<1>4. P!Words' = P!Words
  BY <1>2 DEF P!Words
<1>5. P!Said' = P!Said
  BY <1>2, <1>4 DEF P!Said
<1>6. P!Conforming' = P!Conforming
  BY <1>4, <1>5 DEF P!Conforming
<1>7. ASSUME NEW CONSTANT k
      PROVE  End(k)' = End(k)
  BY <1>3 DEF End
<1>8. Count' = Count
  BY <1>3 DEF Count
<1>. QED
  BY <1>1, <1>5, <1>6, <1>7, <1>8 DEF LineTyped, Base, CutTo, Symbols

\* What a round finds: the end of the next word, and a final string only behind
\* the last one.
LEMMA WordFound ==
  ASSUME LineTyped, NEW r \in 0..(Count - 1), IRC_RAW = CutTo(End(r) + 1), ppos = End(r) + 1
  PROVE  /\ r + 1 = Count /\ P!Colons = {} => P!strchr = 0 /\ End(r + 1) = Len(line) + 1
         /\ ~ (r + 1 = Count /\ P!Colons = {}) =>
              /\ P!strchr = End(r + 1) /\ P!strchr # 0
              /\ End(r + 1) <= Len(line) /\ line[End(r + 1)] = " "
              /\ P!At(End(r + 1) + 1) = ":" <=> r + 1 = Count
<1> DEFINE k == r + 1
           a == End(r) + 1
           b == End(k)
           l == Len(line)
           Z == {x \in ppos..Len(IRC_RAW) : P!At(x) = " "}
<1>0. Count \in Nat
  BY EndsAre
<1>1. k \in 1..Count /\ k - 1 = r /\ r \in 0..Count /\ k \in 0..Count
  BY ONLY <1>0, r \in 0..(Count - 1)
<1>2. End(r) \in Nat /\ b \in Nat /\ End(r) < b
  <2>1. End(k - 1) \in Nat /\ End(k) \in Nat /\ End(k - 1) < End(k)
    BY <1>1, WordIs
  <2>. QED
    BY ONLY <1>1, <2>1
<1>3. a \in Nat /\ a >= 1 /\ b >= a
  BY ONLY <1>2
<1>4. /\ Len(IRC_RAW) = l /\ l \in Nat /\ ppos = a
      /\ \A x \in 1..l : /\ line[x] \in Symbols
                         /\ IRC_RAW[x] = IF line[x] = " " /\ x < a THEN "NUL" ELSE line[x]
  <2>1. IRC_RAW = CutTo(a) /\ ppos = a
    OBVIOUS
  <2>. HIDE DEF a
  <2>2. /\ Len(CutTo(a)) = Len(line) /\ Len(line) \in Nat
        /\ \A x \in 1..Len(line) :
              /\ line[x] \in Symbols
              /\ CutTo(a)[x] = IF line[x] = " " /\ x < a THEN "NUL" ELSE line[x]
    BY <1>3, CutTyped
  <2>. QED
    BY ONLY <2>1, <2>2
<1>5. Len(IRC_RAW) = l /\ l \in Nat
  BY ONLY <1>4
<1>6. \A x \in a..l : P!At(x) = line[x]
  <2>1. \A x \in a..l : x \in 1..l /\ ~ (x < a) /\ ~ (x > l)
    BY ONLY <1>3, <1>5
  <2>2. \A x \in a..l : IRC_RAW[x] = line[x]
    BY ONLY <1>4, <2>1
  <2>. QED
    BY <1>5, <2>1, <2>2 DEF P!At
<1>7. \A x \in a..(b - 1) : line[x] # " "
  <2>1. \A x \in (End(k - 1) + 1)..(End(k) - 1) : line[x] # " "
    BY <1>1, EndsAre
  <2>. QED
    BY ONLY <1>1, <2>1
<1>8. P!strchr = IF Z = {} THEN 0 ELSE P!Min(Z)
  BY DEF P!strchr
<1>9. \A x : x \in Z <=> x \in a..l /\ line[x] = " "
  BY <1>4, <1>6
<1>10. CASE k = Count /\ P!Colons = {}
  <2>1. b = l + 1
    BY <1>10, EndsAre, MainIs
  <2>2. a..l = a..(b - 1)
    BY ONLY <1>3, <1>5, <2>1
  <2>3. Z = {}
    BY ONLY <1>7, <1>9, <2>2
  <2>. QED
    BY ONLY <1>8, <1>10, <2>1, <2>3
<1>11. CASE ~ (k = Count /\ P!Colons = {})
  <2>1. b \in 1..l /\ line[b] = " "
    <3>1. CASE k = Count
      <4>1. b \in P!Colons
        BY <1>11, <3>1, EndsAre, MainIs
      <4>2. b \in 1..(l - 1)
        BY <4>1 DEF P!Colons
      <4>3. line[b] = " "
        BY <4>1 DEF P!Colons
      <4>4. b \in 1..l
        BY ONLY <1>5, <4>2
      <4>. QED
        BY ONLY <4>3, <4>4
    <3>2. CASE k # Count
      <4>1. k \in 1..(Count - 1)
        BY ONLY <1>0, <1>1, <3>2
      <4>2. b \in 1..Len(P!Main)
        BY <4>1, EndsAre
      <4>3. Len(P!Main) \in Nat /\ Len(P!Main) <= l
        BY MainIs
      <4>4. b \in 1..l
        BY ONLY <1>5, <4>2, <4>3
      <4>5. line[b] = " "
        BY <4>1, EndsAre
      <4>. QED
        BY ONLY <4>4, <4>5
    <3>. QED
      BY ONLY <3>1, <3>2
  <2>0. b \in 1..l
    BY ONLY <2>1
  <2>2. b \in a..l
    BY ONLY <1>2, <1>3, <1>5, <2>0
  <2>3. b \in Z
    BY ONLY <1>9, <2>1, <2>2
  <2>4. \A x \in Z : x \in Int /\ b <= x
    <3>. HIDE DEF Z
    <3>1. ASSUME NEW x \in Z
          PROVE  x \in Int /\ b <= x
      <4>1. x \in a..l /\ line[x] = " "
        BY <1>9
      <4>2. ~ (x \in a..(b - 1))
        BY <1>7, <4>1
      <4>3. x \in a..l
        BY <4>1
      <4>. QED
        BY ONLY <1>3, <1>5, <1>2, <4>2, <4>3
    <3>. QED
      BY <3>1
  <2>. HIDE DEF Z, a, b, k, l
  <2>5. P!Min(Z) = b
    <3>1. P!Min(Z) = CHOOSE z \in Z : \A y \in Z : z <= y
      BY DEF P!Min
    <3>2. \A z \in Z : (\A y \in Z : z <= y) => z = b
      <4>1. ASSUME NEW z \in Z, \A y \in Z : z <= y
            PROVE  z = b
        <5>1. z <= b /\ b <= z /\ z \in Int
          BY <2>3, <2>4, <4>1
        <5>. QED
          BY ONLY <5>1, <1>2
      <4>. QED
        BY <4>1
    <3>. QED
      BY ONLY <2>3, <2>4, <3>1, <3>2
  <2>6. P!strchr = b /\ b # 0
    <3>1. b # 0
      BY ONLY <1>2, <1>3
    <3>. QED
      BY ONLY <1>8, <2>3, <2>5, <3>1
  <2>7. P!At(b + 1) = ":" <=> k = Count
    <3>1. CASE k = Count
      <4>1. b \in P!Colons
        BY <1>11, <3>1, EndsAre, MainIs DEF b
      <4>2. b \in 1..(l - 1) /\ line[b + 1] = ":"
        BY <4>1 DEF P!Colons, l
      <4>3. b + 1 \in a..l
        BY ONLY <1>3, <1>2, <1>5, <4>2
      <4>. QED
        BY ONLY <1>6, <3>1, <4>2, <4>3
    <3>2. CASE k # Count
      <4>1. k \in 1..(Count - 1)
        BY ONLY <1>0, <1>1, <3>2
      <4>2. b \in 1..Len(P!Main)
        BY <4>1, EndsAre DEF b
      <4>3. Len(P!Main) \in Nat /\ (P!Colons # {} => \A y \in P!Colons : Len(P!Main) + 1 <= y)
        BY MainIs
      <4>4. b \notin P!Colons
        <5>1. ASSUME b \in P!Colons
              PROVE  FALSE
          <6>1. Len(P!Main) + 1 <= b /\ Len(P!Main) \in Nat
            BY <4>3, <5>1
          <6>. QED
            BY ONLY <4>2, <6>1
        <5>. QED
          BY <5>1
      <4>5. CASE b = l
        <5>1. b + 1 > Len(IRC_RAW)
          BY ONLY <1>5, <4>5
        <5>2. P!At(b + 1) = "NUL"
          BY <5>1 DEF P!At
        <5>. QED
          BY ONLY <3>2, <5>2
      <4>6. CASE b # l
        <5>1. b \in 1..(l - 1) /\ b + 1 \in a..l
          BY ONLY <1>5, <1>2, <1>3, <2>0, <4>6
        <5>2. line[b + 1] # ":"
          BY <2>1, <4>4, <5>1 DEF P!Colons, l
        <5>. QED
          BY ONLY <1>6, <3>2, <5>1, <5>2
      <4>. QED
        BY ONLY <4>5, <4>6
    <3>. QED
      BY ONLY <3>1, <3>2
  <2>8. b <= l
    BY ONLY <2>0, <1>5
  <2>. QED
    BY ONLY <1>11, <2>1, <2>6, <2>7, <2>8 DEF b, k, l
<1>. QED
  BY <1>10, <1>11

\* A string is stored within parv, behind those that are there.
LEMMA GivenMore ==
  ASSUME NEW v, Given(v), NEW c \in Base..(PARVMAX - 1), NEW p \in Int, Base \in {1, 2},
         PARVMAX \in Nat
  PROVE  /\ Given([v EXCEPT ![c] = p])
         /\ [v EXCEPT ![c] = p][c] = p
         /\ \A x \in 0..(c - 1) : [v EXCEPT ![c] = p][x] = v[x]
<1> DEFINE D0 == 0..(PARVMAX - 1)
           w == [v EXCEPT ![c] = p]
<1>1. v \in [D0 -> Int]
  BY DEF Given
<1>2. c \in D0 /\ c >= 1 /\ (line[1] # ":" => c >= 2) /\ \A x \in 0..(c - 1) : x \in D0 /\ x # c
  <2>1. line[1] # ":" => Base = 2
    BY DEF Base
  <2>2. c \in D0 /\ c >= 1 /\ (Base = 2 => c >= 2) /\ \A x \in 0..(c - 1) : x \in D0 /\ x # c
    <3>1. CASE Base = 1
      BY ONLY <3>1, c \in Base..(PARVMAX - 1), PARVMAX \in Nat
    <3>2. CASE Base = 2
      BY ONLY <3>2, c \in Base..(PARVMAX - 1), PARVMAX \in Nat
    <3>. QED
      BY ONLY <3>1, <3>2, Base \in {1, 2}
  <2>. QED
    BY ONLY <2>1, <2>2
<1>. HIDE DEF D0
<1>3. w \in [D0 -> Int] /\ w[c] = p /\ \A x \in D0 : x # c => w[x] = v[x]
  BY ONLY <1>1, <1>2, p \in Int
<1>. HIDE DEF w
<1>4. 0 \in 0..(c - 1) /\ (line[1] # ":" => 1 \in 0..(c - 1))
  <2>1. c \in Int
    BY ONLY c \in Base..(PARVMAX - 1)
  <2>2. c >= 1 => 0 \in 0..(c - 1)
    BY ONLY <2>1
  <2>3. c >= 2 => 1 \in 0..(c - 1)
    BY ONLY <2>1
  <2>. QED
    BY ONLY <1>2, <2>2, <2>3
<1>5. \A x \in 0..(c - 1) : w[x] = v[x]
  BY ONLY <1>2, <1>3
<1>6. Given(w)
  <2>1. w[0] = v[0] /\ (line[1] # ":" => w[1] = v[1])
    BY ONLY <1>4, <1>5
  <2>. QED
    BY <1>3, <2>1 DEF Given, D0
<1>. QED
  BY <1>3, <1>5, <1>6 DEF w

LEMMA WordStep ==
  ASSUME LineTyped, P!Conforming, NEW r, AtWord(r, IRC_RAW, ppos, parc, parv),
         ppc = "loop", P!Next
  PROVE  Parsed(IRC_RAW', ppos', parc', parv', ppc')
<1> DEFINE k == r + 1
           b == End(k)
           more == Count - 1
<1>0. Count \in Nat /\ Count >= 1
  BY EndsAre
<1>1. /\ r \in 0..more /\ ppos = End(r) + 1 /\ parc = Base + r /\ IRC_RAW = CutTo(End(r) + 1)
      /\ Given(parv) /\ \A j \in 1..r : parv[Base - 1 + j] = End(j) + 1
  BY DEF AtWord
<1>2. k \in 1..Count /\ k - 1 = r /\ r \in Nat /\ k \in 0..Count
  <2>1. r \in 0..more
    BY ONLY <1>1
  <2>. QED
    BY ONLY <1>0, <2>1
<1>3. /\ k = Count /\ P!Colons = {} => P!strchr = 0 /\ b = Len(line) + 1
      /\ ~ (k = Count /\ P!Colons = {}) =>
              /\ P!strchr = b /\ P!strchr # 0
              /\ b <= Len(line) /\ line[b] = " "
              /\ P!At(b + 1) = ":" <=> k = Count
  BY <1>1, WordFound
<1>4. /\ b <= Len(line) /\ line[b] = " " => [IRC_RAW EXCEPT ![b] = "NUL"] = CutTo(b + 1)
      /\ b = Len(line) + 1 => IRC_RAW = CutTo(b + 1)
  <2>1. /\ End(k) <= Len(line) /\ line[End(k)] = " " =>
              [CutTo(End(k - 1) + 1) EXCEPT ![End(k)] = "NUL"] = CutTo(End(k) + 1)
        /\ End(k) = Len(line) + 1 => CutTo(End(k - 1) + 1) = CutTo(End(k) + 1)
    BY <1>2, CutNext
  <2>. QED
    BY ONLY <1>1, <1>2, <2>1
<1>5. /\ Base \in {1, 2} /\ Len(P!Said) = Base + more + (IF P!Colons = {} THEN 0 ELSE 1)
      /\ Len(P!Said) <= PARVMAX /\ PARVMAX \in Nat
  BY FirstStrings, SaidIs, RoutinesConfig DEF SaidAt, P!Conforming, P!ParseConfig
<1>6. b \in Nat
  BY <1>2, EndsOrder
<1>7. CASE k = Count /\ P!Colons = {}
  <2>1. P!parse_done
    BY <1>3, <1>7 DEF P!Next, P!Found, P!parse_rest, P!parse_word
  <2>2. /\ ppc' = "handler" /\ UNCHANGED <<line, IRC_RAW, ppos, parc, parv>>
    BY <2>1 DEF P!parse_done
  <2>3. r = more
    BY ONLY <1>0, <1>2, <1>7
  <2>4. parc = Len(P!Said)
    <3>1. Len(P!Said) = Base + more + 0
      BY ONLY <1>5, <1>7
    <3>. QED
      BY ONLY <1>0, <1>1, <1>5, <2>3, <3>1
  <2>5. IRC_RAW = CutTo(End(Count) + 1)
    BY ONLY <1>3, <1>4, <1>7
  <2>6. AllCut(IRC_RAW, parc, parv)
    BY ONLY <1>1, <1>7, <2>3, <2>4, <2>5 DEF AllCut
  <2>. QED
    BY ONLY <2>2, <2>6 DEF Parsed
<1>8. CASE ~ (k = Count /\ P!Colons = {})
  <2>1. /\ P!strchr = b /\ P!strchr # 0 /\ [IRC_RAW EXCEPT ![b] = "NUL"] = CutTo(b + 1)
        /\ P!At(b + 1) = ":" <=> k = Count
    BY ONLY <1>3, <1>4, <1>8
  <2>2. parc \in Base..(PARVMAX - 1)
    <3>1. parc = Base + r /\ Base \in Nat
      BY ONLY <1>1, <1>5
    <3>2. Len(P!Said) <= PARVMAX /\ PARVMAX \in Nat
      BY ONLY <1>5
    <3>3. r < more + (IF P!Colons = {} THEN 0 ELSE 1)
      <4>1. CASE P!Colons = {}
        <5>1. k # Count
          BY ONLY <1>8, <4>1
        <5>2. r < more + 0
          BY ONLY <1>0, <1>2, <5>1
        <5>. QED
          BY ONLY <4>1, <5>2
      <4>2. CASE P!Colons # {}
        <5>1. r < more + 1
          BY ONLY <1>0, <1>2
        <5>. QED
          BY ONLY <4>2, <5>1
      <4>. QED
        BY ONLY <4>1, <4>2
    <3> DEFINE x == IF P!Colons = {} THEN 0 ELSE 1
    <3>4. x \in Nat
      OBVIOUS
    <3>5. Len(P!Said) = Base + more + x /\ r < more + x
      BY ONLY <1>5, <3>3
    <3>. HIDE DEF x
    <3>. QED
      BY ONLY <1>0, <1>2, <3>1, <3>2, <3>4, <3>5
  <2>3. parc <= PARVMAX /\ parc < PARVMAX /\ parc \in Int
    <3>1. parc = Base + r /\ Base \in Nat
      BY ONLY <1>1, <1>5
    <3>2. PARVMAX \in Nat
      BY ONLY <1>5
    <3>. QED
      BY ONLY <1>2, <2>2, <3>1, <3>2
  <2>4. P!Found
    BY <2>1, <2>3 DEF P!Found
  <2>5. ~ P!parse_done
    BY <2>4 DEF P!parse_done
  <2>6. ASSUME NEW p \in Int
        PROVE  /\ Given([parv EXCEPT ![parc] = p])
               /\ [parv EXCEPT ![parc] = p][Base - 1 + k] = p
               /\ \A j \in 1..r : [parv EXCEPT ![parc] = p][Base - 1 + j] = End(j) + 1
    <3> DEFINE w == [parv EXCEPT ![parc] = p]
    <3>1. Given(parv) /\ Base \in {1, 2} /\ PARVMAX \in Nat
      BY ONLY <1>1, <1>5
    <3>2. /\ Given(w) /\ w[parc] = p
          /\ \A x \in 0..(parc - 1) : w[x] = parv[x]
      BY ONLY <2>2, <2>6, <3>1, GivenMore
    <3>. HIDE DEF w
    <3>3. parc = Base + r
      BY ONLY <1>1
    <3>4. Base \in Nat /\ Base >= 1
      BY ONLY <3>1
    <3>5. Base - 1 + k = parc /\ \A j \in 1..r : Base - 1 + j \in 0..(parc - 1)
      BY ONLY <1>2, <3>3, <3>4
    <3>6. \A j \in 1..r : w[Base - 1 + j] = parv[Base - 1 + j]
      BY ONLY <3>2, <3>5
    <3>7. \A j \in 1..r : w[Base - 1 + j] = End(j) + 1
      BY ONLY <1>1, <3>6
    <3>. QED
      BY ONLY <3>2, <3>5, <3>7 DEF w
  <2>7. CASE k = Count
    <3>1. P!parse_rest
      BY <2>1, <2>5, <2>7 DEF P!Next, P!parse_word
    <3>2. /\ P!Store(b + 2) /\ ppc' = "handler"
      BY <2>1, <2>3, <3>1 DEF P!parse_rest, P!Unless_beyond
    <3>3. parc' = parc + 1 /\ parv' = [parv EXCEPT ![parc] = b + 2] /\ IRC_RAW' = CutTo(b + 1)
      BY <2>1, <2>3, <3>2 DEF P!Store
    <3>4. b + 2 \in Int
      BY ONLY <1>6
    <3>5. /\ Given(parv') /\ parv'[Base - 1 + k] = b + 2
          /\ \A j \in 1..r : parv'[Base - 1 + j] = End(j) + 1
      BY ONLY <2>6, <3>3, <3>4
    <3>6. r = more
      BY ONLY <1>0, <1>2, <2>7
    <3>7. P!Colons # {}
      BY ONLY <1>8, <2>7
    <3>8. parc + 1 = Len(P!Said)
      <4>1. Len(P!Said) = Base + more + 1
        BY ONLY <1>5, <3>7
      <4>2. parc = Base + more /\ Base \in Nat
        BY ONLY <1>1, <1>5, <3>6
      <4>. QED
        BY ONLY <1>0, <4>1, <4>2
    <3>9. AllCut(IRC_RAW', parc', parv')
      BY ONLY <2>7, <3>3, <3>5, <3>6, <3>8 DEF AllCut
    <3>. QED
      BY ONLY <3>2, <3>9 DEF Parsed
  <2>8. CASE k # Count
    <3>1. P!parse_word
      BY <2>1, <2>5, <2>8 DEF P!Next, P!parse_rest
    <3>2. /\ P!Store(b + 1) /\ ppc' = "loop" /\ ppos' = b + 1
      BY <2>1, <2>3, <3>1 DEF P!parse_word, P!Unless_beyond
    <3>3. parc' = parc + 1 /\ parv' = [parv EXCEPT ![parc] = b + 1] /\ IRC_RAW' = CutTo(b + 1)
      BY <2>1, <2>3, <3>2 DEF P!Store
    <3>4. b + 1 \in Int
      BY ONLY <1>6
    <3>5. /\ Given(parv') /\ parv'[Base - 1 + k] = b + 1
          /\ \A j \in 1..r : parv'[Base - 1 + j] = End(j) + 1
      BY ONLY <2>6, <3>3, <3>4
    <3>6. k \in 0..more /\ \A j \in 1..k : j = k \/ j \in 1..r
      BY ONLY <1>0, <1>2, <2>8
    <3>7. \A j \in 1..k : parv'[Base - 1 + j] = End(j) + 1
      BY ONLY <3>5, <3>6
    <3>8. parc' = Base + k
      <4>1. parc = Base + r /\ Base \in Nat
        BY ONLY <1>1, <1>5
      <4>. QED
        BY ONLY <1>2, <3>3, <4>1
    <3>9. AtWord(k, IRC_RAW', ppos', parc', parv')
      BY ONLY <3>2, <3>3, <3>5, <3>6, <3>7, <3>8 DEF AtWord
    <3>. QED
      BY ONLY <3>2, <3>9 DEF Parsed, InLoop
  <2>. QED
    BY ONLY <2>7, <2>8
<1>. QED
  BY ONLY <1>7, <1>8

\* A line that is cut gives what it says.
LEMMA CutAsSaid ==
  ASSUME LineTyped, P!Conforming, AllCut(IRC_RAW, parc, parv)
  PROVE  [x \in 1..parc |-> P!String(parv[x - 1])] = P!Said
<1> DEFINE n0 == Len(P!Said)
           more == Count - 1
<1>0. Count \in Nat /\ Count >= 1
  BY EndsAre
<1>1. /\ IRC_RAW = CutTo(End(Count) + 1) /\ parc = n0
      /\ Given(parv) /\ \A j \in 1..more : parv[Base - 1 + j] = End(j) + 1
      /\ P!Colons # {} => parv[Base - 1 + Count] = End(Count) + 2
  BY DEF AllCut
<1>2. SaidAt
  BY SaidIs
<1>3. n0 = Base + more + (IF P!Colons = {} THEN 0 ELSE 1) /\ Base \in {1, 2}
  BY <1>2, FirstStrings DEF SaidAt
<1>4. n0 \in Nat /\ P!Said = [x \in 1..n0 |-> P!Said[x]]
  <2>1. P!Said \in Seq(Seq(Symbols \cup {"SERVER"}))
    BY <1>2 DEF SaidAt
  <2>2. n0 \in Nat /\ P!Said \in [1..n0 -> Seq(Symbols \cup {"SERVER"})]
    BY ONLY <2>1, LenProperties
  <2>. QED
    BY ONLY <2>2
<1>5. End(0) = 0 /\ End(1) \in Nat /\ 2 <= End(1)
  <2>1. 1 \in 1..Count /\ 1 - 1 = 0
    BY ONLY <1>0
  <2>2. End(0) = 0
    BY EndsAre
  <2>3. End(1 - 1) + 2 <= End(1) /\ End(1) \in Nat
    BY <2>1, Apart, WordIs
  <2>. QED
    BY ONLY <2>1, <2>2, <2>3
<1>6. ASSUME NEW p \in {1, 2}
      PROVE  P!String(p) = SubSeq(line, p, End(1) - 1)
  <2>1. 1 \in 1..Count /\ p \in Nat /\ End(1 - 1) + 1 <= p /\ p <= End(1)
    <3>1. 1 - 1 = 0 /\ 0 + 1 = 1
      OBVIOUS
    <3>2. 1 \in 1..Count
      BY ONLY <1>0
    <3>3. p \in Nat /\ 1 <= p /\ p <= 2
      BY ONLY <1>6
    <3>4. p <= End(1)
      BY ONLY <1>5, <3>3
    <3>. QED
      BY ONLY <1>5, <3>1, <3>2, <3>3, <3>4
  <2>2. IRC_RAW = CutTo(End(Count) + 1)
    BY ONLY <1>1
  <2>. QED
    BY ONLY LineTyped, <2>1, <2>2, StringAt
<1>7. ASSUME NEW x \in 1..Base
      PROVE  P!String(parv[x - 1]) = P!Said[x]
  <2>1. CASE line[1] = ":"
    <3>1. Base = 1
      BY <2>1 DEF Base
    <3>2. x = 1 /\ x - 1 = 0
      BY ONLY <3>1, <1>7
    <3>3. parv[0] = 2
      BY <1>1, <2>1 DEF Given
    <3>4. P!Said[1] = SubSeq(line, 2, End(1) - 1)
      BY <1>2, <2>1 DEF SaidAt
    <3>5. P!String(2) = SubSeq(line, 2, End(1) - 1)
      BY <1>6
    <3>. QED
      BY ONLY <3>2, <3>3, <3>4, <3>5
  <2>2. CASE line[1] # ":"
    <3>1. Base = 2
      BY <2>2 DEF Base
    <3>2. (x = 1 /\ x - 1 = 0) \/ (x = 2 /\ x - 1 = 1)
      BY ONLY <3>1, <1>7
    <3>3. parv[0] = P!SERVER /\ parv[1] = 1
      BY <1>1, <2>2 DEF Given
    <3>4. P!Said[1] = <<"SERVER">> /\ P!Said[2] = SubSeq(line, 1, End(1) - 1)
      BY <1>2, <2>2 DEF SaidAt
    <3>5. P!String(P!SERVER) = <<"SERVER">>
      BY DEF P!String
    <3>6. P!String(1) = SubSeq(line, 1, End(1) - 1)
      BY <1>6
    <3>. QED
      BY ONLY <3>2, <3>3, <3>4, <3>5, <3>6
  <2>. QED
    BY ONLY <2>1, <2>2
<1>8. ASSUME NEW j \in 1..more
      PROVE  P!String(parv[Base - 1 + j]) = P!Said[Base + j]
  <2> DEFINE k == j + 1
  <2>1. k \in 2..Count /\ k \in 1..Count /\ k - 1 = j /\ j \in 0..Count
    BY ONLY <1>0, <1>8
  <2>2. P!Said[Base + k - 1] = Word(k)
    BY <1>2, <2>1 DEF SaidAt
  <2>3. Base \in Nat
    BY ONLY <1>3
  <2>4. Base + k - 1 = Base + j
    BY ONLY <1>0, <1>8, <2>3
  <2>5. End(k - 1) \in Nat /\ End(k) \in Nat /\ End(k - 1) < End(k)
    BY <2>1, WordIs
  <2>. HIDE DEF k
  <2> DEFINE p == End(k - 1) + 1
  <2>6. p \in Nat /\ End(k - 1) + 1 <= p /\ p <= End(k)
    BY ONLY <2>5
  <2>7. IRC_RAW = CutTo(End(Count) + 1)
    BY ONLY <1>1
  <2>8. P!String(p) = SubSeq(line, p, End(k) - 1)
    <3>. HIDE DEF p
    <3>1. k \in 1..Count
      BY ONLY <2>1
    <3>. QED
      BY ONLY LineTyped, <2>6, <2>7, <3>1, StringAt
  <2>9. Word(k) = SubSeq(line, p, End(k) - 1)
    BY DEF Word
  <2>10. parv[Base - 1 + j] = p
    <3>1. parv[Base - 1 + j] = End(j) + 1
      BY ONLY <1>1, <1>8
    <3>. QED
      BY ONLY <2>1, <3>1
  <2>. QED
    BY ONLY <2>2, <2>4, <2>8, <2>9, <2>10
<1>9. ASSUME P!Colons # {}
      PROVE  P!String(parv[Base - 1 + Count]) = P!Said[Base + Count]
  <2>1. IRC_RAW = CutTo(End(Count) + 1) /\ parv[Base - 1 + Count] = End(Count) + 2
    BY ONLY <1>1, <1>9
  <2>2. P!String(End(Count) + 2) = SubSeq(line, End(Count) + 2, Len(line))
    BY <1>9, <2>1, FinalString
  <2>3. P!Said[Base + Count] = SubSeq(line, End(Count) + 2, Len(line))
    BY <1>2, <1>9 DEF SaidAt
  <2>. QED
    BY ONLY <2>1, <2>2, <2>3
<1>10. ASSUME NEW x \in 1..n0
       PROVE  P!String(parv[x - 1]) = P!Said[x]
  <2>1. Base \in Nat
    BY ONLY <1>3
  <2>2. x \in Int /\ 1 <= x /\ x <= n0
    BY ONLY <1>4, <1>10
  <2>3. CASE x <= Base
    <3>1. x \in 1..Base
      BY ONLY <2>1, <2>2, <2>3
    <3>. QED
      BY ONLY <1>7, <3>1
  <2>4. CASE Base < x /\ x <= Base + more
    <3> DEFINE j == x - Base
    <3>1. j \in 1..more /\ Base - 1 + j = x - 1 /\ Base + j = x
      BY ONLY <1>0, <2>1, <2>2, <2>4
    <3>. QED
      BY ONLY <1>8, <3>1
  <2>5. CASE ~ (x <= Base + more)
    <3>1. P!Colons # {}
      <4>1. ASSUME P!Colons = {}
            PROVE  FALSE
        <5>1. n0 = Base + more + 0
          BY ONLY <1>3, <4>1
        <5>. QED
          BY ONLY <1>0, <2>1, <2>2, <2>5, <5>1
      <4>. QED
        BY <4>1
    <3>2. n0 = Base + more + 1
      BY ONLY <1>3, <3>1
    <3>3. x = Base + Count /\ x - 1 = Base - 1 + Count
      BY ONLY <1>0, <2>1, <2>2, <2>5, <3>2
    <3>. QED
      BY ONLY <1>9, <3>1, <3>3
  <2>6. x <= Base \/ (Base < x /\ x <= Base + more) \/ ~ (x <= Base + more)
    BY ONLY <2>1, <2>2
  <2>. QED
    BY ONLY <2>3, <2>4, <2>5, <2>6
<1>. HIDE DEF n0
<1>11. [x \in 1..parc |-> P!String(parv[x - 1])] = [x \in 1..n0 |-> P!Said[x]]
  <2>1. parc = n0
    BY ONLY <1>1
  <2>. QED
    BY ONLY <1>10, <2>1
<1>. QED
  BY ONLY <1>4, <1>11

\* Always: a line that conforms is being cut at its ends, or has been.
LEMMA ParseAlways == Spec => []ParseInv
<1>1. Init => ParseInv
  <2>1. SUFFICES ASSUME Init
                 PROVE  ParseInv
    OBVIOUS
  <2>2. CASE NoLine
    <3>1. line = <<":">> /\ ppc = "none"
      BY <2>2 DEF NoLine
    <3>2. ":" \in Symbols
      BY DEF Symbols
    <3>. HIDE DEF Symbols
    <3>3. <<":">> \in Seq(Symbols) /\ Len(<<":">>) >= 1
      BY ONLY <3>2
    <3>4. LineTyped
      BY ONLY <3>1, <3>3 DEF LineTyped
    <3>5. Parsed(IRC_RAW, ppos, parc, parv, ppc)
      BY ONLY <3>1 DEF Parsed
    <3>. QED
      BY ONLY <3>4, <3>5 DEF ParseInv
  <2>3. CASE P!Init
    <3>1. LineTyped
      <4>1. PICK z \in 1..MaxLine : line \in [1..z -> Symbols]
        BY <2>3 DEF P!Init, P!Lines, Symbols
      <4>0. MaxLine \in Nat
        BY RoutinesConfig DEF P!ParseConfig
      <4>2. z \in Nat /\ z >= 1
        BY ONLY <4>0, z \in 1..MaxLine
      <4>. HIDE DEF Symbols
      <4>3. line \in Seq(Symbols) /\ Len(line) = z
        BY ONLY <4>1, <4>2
      <4>. QED
        BY ONLY <4>2, <4>3 DEF LineTyped
    <3>2. ASSUME P!Conforming
          PROVE  Parsed(IRC_RAW, ppos, parc, parv, ppc)
      <4>1. Count \in Nat /\ Count >= 1 /\ End(0) = 0
        BY <3>1, EndsAre
      <4>2. 0 \in 0..(Count - 1) /\ 0 + 1 = 1 /\ 1..0 = {}
        BY ONLY <4>1
      <4>3. IRC_RAW = line /\ ppos = 1 /\ ppc = "loop"
        BY <2>3 DEF P!Init
      <4>4. CutTo(1) = line
        <5>1. line \in Seq(Symbols)
          BY <3>1 DEF LineTyped
        <5>2. Len(line) \in Nat /\ line \in [1..Len(line) -> Symbols]
          BY ONLY <5>1, LenProperties
        <5>3. \A x \in 1..Len(line) : ~ (x < 1)
          BY ONLY <5>2
        <5>4. CutTo(1) = [x \in 1..Len(line) |-> IF line[x] = " " /\ x < 1 THEN "NUL" ELSE line[x]]
          BY DEF CutTo
        <5>5. CutTo(1) = [x \in 1..Len(line) |-> line[x]]
          BY ONLY <5>3, <5>4
        <5>. QED
          BY ONLY <5>2, <5>5
      <4>5. PARVMAX \in Nat /\ PARVMAX > 1
        BY RoutinesConfig DEF P!ParseConfig
      <4>6. Given(parv) /\ parc = Base + 0
        <5>1. 0 \in 0..(PARVMAX - 1) /\ 1 \in 0..(PARVMAX - 1)
          BY ONLY <4>5
        <5>2. CASE line[1] = ":"
          <6>1. parc = 1 /\ parv = [x \in 0..(PARVMAX - 1) |-> IF x < parc THEN <<2>>[x + 1] ELSE P!STALE]
            BY <2>3, <5>2 DEF P!Init
          <6>2. \A x \in 0..(PARVMAX - 1) : x < 1 => x = 0
            BY ONLY <4>5
          <6>3. <<2>>[0 + 1] = 2 /\ P!STALE \in Int
            BY DEF P!STALE
          <6>4. parv \in [0..(PARVMAX - 1) -> Int] /\ parv[0] = 2
            BY ONLY <5>1, <6>1, <6>2, <6>3
          <6>5. Base = 1 /\ 1 + 0 = 1
            BY <5>2 DEF Base
          <6>. QED
            BY ONLY <5>2, <6>1, <6>4, <6>5 DEF Given
        <5>3. CASE line[1] # ":"
          <6>1. parc = 2 /\ parv = [x \in 0..(PARVMAX - 1) |->
                                      IF x < parc THEN <<P!SERVER, 1>>[x + 1] ELSE P!STALE]
            BY <2>3, <5>3 DEF P!Init
          <6>2. \A x \in 0..(PARVMAX - 1) : x < 2 => x = 0 \/ x = 1
            BY ONLY <4>5
          <6>3. /\ <<P!SERVER, 1>>[0 + 1] = P!SERVER /\ <<P!SERVER, 1>>[1 + 1] = 1
                /\ P!STALE \in Int /\ P!SERVER \in Int
            BY DEF P!STALE, P!SERVER
          <6>4. 0 < 2 /\ 1 < 2
            OBVIOUS
          <6>5. /\ parv \in [0..(PARVMAX - 1) -> Int] /\ parv[0] = P!SERVER /\ parv[1] = 1
            BY ONLY <5>1, <6>1, <6>2, <6>3, <6>4
          <6>6. Base = 2 /\ 2 + 0 = 2
            BY <5>3 DEF Base
          <6>. QED
            BY ONLY <5>3, <6>1, <6>5, <6>6 DEF Given
        <5>. QED
          BY ONLY <5>2, <5>3
      <4>7. AtWord(0, IRC_RAW, ppos, parc, parv)
        BY ONLY <4>1, <4>2, <4>3, <4>4, <4>6 DEF AtWord
      <4>. QED
        BY ONLY <4>3, <4>7 DEF Parsed, InLoop
    <3>. QED
      BY <3>1, <3>2 DEF ParseInv
  <2>. QED
    BY <2>1, <2>2, <2>3 DEF Init
<1>2. ASSUME ParseInv, [Next]_vars
      PROVE  ParseInv'
  <2>1. CASE UNCHANGED parseVars
    <3>1. line' = line /\ UNCHANGED <<IRC_RAW, ppos, parc, parv, ppc>>
      BY <2>1 DEF parseVars
    <3>. QED
      BY <1>2, <3>1, LineKept DEF ParseInv, Parsed, InLoop, AtWord, AllCut, Given
  <2>2. CASE ParseNext
    <3>1. P!Next
      BY <2>2 DEF ParseNext
    <3>2. line' = line /\ ppc = "loop"
      BY <3>1 DEF P!Next, P!parse_rest, P!parse_word, P!parse_done, P!Found
    <3>3. LineTyped'
      BY <1>2, <3>2, LineKept DEF ParseInv
    <3>4. ASSUME P!Conforming
          PROVE  Parsed(IRC_RAW', ppos', parc', parv', ppc')
      <4>1. LineTyped /\ InLoop(IRC_RAW, ppos, parc, parv)
        BY <1>2, <3>2, <3>4 DEF ParseInv, Parsed
      <4>2. PICK r : AtWord(r, IRC_RAW, ppos, parc, parv)
        BY <4>1 DEF InLoop
      <4>. QED
        BY <3>1, <3>2, <3>4, <4>1, <4>2, WordStep
    <3>5. Parsed(IRC_RAW, ppos, parc, parv, ppc)' = Parsed(IRC_RAW', ppos', parc', parv', ppc')
      BY <3>2, LineKept DEF Parsed, InLoop, AtWord, AllCut, Given
    <3>6. P!Conforming' = P!Conforming
      BY <3>2, LineKept
    <3>. QED
      BY <3>3, <3>4, <3>5, <3>6 DEF ParseInv
  <2>. QED
    BY <1>2, <2>1, <2>2 DEF Next, vars, ListNext, MatchNext, KlineNext, ReplyNext, ParseNext
<1>. QED
  BY <1>1, <1>2, PTL DEF Spec

\* Handlers get the source, the command and the parameters of a line of the
\* protocol as the server has sent them, however many there may be, and none of
\* an earlier line (irc_parse in irc.c).
THEOREM ParamsHold == Spec => []ParamsAsSaid
<1>1. ParseInv => ParamsAsSaid
  <2>1. SUFFICES ASSUME ParseInv, P!Conforming
                 PROVE  /\ ppc # "undefined"
                        /\ ppc = "handler" => [k \in 1..parc |-> P!String(parv[k - 1])] = P!Said
    BY DEF ParamsAsSaid, P!ParamsAsSaid
  <2>2. LineTyped /\ Parsed(IRC_RAW, ppos, parc, parv, ppc)
    BY <2>1 DEF ParseInv
  <2>3. ppc # "undefined"
    BY <2>2 DEF Parsed
  <2>4. ASSUME ppc = "handler"
        PROVE  [k \in 1..parc |-> P!String(parv[k - 1])] = P!Said
    <3>1. AllCut(IRC_RAW, parc, parv)
      BY <2>2, <2>4 DEF Parsed
    <3>. QED
      BY <2>1, <2>2, <3>1, CutAsSaid
  <2>. QED
    BY <2>3, <2>4
<1>. QED
  BY <1>1, ParseAlways, PTL

-----------------------------------------------------------------------------
(* The lists *)

LP == INSTANCE ListProofs WITH pos <- at, n <- after

LEMMA ListConfigured == LP!ListConfig
BY RoutinesConfig DEF L!ListConfig, LP!ListConfig, L!IsFiniteSet, LP!IsFiniteSet

LEMMA SameChain ==
  ASSUME NEW p, NEW nx
  PROVE  LP!Chain(p, nx) = L!Chain(p, nx)
BY DEF LP!Chain, L!Chain, LP!Min, L!Min, LP!Cardinality, L!Cardinality,
       LP!IsFiniteSet, L!IsFiniteSet

\* The variables of the lists are those of a list, which does nothing while
\* another routine runs.
LEMMA ListAsSpecified == Spec => LP!Spec
<1>1. Init => LP!Init
  BY DEF Init, L!Init, LP!Init, NoList
<1>2. ASSUME [Next]_vars
      PROVE  [LP!Next]_(LP!vars)
  <2>1. CASE ListNext
    <3>1. L!Next
      BY <2>1 DEF ListNext
    <3>2. LP!Next
      BY <3>1 DEF L!Next, L!add_new, L!walk_begin, L!walk_keep, L!walk_remove, L!walk_break,
                  L!list_add, L!list_remove, L!remove_head, L!remove_tail, L!remove_middle,
                  L!node_free, L!Walking, L!live, L!After, L!Step,
                  LP!Next, LP!add_new, LP!walk_begin, LP!walk_keep, LP!walk_remove,
                  LP!walk_break, LP!list_add, LP!list_remove, LP!remove_head,
                  LP!remove_tail, LP!remove_middle, LP!node_free, LP!Walking, LP!live,
                  LP!After, LP!Step
    <3>. QED
      BY <3>2
  <2>2. CASE UNCHANGED listVars
    BY <2>2 DEF listVars, LP!vars
  <2>. QED
    BY <1>2, <2>1, <2>2 DEF Next, MatchNext, KlineNext, ReplyNext, ParseNext, vars
<1>. QED
  BY <1>1, <1>2, PTL DEF Spec, LP!Spec

\* A list can be read either way, its nodes are those allocated and elements is
\* their number (list.c), for any number of nodes.
THEOREM ListsReadable == Spec => []WellLinked
<1>1. LP!Spec => []LP!WellLinked
  BY ListConfigured, LP!ListWellLinked
<1>2. LP!WellLinked => WellLinked
  <2>1. LP!Chain(head, next) = L!Chain(head, next)
    BY SameChain
  <2>. QED
    BY <2>1 DEF LP!WellLinked, WellLinked, L!WellLinked, LP!live, L!live,
                LP!Range, L!Range
<1>. QED
  BY <1>1, <1>2, ListAsSpecified, PTL

\* Lists of pointers implement sequences, removals during LIST_FOREACH_SAFE
\* included (list.c, list.h), for any number of nodes.
THEOREM ListsAreSequences == Spec => ListImplements
<1>1. LP!Spec => LP!ListImplements
  BY ListConfigured, LP!ListRefines
<1>2. LP!Abstract!Init => L!Abstract!Init
  BY SameChain DEF LP!Abstract!Init, L!Abstract!Init
<1>3. [LP!Abstract!Next]_(LP!Abstract!vars) => [L!Abstract!Next]_(L!Abstract!vars)
  BY DEF LP!Abstract!Next, LP!Abstract!vars, LP!Abstract!Add, LP!Abstract!Walk,
         LP!Abstract!Visit, LP!Abstract!Leave,
         L!Abstract!Next, L!Abstract!vars, L!Abstract!Add, L!Abstract!Walk,
         L!Abstract!Visit, L!Abstract!Leave,
         LP!Chain, L!Chain, LP!Min, L!Min, LP!Cardinality, L!Cardinality,
         LP!IsFiniteSet, L!IsFiniteSet
<1>. QED
  BY <1>1, <1>2, <1>3, ListAsSpecified, PTL
     DEF ListImplements, L!ListImplements, LP!ListImplements, L!Abstract!Spec, LP!Abstract!Spec

\* The pointers of list_t, of the nodes and of a walk are what they are declared
\* to be, and those of match never leave its strings, although a round may move
\* on twice in the name (list.c, match.c): for masks and names of any length.
THEOREM RoutinesTyped == Spec => []TypeOK
<1>1. LP!Spec => []LP!TypeOK
  BY ListConfigured, LP!PointersTyped
<1>2. LP!TypeOK => L!TypeOK
  BY DEF LP!TypeOK, L!TypeOK, LP!Pointer, L!Pointer
<1>3. MatchInv => M!TypeOK
  BY DEF MatchInv
<1>. QED
  BY <1>1, <1>2, <1>3, ListAsSpecified, MatchAlways, PTL DEF TypeOK
=============================================================================
