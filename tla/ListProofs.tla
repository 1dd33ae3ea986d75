----------------------------- MODULE ListProofs -----------------------------
(***************************************************************************)
(* List implements ListSpec, for any number of nodes: a list is the        *)
(* sequence of its nodes, whatever walks remove from it, and can be read   *)
(* either way.  The provers know nothing of Chain, which follows pointers, *)
(* but that it finds a sequence that is linked from its first node to its  *)
(* last (ChainIs); Linked says so of a sequence without following any.     *)
(***************************************************************************)
EXTENDS List, WellFoundedInduction, SequenceTheorems, FiniteSetTheorems, TLAPS

-----------------------------------------------------------------------------
(* Induction over the numbers, for sets: the library's form of it is for   *)
(* operators, which the provers cannot apply.                              *)

\* A set of natural numbers that has an element has a least one.
LEMMA LeastNat ==
  ASSUME NEW S \in SUBSET Nat, S # {}
  PROVE  \E m \in S : \A x \in S : m <= x
<1> DEFINE R == OpToRel(<, Nat)
<1>1. IsWellFoundedOn(R, Nat)
  BY NatLessThanWellFounded, Zenon
<1>2. ASSUME NEW y \in Nat, NEW x \in Nat, y < x
      PROVE  <<y, x>> \in R
  BY <1>2 DEF OpToRel
<1>. HIDE DEF R
<1>3. PICK x \in S : \A y \in S : ~ (<<y, x>> \in R)
  BY <1>1, WFMin
<1>4. ASSUME NEW y \in S
      PROVE  x <= y
  <2>1. x \in Nat /\ y \in Nat
    OBVIOUS
  <2>2. ~ (<<y, x>> \in R)
    BY <1>3
  <2>3. ~ (y < x)
    BY <1>2, <2>1, <2>2, Zenon
  <2>. QED
    BY <2>1, <2>3
<1>. QED
  BY <1>4

\* A set that holds 0, and with a number the one after it, holds them all.
LEMMA SetInduction ==
  ASSUME NEW S, 0 \in S, \A k \in Nat : k \in S => k + 1 \in S
  PROVE  Nat \subseteq S
<1>1. SUFFICES ASSUME Nat \ S # {}
               PROVE  FALSE
  OBVIOUS
<1>2. PICK m \in Nat \ S : \A x \in Nat \ S : m <= x
  BY <1>1, LeastNat
<1>3. m - 1 \in Nat /\ (m - 1) + 1 = m
  BY <1>2
<1>4. m - 1 \in S
  BY <1>2, <1>3
<1>. QED
  BY <1>2, <1>3, <1>4

-----------------------------------------------------------------------------
(* Chains *)

\* A sequence whose nodes are linked through next is what Chain finds.
LEMMA ChainIs ==
  ASSUME ListConfig, NEW s \in Seq(Node), NEW p, NEW nx,
         Len(s) <= Cardinality(Node),
         p = IF s = <<>> THEN NULL ELSE s[1],
         \A k \in 1..Len(s) : nx[s[k]] = IF k = Len(s) THEN NULL ELSE s[k + 1]
  PROVE  Chain(p, nx) = s
<1> DEFINE size == Cardinality(Node)
           len == Len(s)
           f == [k \in 0..size |-> IF k < len THEN s[k + 1] ELSE NULL]
           Hops(h) == [k \in 0..size |-> IF k = 0 THEN p
                         ELSE IF h[k - 1] \in Node THEN nx[h[k - 1]] ELSE NULL]
           Hop == CHOOSE h : h = Hops(h)
           ends == {k \in 0..size : Hop[k] \notin Node} \cup {size}
<1>1. /\ size \in Nat /\ len \in Nat /\ len <= size
      /\ \A k \in 1..len : s[k] \in Node
      /\ NULL \notin Node
  BY FS_CardinalityType, LenProperties, ElementOfSeq DEF ListConfig
<1>2. ASSUME NEW k \in 0..size
      PROVE  f[k] = Hops(f)[k]
  <2>1. CASE k = 0
    <3>1. s = <<>> <=> len = 0
      BY EmptySeq
    <3>. QED
      BY <1>1, <2>1, <3>1
  <2>2. CASE k > 0
    <3>1. k - 1 \in 0..size /\ f[k - 1] = IF k - 1 < len THEN s[k] ELSE NULL
      BY <1>1, <2>2
    <3>2. CASE k - 1 < len
      BY <1>1, <2>2, <3>1, <3>2
    <3>3. CASE ~ (k - 1 < len)
      BY <1>1, <2>2, <3>1, <3>3
    <3>. QED
      BY <3>2, <3>3
  <2>. QED
    BY <1>1, <2>1, <2>2
<1>3. f = Hops(f)
  BY <1>2
<1>4. Hop = Hops(Hop)
  <2>. HIDE DEF Hops, f
  <2>. QED
    BY <1>3
<1>5. Chain(p, nx) = [k \in 1..Min(ends) |-> Hop[k - 1]]
  BY DEF Chain
<1>. HIDE DEF Hop
<1>6. ASSUME NEW k \in 0..size
      PROVE  Hop[k] = f[k]
  <2> DEFINE S == {j \in Nat : j \in 0..size => Hop[j] = f[j]}
  <2>1. 0 \in S
    BY <1>1, <1>3, <1>4
  <2>2. ASSUME NEW j \in Nat, j \in S
        PROVE  j + 1 \in S
    <3>1. SUFFICES ASSUME j + 1 \in 0..size
                   PROVE  Hop[j + 1] = f[j + 1]
      OBVIOUS
    <3>2. Hop[j] = f[j] /\ j \in 0..size
      BY <1>1, <2>2, <3>1
    <3>3. Hops(Hop)[j + 1] = Hops(f)[j + 1]
      <4>. HIDE DEF f
      <4>. QED
        BY <1>1, <3>1, <3>2
    <3>. QED
      BY <1>3, <1>4, <3>3
  <2>. QED
    <3>. HIDE DEF S
    <3>1. Nat \subseteq S
      BY <2>1, <2>2, SetInduction
    <3>2. k \in S
      BY <1>1, <3>1
    <3>. HIDE DEF f
    <3>. QED
      BY <3>2 DEF S
<1>. HIDE DEF Hops
<1>7. ASSUME NEW k \in 0..size
      PROVE  /\ k < len => Hop[k] = s[k + 1] /\ Hop[k] \in Node
             /\ k >= len => Hop[k] \notin Node
  BY <1>1, <1>6
<1>. HIDE DEF f
<1>8. len \in ends /\ \A k \in ends : k \in Nat /\ len <= k
  BY <1>1, <1>7
<1>9. Min(ends) = len
  <2>. HIDE DEF ends
  <2>. QED
    BY <1>1, <1>8 DEF Min
<1>10. Chain(p, nx) = [k \in 1..len |-> s[k]]
  <2>. HIDE DEF ends
  <2>1. Chain(p, nx) = [k \in 1..len |-> Hop[k - 1]]
    BY <1>5, <1>9
  <2>2. ASSUME NEW k \in 1..len
        PROVE  Hop[k - 1] = s[k]
    <3>1. k - 1 \in 0..size /\ k - 1 < len /\ (k - 1) + 1 = k
      BY <1>1
    <3>. QED
      BY <1>7, <3>1
  <2>. QED
    BY <2>1, <2>2, Zenon
<1>. QED
  BY <1>10, LenProperties, SeqEqual, IsASeq

\* The k-th node of s, or NULL before the first and after the last.
Nth(s, k) == IF k \in 1..Len(s) THEN s[k] ELSE NULL

Distinct(s) == \A i, j \in 1..Len(s) : s[i] = s[j] => i = j

\* s is a list whose nodes are linked through nx.
Forward(s, nx) ==
  s \in Seq(Node) /\ Distinct(s) /\ \A k \in 1..Len(s) : nx[s[k]] = Nth(s, k + 1)

\* There are no more nodes in a list than there are.
LEMMA LengthBounded ==
  ASSUME ListConfig, NEW s \in Seq(Node), Distinct(s)
  PROVE  Len(s) <= Cardinality(Node)
<1>1. Len(s) \in Nat /\ s \in [1..Len(s) -> Node]
  BY LenProperties
<1>2. s \in Injection(1..Len(s), Node)
  BY <1>1 DEF Injection, IsInjective, Distinct
<1>3. Cardinality(1..Len(s)) = Len(s) /\ IsFiniteSet(Node)
  BY <1>1, FS_Interval DEF ListConfig
<1>. QED
  BY <1>2, <1>3, FS_Injection

\* The part of a sequence from its k-th element on.
LEMMA Suffix ==
  ASSUME NEW s \in Seq(Node), NEW k \in 1..(Len(s) + 1)
  PROVE  /\ SubSeq(s, k, Len(s)) \in Seq(Node)
         /\ Len(SubSeq(s, k, Len(s))) = Len(s) - k + 1
         /\ \A i \in 1..(Len(s) - k + 1) : SubSeq(s, k, Len(s))[i] = s[k + i - 1]
<1> DEFINE t == SubSeq(s, k, Len(s))
<1>1. Len(s) \in Nat /\ \A i \in 1..Len(s) : s[i] \in Node
  BY LenProperties, ElementOfSeq
<1>2. k \in Int /\ Len(s) \in Int /\ \A i \in k..Len(s) : s[i] \in Node
  BY <1>1
<1>3. /\ t \in Seq(Node)
      /\ Len(t) = IF k <= Len(s) THEN Len(s) - k + 1 ELSE 0
      /\ \A i \in 1..(Len(s) - k + 1) : t[i] = s[k + i - 1]
  BY <1>2, SubSeqProperties
<1>. HIDE DEF t
<1>4. Len(t) = Len(s) - k + 1
  BY <1>1, <1>3
<1>. QED
  BY <1>3, <1>4 DEF t

\* From any node of a list, Chain finds what follows.
LEMMA ChainFrom ==
  ASSUME ListConfig, NEW s, NEW nx, Forward(s, nx), NEW k \in 1..(Len(s) + 1)
  PROVE  Chain(Nth(s, k), nx) = SubSeq(s, k, Len(s))
<1> DEFINE t == SubSeq(s, k, Len(s))
<1>1. s \in Seq(Node) /\ Len(s) \in Nat /\ \A i \in 1..Len(s) : s[i] \in Node
  BY LenProperties, ElementOfSeq DEF Forward
<1>2. /\ t \in Seq(Node) /\ Len(t) = Len(s) - k + 1
      /\ \A i \in 1..(Len(s) - k + 1) : t[i] = s[k + i - 1]
  BY <1>1, Suffix
<1>3. Len(t) \in Nat /\ Len(t) = Len(s) - k + 1
  BY <1>1, <1>2
<1>. HIDE DEF t
<1>4. Len(t) <= Cardinality(Node)
  <2>1. Len(s) <= Cardinality(Node)
    BY <1>1, LengthBounded DEF Forward
  <2>2. Cardinality(Node) \in Nat
    BY FS_CardinalityType DEF ListConfig
  <2>. QED
    BY <1>1, <1>3, <2>1, <2>2
<1>5. Nth(s, k) = IF t = <<>> THEN NULL ELSE t[1]
  <2>1. t = <<>> <=> Len(t) = 0
    BY <1>2, EmptySeq
  <2>2. CASE k = Len(s) + 1
    BY <1>1, <1>3, <2>1, <2>2 DEF Nth
  <2>3. CASE k # Len(s) + 1
    <3>1. k \in 1..Len(s) /\ 1 \in 1..(Len(s) - k + 1) /\ k + 1 - 1 = k
      BY <1>1, <2>3
    <3>2. t[1] = s[k]
      BY <1>2, <3>1
    <3>. QED
      BY <1>1, <1>3, <2>1, <3>1, <3>2 DEF Nth
  <2>. QED
    BY <2>2, <2>3
<1>6. ASSUME NEW i \in 1..Len(t)
      PROVE  nx[t[i]] = IF i = Len(t) THEN NULL ELSE t[i + 1]
  <2>1. /\ k + i - 1 \in 1..Len(s)
        /\ (k + i - 1) + 1 = k + (i + 1) - 1
        /\ i \in 1..(Len(s) - k + 1)
    BY <1>1, <1>3
  <2>2. t[i] = s[k + i - 1]
    BY <1>2, <2>1
  <2>3. nx[t[i]] = Nth(s, k + (i + 1) - 1)
    BY <2>1, <2>2 DEF Forward
  <2>4. CASE i = Len(t)
    <3>1. k + (i + 1) - 1 = Len(s) + 1
      BY <1>1, <1>3, <2>4
    <3>. QED
      BY <1>1, <2>3, <2>4, <3>1 DEF Nth
  <2>5. CASE i # Len(t)
    <3>1. i + 1 \in 1..(Len(s) - k + 1) /\ k + (i + 1) - 1 \in 1..Len(s)
      BY <1>1, <1>3, <2>5
    <3>2. t[i + 1] = s[k + (i + 1) - 1]
      BY <1>2, <3>1
    <3>. QED
      BY <2>3, <2>5, <3>1, <3>2 DEF Nth
  <2>. QED
    BY <2>4, <2>5
<1>7. Chain(Nth(s, k), nx) = t
  <2> DEFINE p == Nth(s, k)
  <2>1. p = IF t = <<>> THEN NULL ELSE t[1]
    BY <1>5
  <2>. HIDE DEF p
  <2>2. Chain(p, nx) = t
    BY <1>2, <1>4, <1>6, <2>1, ChainIs
  <2>. QED
    BY <2>2 DEF p
<1>. QED
  BY <1>7 DEF t

\* What the refinement mapping makes of a list s and a walk at its k-th node.
LEMMA Mapped ==
  ASSUME ListConfig, NEW s, NEW nx, Forward(s, nx), NEW k \in 1..(Len(s) + 1)
  PROVE  /\ Chain(Nth(s, 1), nx) = s
         /\ (IF Nth(s, k) = NULL THEN <<>> ELSE <<Nth(s, k)>> \o Chain(Nth(s, k + 1), nx))
              = SubSeq(s, k, Len(s))
<1>1. s \in Seq(Node) /\ Len(s) \in Nat /\ \A i \in 1..Len(s) : s[i] \in Node
  BY LenProperties, ElementOfSeq DEF Forward
<1>2. Chain(Nth(s, 1), nx) = s
  <2>1. 1 \in 1..(Len(s) + 1)
    BY <1>1
  <2>2. Chain(Nth(s, 1), nx) = SubSeq(s, 1, Len(s))
    BY <2>1, ChainFrom
  <2>. QED
    BY <1>1, <2>2, SubSeqFull
<1>3. CASE k = Len(s) + 1
  <2>1. Nth(s, k) = NULL
    BY <1>1, <1>3 DEF Nth
  <2>2. SubSeq(s, k, Len(s)) = <<>>
    BY <1>1, <1>3, SubSeqEmpty
  <2>. QED
    BY <1>2, <2>1, <2>2
<1>4. CASE k # Len(s) + 1
  <2>1. k \in 1..Len(s) /\ k + 1 \in 1..(Len(s) + 1) /\ Len(s) \in k..Len(s)
    BY <1>1, <1>4
  <2>2. Nth(s, k) = s[k] /\ Nth(s, k) # NULL
    BY <1>1, <2>1 DEF Nth, ListConfig
  <2>3. Chain(Nth(s, k + 1), nx) = SubSeq(s, k + 1, Len(s))
    BY <2>1, ChainFrom
  <2>4. SubSeq(s, k, Len(s)) = <<s[k]>> \o SubSeq(s, k + 1, Len(s))
    BY <1>1, <2>1, SubSeqRecursiveFirst
  <2>. QED
    BY <1>2, <2>2, <2>3, <2>4
<1>. QED
  BY <1>3, <1>4

-----------------------------------------------------------------------------
(* The invariant *)

\* The list_t is the list s.
Linked(s) ==
  /\ Forward(s, next)
  /\ \A k \in 1..Len(s) : prev[s[k]] = Nth(s, k - 1)
  /\ head = Nth(s, 1) /\ tail = Nth(s, Len(s))
  /\ elements = Len(s)
  /\ next \in [Node -> Pointer] /\ prev \in [Node -> Pointer]
  /\ \A x \in Node : next[x] = Freed \/ \E k \in 1..Len(s) : x = s[k]

\* LIST_FOREACH_SAFE is at the k-th node of s; past the last there is no walk.
WalkAt(s, k) == pos = Nth(s, k) /\ n = Nth(s, k + 1)

ListInv == \E s \in Seq(Node) : Linked(s) /\ \E k \in 1..(Len(s) + 1) : WalkAt(s, k)

\* s without its k-th node.
Without(s, k) == [i \in 1..(Len(s) - 1) |-> IF i < k THEN s[i] ELSE s[i + 1]]

\* Facts about a list that the provers use throughout.
LEMMA ListFacts ==
  ASSUME ListConfig, NEW s \in Seq(Node)
  PROVE  /\ Len(s) \in Nat /\ DOMAIN s = 1..Len(s)
         /\ \A k \in 1..Len(s) : s[k] \in Node /\ s[k] # NULL /\ s[k] # Freed
         /\ \A k \in 1..Len(s) : Nth(s, k) = s[k]
         /\ Nth(s, 0) = NULL /\ Nth(s, Len(s) + 1) = NULL
         /\ \A k \in Int : Nth(s, k) \in Pointer /\ Nth(s, k) # Freed
<1>1. Len(s) \in Nat /\ DOMAIN s = 1..Len(s) /\ \A k \in 1..Len(s) : s[k] \in Node
  BY LenProperties, ElementOfSeq
<1>. QED
  BY <1>1 DEF Nth, Pointer, ListConfig

\* Without takes out one node and moves those after it up by one.
LEMMA WithoutFacts ==
  ASSUME ListConfig, NEW s \in Seq(Node), Distinct(s), NEW k \in 1..Len(s)
  PROVE  /\ Without(s, k) \in Seq(Node) /\ Distinct(Without(s, k))
         /\ Len(Without(s, k)) = Len(s) - 1
         /\ \A i \in 1..(Len(s) - 1) :
              Without(s, k)[i] = IF i < k THEN s[i] ELSE s[i + 1]
         /\ \A i \in 1..Len(s) : i # k =>
              \E j \in 1..(Len(s) - 1) : Without(s, k)[j] = s[i]
<1> DEFINE t == Without(s, k)
           m == Len(s) - 1
<1>1. Len(s) \in Nat /\ m \in Nat /\ \A i \in 1..Len(s) : s[i] \in Node
  BY ListFacts
<1>2. \A i \in 1..m : t[i] = IF i < k THEN s[i] ELSE s[i + 1]
  BY DEF Without
<1>3. \A i \in 1..m : t[i] \in Node
  BY <1>1, <1>2
<1>4. t \in Seq(Node) /\ Len(t) = m
  <2>1. t = [i \in 1..m |-> t[i]]
    BY DEF Without
  <2>. HIDE DEF t, m
  <2>2. t \in Seq(Node)
    BY <1>1, <1>3, <2>1, IsASeq
  <2>3. DOMAIN t = 1..m
    BY <2>1
  <2>. QED
    BY <1>1, <2>2, <2>3, LenProperties
<1>5. Distinct(t)
  <2>. SUFFICES ASSUME NEW i \in 1..m, NEW j \in 1..m, t[i] = t[j]
                PROVE  i = j
    BY <1>4 DEF Distinct
  <2>. QED
    BY <1>1, <1>2 DEF Distinct
<1>6. ASSUME NEW i \in 1..Len(s), i # k
      PROVE  \E j \in 1..m : t[j] = s[i]
  <2>1. CASE i < k
    <3>1. i \in 1..m /\ t[i] = s[i]
      BY <1>1, <1>2, <1>6, <2>1
    <3>. QED
      BY <3>1
  <2>2. CASE i > k
    <3>1. i - 1 \in 1..m /\ ~ (i - 1 < k) /\ (i - 1) + 1 = i
      BY <1>1, <1>6, <2>2
    <3>2. t[i - 1] = s[i]
      BY <1>2, <3>1
    <3>. QED
      BY <3>1, <3>2
  <2>. QED
    BY <1>1, <1>6, <2>1, <2>2
<1>. QED
  BY <1>2, <1>4, <1>5, <1>6

\* What followed the node follows still.
LEMMA WithoutSuffix ==
  ASSUME ListConfig, NEW s \in Seq(Node), Distinct(s), NEW k \in 1..Len(s)
  PROVE  SubSeq(Without(s, k), k, Len(Without(s, k))) = SubSeq(s, k + 1, Len(s))
<1> DEFINE t == Without(s, k)
           b == SubSeq(t, k, Len(t))
           c == SubSeq(s, k + 1, Len(s))
<1>1. /\ Len(s) \in Nat /\ t \in Seq(Node) /\ Len(t) = Len(s) - 1
      /\ \A i \in 1..(Len(s) - 1) : t[i] = IF i < k THEN s[i] ELSE s[i + 1]
  BY ListFacts, WithoutFacts
<1>. HIDE DEF t
<1>2. k + 1 \in 1..(Len(s) + 1) /\ k \in 1..(Len(t) + 1)
  BY <1>1
<1>3. /\ c \in Seq(Node) /\ Len(c) = Len(s) - (k + 1) + 1
      /\ \A i \in 1..(Len(s) - (k + 1) + 1) : c[i] = s[(k + 1) + i - 1]
  BY <1>2, Suffix
<1>4. /\ b \in Seq(Node) /\ Len(b) = Len(t) - k + 1
      /\ \A i \in 1..(Len(t) - k + 1) : b[i] = t[k + i - 1]
  BY <1>1, <1>2, Suffix
<1>. HIDE DEF b, c
<1>5. ASSUME NEW i \in 1..Len(b)
      PROVE  b[i] = c[i]
  <2>1. /\ i \in 1..(Len(s) - (k + 1) + 1) /\ i \in 1..(Len(t) - k + 1)
        /\ k + i - 1 \in 1..(Len(s) - 1) /\ ~ (k + i - 1 < k)
        /\ (k + i - 1) + 1 = (k + 1) + i - 1
    BY <1>1, <1>4
  <2>2. t[k + i - 1] = s[(k + 1) + i - 1]
    BY <1>1, <2>1
  <2>. QED
    BY <1>3, <1>4, <2>1, <2>2
<1>6. Len(b) = Len(c)
  BY <1>1, <1>3, <1>4
<1>7. b = c
  BY <1>3, <1>4, <1>5, <1>6, SeqEqual
<1>. QED
  BY <1>7 DEF b, c, t

\* A removal, as the abstract specification says it.
Removed(s, k) == SubSeq(s, 1, k - 1) \o SubSeq(s, k + 1, Len(s))

LEMMA WithoutIsRemoved ==
  ASSUME ListConfig, NEW s \in Seq(Node), Distinct(s), NEW k \in 1..Len(s)
  PROVE  Removed(s, k) = Without(s, k)
<1> DEFINE a == SubSeq(s, 1, k - 1)
           b == SubSeq(s, k + 1, Len(s))
           t == Without(s, k)
<1>1. Len(s) \in Nat /\ \A i \in 1..Len(s) : s[i] \in Node
  BY ListFacts
<1>2. /\ a \in Seq(Node) /\ Len(a) = k - 1
      /\ \A i \in 1..(k - 1) : a[i] = s[i]
  <2>1. 1 \in Int /\ k - 1 \in Int /\ \A i \in 1..(k - 1) : s[i] \in Node
    BY <1>1
  <2>2. /\ a \in Seq(Node)
        /\ Len(a) = IF 1 <= k - 1 THEN k - 1 - 1 + 1 ELSE 0
        /\ \A i \in 1..(k - 1 - 1 + 1) : a[i] = s[1 + i - 1]
    BY <2>1, SubSeqProperties
  <2>. HIDE DEF a
  <2>. QED
    BY <1>1, <2>2
<1>3. /\ b \in Seq(Node) /\ Len(b) = Len(s) - k
      /\ \A i \in 1..(Len(s) - k) : b[i] = s[k + i]
  <2>1. k + 1 \in 1..(Len(s) + 1)
    BY <1>1
  <2>2. /\ b \in Seq(Node) /\ Len(b) = Len(s) - (k + 1) + 1
        /\ \A i \in 1..(Len(s) - (k + 1) + 1) : b[i] = s[(k + 1) + i - 1]
    BY <2>1, Suffix
  <2>. HIDE DEF b
  <2>. QED
    BY <1>1, <2>2
<1>4. Removed(s, k) = a \o b
  BY DEF Removed
<1>. HIDE DEF a, b, t
<1>5. /\ a \o b \in Seq(Node) /\ Len(a \o b) = Len(s) - 1
      /\ \A i \in 1..(Len(s) - 1) : (a \o b)[i] = IF i <= k - 1 THEN a[i] ELSE b[i - (k - 1)]
  <2>1. (k - 1) + (Len(s) - k) = Len(s) - 1
    BY <1>1
  <2> DEFINE c == a \o b
  <2>2. /\ c \in Seq(Node) /\ Len(c) = Len(a) + Len(b)
        /\ \A i \in 1..(Len(a) + Len(b)) : c[i] = IF i <= Len(a) THEN a[i] ELSE b[i - Len(a)]
    BY <1>2, <1>3, ConcatProperties
  <2>. HIDE DEF c
  <2>3. /\ c \in Seq(Node) /\ Len(c) = Len(s) - 1
        /\ \A i \in 1..(Len(s) - 1) : c[i] = IF i <= k - 1 THEN a[i] ELSE b[i - (k - 1)]
    BY <1>2, <1>3, <2>1, <2>2
  <2>. QED
    BY <2>3 DEF c
<1>6. ASSUME NEW i \in 1..(Len(s) - 1)
      PROVE  (a \o b)[i] = t[i]
  <2>1. t[i] = IF i < k THEN s[i] ELSE s[i + 1]
    BY WithoutFacts DEF t
  <2>2. CASE i < k
    BY <1>1, <1>2, <1>5, <2>1, <2>2
  <2>3. CASE ~ (i < k)
    <3>1. i - (k - 1) \in 1..(Len(s) - k) /\ k + (i - (k - 1)) = i + 1
      BY <1>1, <2>3
    <3>2. b[i - (k - 1)] = s[i + 1]
      BY <1>3, <3>1
    <3>3. (a \o b)[i] = b[i - (k - 1)]
      BY <1>1, <1>5, <2>3
    <3>. QED
      BY <2>1, <2>3, <3>2, <3>3
  <2>. QED
    BY <2>2, <2>3
<1>7. t \in Seq(Node) /\ Len(t) = Len(s) - 1
  BY WithoutFacts DEF t
<1>. QED
  BY <1>4, <1>5, <1>6, <1>7, SeqEqual DEF t

-----------------------------------------------------------------------------
(* list_add and list_remove *)

\* list_add puts a node after the last.
LEMMA AddStep ==
  ASSUME ListConfig, NEW s \in Seq(Node), Linked(s),
         NEW x \in Node, x \notin live, list_add(x)
  PROVE  Linked(Append(s, x))'
<1> DEFINE t == Append(s, x)
           l == Len(s)
<1>1. /\ l \in Nat /\ \A k \in 1..l : s[k] \in Node /\ s[k] # NULL /\ s[k] # Freed
      /\ \A k \in 1..l : Nth(s, k) = s[k]
      /\ Nth(s, 0) = NULL /\ Nth(s, l + 1) = NULL
  BY ListFacts
<1>2. /\ t \in Seq(Node) /\ Len(t) = l + 1 /\ t[l + 1] = x
      /\ \A k \in 1..l : t[k] = s[k]
  BY <1>1, AppendProperties
<1>. HIDE DEF t, l
<1>3. /\ \A k \in 1..(l + 1) : Nth(t, k) = t[k]
      /\ Nth(t, 0) = NULL /\ Nth(t, l + 2) = NULL
  BY <1>1, <1>2 DEF Nth
<1>4. next[x] = Freed /\ x # NULL /\ x # Freed
  BY DEF live, ListConfig
<1>5. \A k \in 1..l : x # s[k]
  <2>1. \A k \in 1..l : next[s[k]] = Nth(s, k + 1)
    BY DEF Linked, Forward, l
  <2>2. \A k \in 1..l : next[s[k]] # Freed
    <3>1. \A k \in 1..l : k + 1 \in Int
      BY <1>1
    <3>. QED
      BY <2>1, <3>1, ListFacts
  <2>. QED
    BY <1>4, <2>2
<1>6. Distinct(t)
  <2>1. \A i, j \in 1..l : s[i] = s[j] => i = j
    BY DEF Linked, Forward, Distinct, l
  <2>. QED
    BY <1>1, <1>2, <1>5, <2>1 DEF Distinct
<1>7. /\ tail = IF l = 0 THEN NULL ELSE s[l]
      /\ head = IF l = 0 THEN NULL ELSE s[1]
  <2>1. tail = Nth(s, l) /\ head = Nth(s, 1)
    BY DEF Linked, l
  <2>. QED
    BY <1>1, <2>1
<1>8. ASSUME NEW k \in 1..(l + 1)
      PROVE  next'[t[k]] = Nth(t, k + 1)
  <2>1. \A y \in Node : next'[y] = IF y = x THEN NULL ELSE IF y = tail THEN x ELSE next[y]
    BY DEF list_add
  <2>2. CASE k = l + 1
    <3>1. k + 1 = l + 2
      BY <1>1, <2>2
    <3>. QED
      BY <1>2, <1>3, <2>1, <2>2, <3>1
  <2>3. CASE k = l
    BY <1>1, <1>2, <1>3, <1>5, <1>7, <2>1, <2>3
  <2>4. CASE k < l
    <3>1. k \in 1..l /\ k + 1 \in 1..l /\ l \in 1..l /\ k # l /\ l # 0
      BY <1>1, <2>4
    <3>2. s[k] # tail
      <4>1. s[k] # s[l]
        BY <3>1 DEF Linked, Forward, Distinct, l
      <4>. QED
        BY <1>7, <3>1, <4>1
    <3>3. next[s[k]] = s[k + 1]
      BY <1>1, <3>1 DEF Linked, Forward, l
    <3>. QED
      BY <1>1, <1>2, <1>3, <1>5, <2>1, <3>1, <3>2, <3>3
  <2>. QED
    BY <1>1, <2>2, <2>3, <2>4
<1>9. ASSUME NEW k \in 1..(l + 1)
      PROVE  prev'[t[k]] = Nth(t, k - 1)
  <2>1. \A y \in Node : prev'[y] = IF y = x THEN tail ELSE prev[y]
    BY DEF list_add, Linked
  <2>2. CASE k = l + 1
    <3>1. prev'[t[k]] = tail
      BY <1>2, <2>1, <2>2
    <3>2. CASE l = 0
      BY <1>3, <1>7, <2>2, <3>1, <3>2
    <3>3. CASE l # 0
      <4>1. l \in 1..l /\ l \in 1..(l + 1) /\ k - 1 = l
        BY <1>1, <2>2, <3>3
      <4>. QED
        BY <1>2, <1>3, <1>7, <3>1, <3>3, <4>1
    <3>. QED
      BY <3>2, <3>3
  <2>3. CASE k # l + 1
    <3>1. k \in 1..l
      BY <1>1, <2>3
    <3>2. prev'[t[k]] = Nth(s, k - 1)
      <4>1. prev[s[k]] = Nth(s, k - 1)
        BY <3>1 DEF Linked, l
      <4>. QED
        BY <1>1, <1>2, <1>5, <2>1, <3>1, <4>1
    <3>3. CASE k = 1
      BY <1>1, <1>3, <3>2, <3>3
    <3>4. CASE k # 1
      <4>1. k - 1 \in 1..l /\ k - 1 \in 1..(l + 1)
        BY <1>1, <3>1, <3>4
      <4>. QED
        BY <1>1, <1>2, <1>3, <3>2, <4>1
    <3>. QED
      BY <3>3, <3>4
  <2>. QED
    BY <2>2, <2>3
<1>10. head' = Nth(t, 1) /\ tail' = Nth(t, l + 1) /\ elements' = l + 1
  <2>1. tail' = x /\ elements' = l + 1 /\ head' = IF tail = NULL THEN x ELSE head
    BY DEF list_add, Linked, l
  <2>2. 1 \in 1..(l + 1) /\ l + 1 \in 1..(l + 1) /\ (l # 0 => 1 \in 1..l /\ l \in 1..l)
    BY <1>1
  <2>. QED
    BY <1>1, <1>2, <1>3, <1>7, <2>1, <2>2
<1>11. next' \in [Node -> Pointer] /\ prev' \in [Node -> Pointer]
  <2>1. tail \in Pointer
    BY <1>1, <1>7 DEF Pointer
  <2>. QED
    BY <2>1 DEF list_add, Linked, Pointer
<1>12. ASSUME NEW y \in Node, next'[y] # Freed
       PROVE  \E k \in 1..(l + 1) : y = t[k]
  <2>1. next'[y] = IF y = x THEN NULL ELSE IF y = tail THEN x ELSE next[y]
    BY DEF list_add
  <2>2. CASE y = x
    <3>1. l + 1 \in 1..(l + 1)
      BY <1>1
    <3>. QED
      BY <1>2, <2>2, <3>1
  <2>3. CASE y # x
    <3>1. \E k \in 1..l : y = s[k]
      <4>1. CASE y = tail
        <5>1. l # 0
          BY <1>7, <4>1 DEF ListConfig
        <5>2. l \in 1..l
          BY <1>1, <5>1
        <5>. QED
          BY <1>7, <4>1, <5>1, <5>2
      <4>2. CASE y # tail
        BY <1>12, <2>1, <2>3, <4>2 DEF Linked, l
      <4>. QED
        BY <4>1, <4>2
    <3>2. PICK k \in 1..l : y = s[k]
      BY <3>1
    <3>3. k \in 1..(l + 1)
      BY <1>1
    <3>. QED
      BY <1>2, <3>2, <3>3
  <2>. QED
    BY <2>2, <2>3
<1>13. Linked(t)'
  BY <1>2, <1>6, <1>8, <1>9, <1>10, <1>11, <1>12 DEF Linked, Forward
<1>. QED
  BY <1>13 DEF t

\* What list_remove has to do to the links of a list to leave one.
LEMMA Unlink ==
  ASSUME ListConfig, NEW s \in Seq(Node), Linked(s), NEW k \in 1..Len(s),
         next' \in [Node -> Pointer], prev' \in [Node -> Pointer],
         \A i \in 1..Len(s) : i # k =>
           /\ next'[s[i]] = IF i = k - 1 THEN Nth(s, k + 1) ELSE Nth(s, i + 1)
           /\ prev'[s[i]] = IF i = k + 1 THEN Nth(s, k - 1) ELSE Nth(s, i - 1),
         next'[s[k]] = Freed,
         \A y \in Node : (\A i \in 1..Len(s) : y # s[i]) => next'[y] = next[y],
         head' = IF k = 1 THEN Nth(s, 2) ELSE head,
         tail' = IF k = Len(s) THEN Nth(s, k - 1) ELSE tail,
         elements' = elements - 1
  PROVE  Linked(Without(s, k))'
<1> DEFINE t == Without(s, k)
           l == Len(s)
<1>1. /\ l \in Nat /\ \A i \in 1..l : s[i] \in Node
      /\ \A i \in 1..l : Nth(s, i) = s[i]
      /\ Nth(s, 0) = NULL /\ Nth(s, l + 1) = NULL
  BY ListFacts
<1>2. /\ t \in Seq(Node) /\ Distinct(t) /\ Len(t) = l - 1
      /\ \A i \in 1..(l - 1) : t[i] = IF i < k THEN s[i] ELSE s[i + 1]
      /\ \A i \in 1..l : i # k => \E j \in 1..(l - 1) : t[j] = s[i]
  BY WithoutFacts DEF Linked, Forward
<1>. HIDE DEF t, l
<1>3. ASSUME NEW i \in 0..l
      PROVE  Nth(t, i) = IF i < k THEN Nth(s, i) ELSE Nth(s, i + 1)
  <2>0. k \in 1..l
    BY DEF l
  <2>1. CASE i = 0
    BY <1>1, <1>2, <2>0, <2>1 DEF Nth
  <2>2. CASE i = l
    BY <1>1, <1>2, <2>0, <2>2 DEF Nth
  <2>3. CASE i \in 1..(l - 1) /\ i < k
    BY <1>1, <1>2, <2>0, <2>3 DEF Nth
  <2>4. CASE i \in 1..(l - 1) /\ ~ (i < k)
    <3>1. i + 1 \in 1..l
      BY <1>1, <2>4
    <3>. QED
      BY <1>1, <1>2, <2>0, <2>4, <3>1 DEF Nth
  <2>. QED
    BY <1>1, <2>1, <2>2, <2>3, <2>4
<1>4. ASSUME NEW j \in 1..(l - 1)
      PROVE  next'[t[j]] = Nth(t, j + 1) /\ prev'[t[j]] = Nth(t, j - 1)
  <2>0. /\ j + 1 \in 0..l /\ j - 1 \in 0..l /\ k \in 1..l
        /\ j \in 1..l /\ j + 1 \in 1..l
    BY <1>1 DEF l
  <2>1. /\ Nth(t, j + 1) = IF j + 1 < k THEN Nth(s, j + 1) ELSE Nth(s, (j + 1) + 1)
        /\ Nth(t, j - 1) = IF j - 1 < k THEN Nth(s, j - 1) ELSE Nth(s, (j - 1) + 1)
    BY <1>3, <2>0
  <2>2. CASE j < k
    <3>1. t[j] = s[j] /\ j # k /\ j # k + 1 /\ j - 1 < k
      BY <1>2, <2>0, <2>2
    <3>2. /\ next'[s[j]] = IF j = k - 1 THEN Nth(s, k + 1) ELSE Nth(s, j + 1)
          /\ prev'[s[j]] = Nth(s, j - 1)
      BY <2>0, <3>1 DEF l
    <3>. QED
      BY <2>0, <2>1, <2>2, <3>1, <3>2
  <2>3. CASE ~ (j < k)
    <3>1. t[j] = s[j + 1] /\ j + 1 # k /\ j + 1 # k - 1 /\ ~ (j + 1 < k)
      BY <1>2, <2>0, <2>3
    <3>2. /\ next'[s[j + 1]] = Nth(s, (j + 1) + 1)
          /\ prev'[s[j + 1]] = IF j + 1 = k + 1 THEN Nth(s, k - 1) ELSE Nth(s, (j + 1) - 1)
      BY <2>0, <3>1 DEF l
    <3>3. (j + 1) - 1 = (j - 1) + 1
      BY <2>0
    <3>4. CASE j = k
      BY <2>0, <2>1, <3>1, <3>2, <3>4
    <3>5. CASE j # k
      <4>1. ~ (j - 1 < k) /\ j + 1 # k + 1
        BY <2>0, <2>3, <3>5
      <4>. QED
        BY <2>1, <3>1, <3>2, <3>3, <4>1
    <3>. QED
      BY <3>4, <3>5
  <2>. QED
    BY <2>2, <2>3
<1>5. head' = Nth(t, 1)
  <2>1. 1 \in 0..l /\ k \in 1..l /\ head = Nth(s, 1)
    BY <1>1 DEF Linked, l
  <2>2. Nth(t, 1) = IF 1 < k THEN Nth(s, 1) ELSE Nth(s, 1 + 1)
    BY <1>3, <2>1
  <2>. QED
    BY <2>1, <2>2
<1>6. tail' = Nth(t, l - 1)
  <2>1. l - 1 \in 0..l /\ k \in 1..l /\ tail = Nth(s, l) /\ (l - 1) + 1 = l
    BY <1>1 DEF Linked, l
  <2>2. Nth(t, l - 1) = IF l - 1 < k THEN Nth(s, l - 1) ELSE Nth(s, (l - 1) + 1)
    BY <1>3, <2>1
  <2>3. tail' = IF k = l THEN Nth(s, k - 1) ELSE tail
    BY DEF l
  <2>4. k = l <=> l - 1 < k
    BY <1>1, <2>1
  <2>. QED
    BY <2>1, <2>2, <2>3, <2>4
<1>7. elements' = l - 1
  BY DEF Linked, l
<1>8. ASSUME NEW y \in Node, next'[y] # Freed
      PROVE  \E j \in 1..(l - 1) : y = t[j]
  <2>1. PICK i \in 1..l : y = s[i]
    <3>1. CASE \E i \in 1..l : y = s[i]
      BY <3>1
    <3>2. CASE \A i \in 1..l : y # s[i]
      BY <1>8, <3>2 DEF Linked, l
    <3>. QED
      BY <3>1, <3>2
  <2>2. i # k
    BY <1>8, <2>1
  <2>. QED
    BY <1>2, <2>1, <2>2
<1>9. Linked(t)'
  BY <1>2, <1>4, <1>5, <1>6, <1>7, <1>8 DEF Linked, Forward
<1>. QED
  BY <1>9 DEF t

\* list_remove takes a node out, wherever it is in the list.
LEMMA RemoveStep ==
  ASSUME ListConfig, NEW s \in Seq(Node), Linked(s), NEW k \in 1..Len(s),
         list_remove(s[k])
  PROVE  Linked(Without(s, k))'
<1> DEFINE l == Len(s)
           x == s[k]
<1>1. /\ l \in Nat
      /\ \A i \in 1..l : s[i] \in Node /\ s[i] # NULL /\ s[i] # Freed
      /\ \A i \in 1..l : Nth(s, i) = s[i]
      /\ Nth(s, 0) = NULL /\ Nth(s, l + 1) = NULL
      /\ \A i \in Int : Nth(s, i) \in Pointer
  BY ListFacts
<1>2. /\ k \in 1..l /\ x \in Node /\ x # NULL
      /\ next[x] = Nth(s, k + 1) /\ prev[x] = Nth(s, k - 1)
      /\ head = s[1] /\ tail = s[l]
  <2>1. head = Nth(s, 1) /\ tail = Nth(s, l)
    BY DEF Linked
  <2>2. 1 \in 1..l /\ l \in 1..l
    BY <1>1
  <2>. QED
    BY <1>1, <2>1, <2>2 DEF Linked, Forward
<1>3. /\ \A i, j \in 1..l : s[i] = s[j] => i = j
      /\ \A i \in 1..l : next[s[i]] = Nth(s, i + 1) /\ prev[s[i]] = Nth(s, i - 1)
      /\ next \in [Node -> Pointer] /\ prev \in [Node -> Pointer]
      /\ elements' = elements - 1
  BY DEF Linked, Forward, Distinct, list_remove
<1>4. (x = head <=> k = 1) /\ (x = tail <=> k = l)
  BY <1>1, <1>2, <1>3
<1>5. NULL \in Pointer /\ Freed \in Pointer /\ NULL \notin Node
  BY DEF Pointer, ListConfig
<1>. HIDE DEF l, x
<1> DEFINE Links ==
      /\ next' \in [Node -> Pointer] /\ prev' \in [Node -> Pointer]
      /\ \A i \in 1..l : i # k =>
           /\ next'[s[i]] = IF i = k - 1 THEN Nth(s, k + 1) ELSE Nth(s, i + 1)
           /\ prev'[s[i]] = IF i = k + 1 THEN Nth(s, k - 1) ELSE Nth(s, i - 1)
      /\ next'[x] = Freed
      /\ \A y \in Node : (\A i \in 1..l : y # s[i]) => next'[y] = next[y]
      /\ head' = IF k = 1 THEN Nth(s, 2) ELSE head
      /\ tail' = IF k = l THEN Nth(s, k - 1) ELSE tail
<1>6. ASSUME remove_head(x)
      PROVE  Links
  <2>1. /\ k = 1 /\ head' = next[x]
        /\ tail' = IF next[x] = NULL THEN NULL ELSE tail
        /\ \A y \in Node : next'[y] = IF y = x THEN Freed ELSE next[y]
        /\ \A y \in Node : prev'[y] = IF y = x THEN Freed
                                      ELSE IF y = next[x] THEN NULL ELSE prev[y]
        /\ next' \in [Node -> Pointer] /\ prev' \in [Node -> Pointer]
    BY <1>2, <1>3, <1>4, <1>5, <1>6 DEF remove_head, node_free
  <2>2. next[x] = Nth(s, 2) /\ (next[x] = NULL <=> l = 1)
    <3>1. CASE l = 1
      BY <1>1, <1>2, <2>1, <3>1
    <3>2. CASE l # 1
      <4>1. 2 \in 1..l
        BY <1>1, <1>2, <3>2
      <4>. QED
        BY <1>1, <1>2, <2>1, <3>2, <4>1
    <3>. QED
      BY <3>1, <3>2
  <2>3. ASSUME NEW i \in 1..l, i # k
        PROVE  /\ next'[s[i]] = Nth(s, i + 1)
               /\ prev'[s[i]] = IF i = k + 1 THEN Nth(s, k - 1) ELSE Nth(s, i - 1)
               /\ i # k - 1
    <3>1. s[i] # x /\ s[i] \in Node /\ 2 \in 1..l /\ i # k - 1
      BY <1>1, <1>2, <1>3, <2>1, <2>3 DEF x
    <3>2. s[i] = next[x] <=> i = 2
      BY <1>1, <1>3, <2>2, <3>1
    <3>. QED
      BY <1>1, <1>3, <2>1, <3>1, <3>2
  <2>4. \A y \in Node : (\A i \in 1..l : y # s[i]) => next'[y] = next[y]
    BY <1>2, <2>1 DEF x
  <2>5. tail' = IF k = l THEN Nth(s, k - 1) ELSE tail
    BY <1>1, <2>1, <2>2
  <2>. QED
    BY <1>2, <2>1, <2>2, <2>3, <2>4, <2>5
<1>7. ASSUME remove_tail(x)
      PROVE  Links
  <2>1. /\ k # 1 /\ k = l /\ head' = head /\ tail' = prev[x]
        /\ next' = node_free([next EXCEPT ![prev[x]] = NULL], x)
        /\ prev' = node_free(prev, x)
    BY <1>4, <1>7 DEF remove_tail
  <2>2. k - 1 \in 1..l /\ prev[x] = s[k - 1] /\ prev[x] \in Node
    BY <1>1, <1>2, <2>1
  <2>3. /\ \A y \in Node : next'[y] = IF y = x THEN Freed
                                      ELSE IF y = s[k - 1] THEN NULL ELSE next[y]
        /\ \A y \in Node : prev'[y] = IF y = x THEN Freed ELSE prev[y]
        /\ next' \in [Node -> Pointer] /\ prev' \in [Node -> Pointer]
    BY <1>2, <1>3, <1>5, <2>1, <2>2 DEF node_free
  <2>4. ASSUME NEW i \in 1..l, i # k
        PROVE  /\ next'[s[i]] = IF i = k - 1 THEN Nth(s, k + 1) ELSE Nth(s, i + 1)
               /\ prev'[s[i]] = Nth(s, i - 1)
               /\ i # k + 1
    <3>1. s[i] # x /\ s[i] \in Node /\ i # k + 1
      BY <1>1, <1>2, <1>3, <2>1, <2>4 DEF x
    <3>2. s[i] = s[k - 1] <=> i = k - 1
      BY <1>3, <2>2
    <3>. QED
      BY <1>1, <1>3, <2>1, <2>3, <3>1, <3>2
  <2>5. \A y \in Node : (\A i \in 1..l : y # s[i]) => next'[y] = next[y]
    BY <1>2, <2>2, <2>3 DEF x
  <2>6. tail' = Nth(s, k - 1) /\ next'[x] = Freed
    BY <1>2, <2>1, <2>3
  <2>. QED
    BY <2>1, <2>3, <2>4, <2>5, <2>6
<1>8. ASSUME remove_middle(x)
      PROVE  Links
  <2>1. /\ k # 1 /\ k # l /\ head' = head /\ tail' = tail
        /\ next' = node_free([next EXCEPT ![prev[x]] = next[x]], x)
        /\ prev' = node_free([prev EXCEPT ![next[x]] = prev[x]], x)
    BY <1>4, <1>8 DEF remove_middle
  <2>2. /\ k - 1 \in 1..l /\ prev[x] = s[k - 1] /\ prev[x] \in Node
        /\ k + 1 \in 1..l /\ next[x] = s[k + 1] /\ next[x] \in Node
    <3>1. k - 1 \in 1..l /\ k + 1 \in 1..l
      BY <1>1, <1>2, <2>1
    <3>. QED
      BY <1>1, <1>2, <3>1
  <2>3. /\ \A y \in Node : next'[y] = IF y = x THEN Freed
                                      ELSE IF y = s[k - 1] THEN next[x] ELSE next[y]
        /\ \A y \in Node : prev'[y] = IF y = x THEN Freed
                                      ELSE IF y = s[k + 1] THEN prev[x] ELSE prev[y]
        /\ next' \in [Node -> Pointer] /\ prev' \in [Node -> Pointer]
    BY <1>2, <1>3, <1>5, <2>1, <2>2 DEF node_free
  <2>4. ASSUME NEW i \in 1..l, i # k
        PROVE  /\ next'[s[i]] = IF i = k - 1 THEN Nth(s, k + 1) ELSE Nth(s, i + 1)
               /\ prev'[s[i]] = IF i = k + 1 THEN Nth(s, k - 1) ELSE Nth(s, i - 1)
    <3>1. s[i] # x /\ s[i] \in Node
      BY <1>1, <1>2, <1>3, <2>4 DEF x
    <3>2. (s[i] = s[k - 1] <=> i = k - 1) /\ (s[i] = s[k + 1] <=> i = k + 1)
      BY <1>3, <2>2
    <3>. QED
      BY <1>2, <1>3, <2>3, <3>1, <3>2
  <2>5. \A y \in Node : (\A i \in 1..l : y # s[i]) => next'[y] = next[y]
    BY <1>2, <2>2, <2>3 DEF x
  <2>6. next'[x] = Freed
    BY <1>2, <2>3
  <2>. QED
    BY <2>1, <2>3, <2>4, <2>5, <2>6
<1>9. Links
  BY <1>6, <1>7, <1>8 DEF list_remove, x
<1>. QED
  BY <1>3, <1>9, Unlink DEF l, x

-----------------------------------------------------------------------------
(* The steps *)

\* What a step makes of the list s and the walk at its k-th node.
Moves(s, k, t, j) ==
  \/ /\ k = Len(s) + 1 /\ j = Len(t) + 1
     /\ \E x \in Node : (\A i \in 1..Len(s) : x # s[i]) /\ t = Append(s, x)
  \/ k = Len(s) + 1 /\ t = s /\ j = 1
  \/ k \in 1..Len(s) /\ t = s /\ j = k + 1
  \/ k \in 1..Len(s) /\ t = Without(s, k) /\ j = k
  \/ k \in 1..Len(s) /\ t = s /\ j = Len(s) + 1

\* A step leaves a list and a walk at one of its nodes, or at its end.
LEMMA ListStep ==
  ASSUME ListConfig, NEW s \in Seq(Node), Linked(s),
         NEW k \in 1..(Len(s) + 1), WalkAt(s, k), Next
  PROVE  \E t \in Seq(Node) : \E j \in 1..(Len(t) + 1) :
           Linked(t)' /\ WalkAt(t, j)' /\ Moves(s, k, t, j)
<1> DEFINE l == Len(s)
<1>1. /\ l \in Nat
      /\ \A i \in 1..l : s[i] \in Node /\ s[i] # NULL /\ s[i] # Freed
      /\ \A i \in 1..l : Nth(s, i) = s[i]
      /\ Nth(s, 0) = NULL /\ Nth(s, l + 1) = NULL
  BY ListFacts
<1>2. Nth(s, l + 2) = NULL
  BY <1>1 DEF Nth
<1>3. pos = Nth(s, k) /\ n = Nth(s, k + 1) /\ head = Nth(s, 1)
  BY DEF WalkAt, Linked
<1>4. k \in 1..l \/ k = l + 1
  BY <1>1
<1>5. Walking <=> k \in 1..l
  BY <1>1, <1>3, <1>4 DEF Walking
<1>. HIDE DEF l
<1>6. ASSUME NEW x \in Node, add_new(x)
      PROVE  \E t \in Seq(Node) : \E j \in 1..(Len(t) + 1) :
               Linked(t)' /\ WalkAt(t, j)' /\ Moves(s, k, t, j)
  <2> DEFINE t == Append(s, x)
             j == Len(t) + 1
  <2>1. t \in Seq(Node) /\ Len(t) = l + 1
    BY AppendProperties DEF l
  <2>2. Linked(t)'
    BY <1>6, AddStep DEF add_new
  <2>. HIDE DEF t
  <2>3. j \in 1..(Len(t) + 1) /\ j = l + 2
    BY <1>1, <2>1
  <2>4. k = l + 1
    BY <1>4, <1>5, <1>6 DEF add_new
  <2>5. pos' = NULL /\ n' = NULL
    <3>1. k + 1 = l + 2
      BY <1>1, <2>4
    <3>. QED
      BY <1>1, <1>2, <1>3, <1>6, <2>4, <3>1 DEF add_new
  <2>6. WalkAt(t, j)'
    BY <1>1, <2>1, <2>3, <2>5 DEF WalkAt, Nth
  <2>7. ASSUME NEW i \in 1..l
        PROVE  x # s[i]
    <3>1. next[s[i]] = Nth(s, i + 1) /\ i + 1 \in Int
      BY <1>1 DEF Linked, Forward, l
    <3>2. next[s[i]] # Freed
      BY <3>1, ListFacts
    <3>. QED
      BY <1>6, <3>2 DEF add_new, live
  <2>8. Moves(s, k, t, j)
    BY <2>4, <2>7 DEF Moves, l, t
  <2>. QED
    BY <2>1, <2>2, <2>3, <2>6, <2>8
<1>7. ASSUME UNCHANGED <<head, tail, elements, next, prev>>, NEW j \in 1..(l + 1),
             pos' = Nth(s, j), n' = Nth(s, j + 1), Moves(s, k, s, j)
      PROVE  \E t \in Seq(Node) : \E i \in 1..(Len(t) + 1) :
               Linked(t)' /\ WalkAt(t, i)' /\ Moves(s, k, t, i)
  <2>1. Linked(s)'
    BY <1>7 DEF Linked, Forward
  <2>2. WalkAt(s, j)'
    BY <1>7 DEF WalkAt
  <2>. QED
    BY <1>7, <2>1, <2>2 DEF l
<1>8. CASE walk_begin
  <2>1. k = l + 1 /\ head # NULL
    BY <1>4, <1>5, <1>8 DEF walk_begin
  <2>2. 1 \in 1..l
    BY <1>1, <1>3, <2>1
  <2>3. next[s[1]] = Nth(s, 1 + 1)
    BY <2>2 DEF Linked, Forward, l
  <2>4. pos' = Nth(s, 1) /\ n' = Nth(s, 1 + 1)
    BY <1>1, <1>3, <1>8, <2>1, <2>2, <2>3 DEF walk_begin, After
  <2>5. 1 \in 1..(l + 1) /\ Moves(s, k, s, 1)
    BY <1>1, <2>1 DEF Moves, l
  <2>6. UNCHANGED <<head, tail, elements, next, prev>>
    BY <1>8 DEF walk_begin
  <2>. QED
    BY <1>7, <2>4, <2>5, <2>6
<1>9. ASSUME Walking, NEW t \in Seq(Node), Forward(t, next'),
             Nth(t, Len(t) + 2) = NULL, NEW j \in 1..(Len(t) + 1),
             n = Nth(t, j), Step
      PROVE  pos' = Nth(t, j) /\ n' = Nth(t, j + 1)
  <2>1. /\ Len(t) \in Nat
        /\ \A i \in 1..Len(t) : t[i] # NULL
        /\ \A i \in 1..Len(t) : Nth(t, i) = t[i]
        /\ Nth(t, Len(t) + 1) = NULL
    BY ListFacts
  <2>2. CASE j \in 1..Len(t)
    <3>1. next'[t[j]] = Nth(t, j + 1)
      BY <1>9, <2>2 DEF Forward
    <3>. QED
      BY <1>9, <2>1, <2>2, <3>1 DEF Step, After
  <2>3. CASE j = Len(t) + 1
    <3>1. j + 1 = Len(t) + 2
      BY <2>1, <2>3
    <3>. QED
      BY <1>9, <2>1, <2>3, <3>1 DEF Step, After
  <2>. QED
    BY <2>1, <2>2, <2>3
<1>10. CASE walk_keep
  <2>1. Walking /\ Step /\ UNCHANGED <<head, tail, elements, next, prev>>
    BY <1>10 DEF walk_keep
  <2>2. k \in 1..l /\ k + 1 \in 1..(l + 1)
    BY <1>1, <1>5, <2>1
  <2>3. Forward(s, next')
    BY <2>1 DEF Linked
  <2>4. pos' = Nth(s, k + 1) /\ n' = Nth(s, (k + 1) + 1)
    BY <1>2, <1>3, <1>9, <2>1, <2>2, <2>3 DEF l
  <2>5. Moves(s, k, s, k + 1)
    BY <2>2 DEF Moves, l
  <2>. QED
    BY <1>7, <2>1, <2>2, <2>4, <2>5
<1>11. CASE walk_remove
  <2> DEFINE t == Without(s, k)
  <2>1. Walking /\ Step /\ list_remove(pos)
    BY <1>11 DEF walk_remove
  <2>2. k \in 1..l /\ pos = s[k]
    BY <1>1, <1>3, <1>5, <2>1
  <2>3. Linked(t)'
    BY <2>1, <2>2, RemoveStep DEF l
  <2>4. /\ t \in Seq(Node) /\ Len(t) = l - 1
        /\ \A i \in 1..(l - 1) : t[i] = IF i < k THEN s[i] ELSE s[i + 1]
    BY <2>2, WithoutFacts DEF Linked, Forward, l
  <2>. HIDE DEF t
  <2>5. k \in 1..(Len(t) + 1) /\ Nth(t, Len(t) + 2) = NULL
    BY <1>1, <2>2, <2>4 DEF Nth
  <2>6. n = Nth(t, k)
    <3>1. CASE k = l
      BY <1>1, <1>3, <2>4, <3>1 DEF Nth
    <3>2. CASE k # l
      <4>1. k \in 1..(l - 1) /\ k + 1 \in 1..l
        BY <1>1, <2>2, <3>2
      <4>2. t[k] = s[k + 1]
        BY <2>2, <2>4, <4>1
      <4>. QED
        BY <1>1, <1>3, <2>4, <4>1, <4>2 DEF Nth
    <3>. QED
      BY <3>1, <3>2
  <2>7. Forward(t, next')
    BY <2>3 DEF Linked
  <2>8. pos' = Nth(t, k) /\ n' = Nth(t, k + 1)
    BY <1>9, <2>1, <2>4, <2>5, <2>6, <2>7
  <2>9. WalkAt(t, k)' /\ Moves(s, k, t, k)
    BY <2>2, <2>8 DEF WalkAt, Moves, l, t
  <2>. QED
    BY <2>3, <2>4, <2>5, <2>9
<1>12. CASE walk_break
  <2>1. /\ k \in 1..l /\ pos' = NULL /\ n' = NULL
        /\ UNCHANGED <<head, tail, elements, next, prev>>
    BY <1>5, <1>12 DEF walk_break
  <2>2. l + 1 \in 1..(l + 1) /\ (l + 1) + 1 = l + 2 /\ Moves(s, k, s, l + 1)
    BY <1>1, <2>1 DEF Moves, l
  <2>. QED
    BY <1>1, <1>2, <1>7, <2>1, <2>2
<1>. QED
  BY <1>6, <1>8, <1>10, <1>11, <1>12 DEF Next

LEMMA ListInvInit ==
  ASSUME ListConfig, Init
  PROVE  Linked(<<>>) /\ WalkAt(<<>>, 1)
<1>1. <<>> \in Seq(Node) /\ Len(<<>>) = 0
  BY EmptySeq
<1>2. \A k \in Int : Nth(<<>>, k) = NULL
  BY <1>1 DEF Nth
<1>3. Linked(<<>>)
  BY <1>1, <1>2 DEF Init, Linked, Forward, Distinct, Pointer
<1>. QED
  BY <1>2, <1>3 DEF Init, WalkAt

LEMMA ListInvNext ==
  ASSUME ListConfig, ListInv, [Next]_vars
  PROVE  ListInv'
<1>0. PICK s \in Seq(Node) : Linked(s) /\ \E k \in 1..(Len(s) + 1) : WalkAt(s, k)
  BY DEF ListInv
<1>1. PICK k \in 1..(Len(s) + 1) : Linked(s) /\ WalkAt(s, k)
  BY <1>0
<1>2. CASE Next
  <2>1. PICK t \in Seq(Node) : \E j \in 1..(Len(t) + 1) : Linked(t)' /\ WalkAt(t, j)'
    BY <1>1, <1>2, ListStep
  <2>. QED
    BY <2>1 DEF ListInv
<1>3. CASE UNCHANGED vars
  <2>1. Linked(s)' /\ WalkAt(s, k)'
    BY <1>1, <1>3 DEF Linked, WalkAt, Forward, vars
  <2>. QED
    BY <2>1 DEF ListInv
<1>. QED
  BY <1>2, <1>3

LEMMA ListTyped ==
  ASSUME ListConfig, ListInv
  PROVE  TypeOK
<1>0. PICK s \in Seq(Node) : Linked(s) /\ \E k \in 1..(Len(s) + 1) : WalkAt(s, k)
  BY DEF ListInv
<1>1. PICK k \in 1..(Len(s) + 1) : Linked(s) /\ WalkAt(s, k)
  BY <1>0
<1>2. Len(s) \in Nat /\ \A i \in Int : Nth(s, i) \in Pointer
  BY ListFacts
<1>. QED
  BY <1>1, <1>2 DEF TypeOK, Linked, WalkAt

LEMMA ListReadable ==
  ASSUME ListConfig, ListInv
  PROVE  WellLinked
<1>1. PICK s \in Seq(Node) : Linked(s)
  BY DEF ListInv
<1>2. /\ Len(s) \in Nat /\ DOMAIN s = 1..Len(s)
      /\ \A k \in 1..Len(s) : s[k] \in Node
      /\ \A k \in 1..Len(s) : Nth(s, k) = s[k]
      /\ Nth(s, 0) = NULL
      /\ \A k \in Int : Nth(s, k) # Freed
  BY ListFacts
<1>3. Chain(head, next) = s
  <2>1. 1 \in 1..(Len(s) + 1)
    BY <1>2
  <2>. QED
    BY <1>1, <2>1, Mapped DEF Linked
<1>4. Range(s) = live
  <2>1. ASSUME NEW k \in 1..Len(s)
        PROVE  s[k] \in live
    <3>1. next[s[k]] = Nth(s, k + 1) /\ k + 1 \in Int
      BY <1>1, <1>2 DEF Linked, Forward
    <3>. QED
      BY <1>2, <3>1 DEF live
  <2>2. ASSUME NEW x \in live
        PROVE  x \in Range(s)
    BY <1>1, <1>2 DEF live, Linked, Range
  <2>. QED
    BY <1>2, <2>1, <2>2 DEF Range
<1>5. tail = IF s = <<>> THEN NULL ELSE s[Len(s)]
  <2>1. s = <<>> <=> Len(s) = 0
    BY EmptySeq
  <2>2. Len(s) # 0 => Len(s) \in 1..Len(s)
    BY <1>2
  <2>. QED
    BY <1>1, <1>2, <2>1, <2>2 DEF Linked
<1>6. ASSUME NEW k \in 1..Len(s)
      PROVE  prev[s[k]] = IF k = 1 THEN NULL ELSE s[k - 1]
  <2>1. prev[s[k]] = Nth(s, k - 1)
    BY <1>1 DEF Linked
  <2>2. k # 1 => k - 1 \in 1..Len(s)
    BY <1>2
  <2>. QED
    BY <1>2, <2>1, <2>2
<1>. QED
  BY <1>1, <1>2, <1>3, <1>4, <1>5, <1>6 DEF WellLinked, Linked

\* list.c keeps a list: there is always a sequence of nodes, without repetition,
\* that head, tail, elements, next and prev represent, and a walk is at one of
\* its nodes or over.
THEOREM ListInvariant ==
  ASSUME ListConfig
  PROVE  Spec => []ListInv
<1>1. Init => ListInv
  <2>1. <<>> \in Seq(Node) /\ 1 \in 1..(Len(<<>>) + 1)
    BY EmptySeq
  <2>. QED
    BY <2>1, ListInvInit DEF ListInv
<1>2. ListInv /\ [Next]_vars => ListInv'
  BY ListInvNext
<1>. QED
  BY <1>1, <1>2, PTL DEF Spec

\* The pointers of the list_t, of the nodes and of a walk are to nodes, NULL or,
\* in a node that was freed, what is left there (list.c, list.h).
THEOREM PointersTyped ==
  ASSUME ListConfig
  PROVE  Spec => []TypeOK
<1>1. ListInv => TypeOK
  BY ListTyped
<1>. QED
  BY <1>1, ListInvariant, PTL

\* Whatever is added, and removed by walks, a list can be read either way, its
\* nodes are those allocated, and LIST_SIZE is their number (list.c).
THEOREM ListWellLinked ==
  ASSUME ListConfig
  PROVE  Spec => []WellLinked
<1>1. ListInv => WellLinked
  BY ListReadable
<1>. QED
  BY <1>1, ListInvariant, PTL

-----------------------------------------------------------------------------
(* The refinement *)

\* The mapping finds the list, and what of it the walk has still to visit.
LEMMA AbstractIs ==
  ASSUME ListConfig, NEW s \in Seq(Node), Linked(s),
         NEW k \in 1..(Len(s) + 1), WalkAt(s, k)
  PROVE  /\ Chain(head, next) = s
         /\ (IF pos = NULL THEN <<>> ELSE <<pos>> \o Chain(n, next)) = SubSeq(s, k, Len(s))
BY Mapped DEF Linked, WalkAt

\* The same after a step.
LEMMA AbstractIsNext ==
  ASSUME ListConfig, NEW s \in Seq(Node), Linked(s)',
         NEW k \in 1..(Len(s) + 1), WalkAt(s, k)'
  PROVE  /\ Chain(head, next)' = s
         /\ (IF pos = NULL THEN <<>> ELSE <<pos>> \o Chain(n, next))' = SubSeq(s, k, Len(s))
<1>1. Chain(head, next)' = Chain(head', next')
  BY DEF Chain
<1>2. Chain(n, next)' = Chain(n', next')
  BY DEF Chain
<1>. QED
  BY <1>1, <1>2, Mapped DEF Linked, WalkAt

\* What a step of ListSpec makes of the list s and the nodes a still to visit.
AbstractMove(s, a, t, b) ==
  \/ \E x \in Node : a = <<>> /\ (\A i \in DOMAIN s : s[i] # x) /\ t = Append(s, x) /\ b = a
  \/ a = <<>> /\ b = s /\ t = s
  \/ /\ a # <<>> /\ b = Tail(a)
     /\ t = s \/ \E i \in DOMAIN s : s[i] = Head(a) /\ t = Removed(s, i)
  \/ a # <<>> /\ b = <<>> /\ t = s

\* What a step does to the list and the walk, as the callers think of them.
LEMMA MovesAbstract ==
  ASSUME ListConfig, NEW s \in Seq(Node), Distinct(s), NEW k \in 1..(Len(s) + 1),
         NEW t \in Seq(Node), NEW j \in 1..(Len(t) + 1), Moves(s, k, t, j),
         NEW a, NEW b, a = SubSeq(s, k, Len(s)), b = SubSeq(t, j, Len(t))
  PROVE  AbstractMove(s, a, t, b)
<1>. USE DEF AbstractMove
<1>1. Len(s) \in Nat /\ DOMAIN s = 1..Len(s) /\ Len(t) \in Nat
  BY ListFacts
<1>2. k = Len(s) + 1 => a = <<>>
  BY <1>1, SubSeqEmpty
<1>3. j = Len(t) + 1 => b = <<>>
  BY <1>1, SubSeqEmpty
<1>4. ASSUME k \in 1..Len(s)
      PROVE  a # <<>> /\ Head(a) = s[k] /\ Tail(a) = SubSeq(s, k + 1, Len(s))
  <2>1. Len(s) \in k..Len(s)
    BY <1>1, <1>4
  <2>2. Head(a) = s[k] /\ Tail(a) = SubSeq(s, k + 1, Len(s))
    BY <1>4, <2>1, HeadTailOfSubSeq
  <2>3. Len(a) = Len(s) - k + 1
    BY Suffix
  <2>4. a # <<>>
    <3>1. Len(a) # 0
      BY <1>1, <1>4, <2>3
    <3>2. Len(<<>>) = 0
      BY EmptySeq
    <3>. QED
      BY <3>1, <3>2
  <2>. QED
    BY <2>2, <2>4
<1>5. CASE /\ k = Len(s) + 1 /\ j = Len(t) + 1
           /\ \E x \in Node : (\A i \in 1..Len(s) : x # s[i]) /\ t = Append(s, x)
  BY <1>1, <1>2, <1>3, <1>5
<1>6. CASE k = Len(s) + 1 /\ t = s /\ j = 1
  <2>1. b = s
    BY <1>6, SubSeqFull
  <2>. QED
    BY <1>2, <1>6, <2>1
<1>7. CASE k \in 1..Len(s) /\ t = s /\ j = k + 1
  BY <1>4, <1>7
<1>8. CASE k \in 1..Len(s) /\ t = Without(s, k) /\ j = k
  <2>1. t = Removed(s, k)
    BY <1>8, WithoutIsRemoved
  <2>2. b = SubSeq(s, k + 1, Len(s))
    BY <1>8, WithoutSuffix
  <2>. QED
    BY <1>1, <1>4, <1>8, <2>1, <2>2
<1>9. CASE k \in 1..Len(s) /\ t = s /\ j = Len(s) + 1
  BY <1>3, <1>4, <1>9
<1>. QED
  BY <1>5, <1>6, <1>7, <1>8, <1>9 DEF Moves

\* List implements ListSpec: read through the pointers, every list is the
\* sequence of the nodes added and not removed, and LIST_FOREACH_SAFE visits each
\* node that was in it, in order, although the bodies free the node they are at.
THEOREM ListRefines ==
  ASSUME ListConfig
  PROVE  Spec => ListImplements
<1>1. ASSUME Init
      PROVE  Abstract!Init
  <2>1. <<>> \in Seq(Node) /\ Len(<<>>) = 0
    BY EmptySeq
  <2>2. 1 \in 1..(Len(<<>>) + 1)
    BY <2>1
  <2>3. Linked(<<>>) /\ WalkAt(<<>>, 1)
    BY <1>1, ListInvInit
  <2>4. SubSeq(<<>>, 1, Len(<<>>)) = <<>>
    BY <2>1, SubSeqEmpty
  <2>. QED
    BY <2>1, <2>2, <2>3, <2>4, AbstractIs DEF Abstract!Init
<1>2. ASSUME ListInv, [Next]_vars
      PROVE  [Abstract!Next]_(Abstract!vars)
  <2>1. PICK s \in Seq(Node) : Linked(s) /\ \E k \in 1..(Len(s) + 1) : WalkAt(s, k)
    BY <1>2 DEF ListInv
  <2>2. PICK k \in 1..(Len(s) + 1) : WalkAt(s, k)
    BY <2>1
  <2> DEFINE list == Chain(head, next)
             todo == IF pos = NULL THEN <<>> ELSE <<pos>> \o Chain(n, next)
  <2>3. list = s /\ todo = SubSeq(s, k, Len(s))
    BY <2>1, <2>2, AbstractIs
  <2>4. CASE Next
    <3>1. PICK t \in Seq(Node) : \E j \in 1..(Len(t) + 1) :
                 Linked(t)' /\ WalkAt(t, j)' /\ Moves(s, k, t, j)
      BY <2>1, <2>2, <2>4, ListStep
    <3>2. PICK j \in 1..(Len(t) + 1) : Linked(t)' /\ WalkAt(t, j)' /\ Moves(s, k, t, j)
      BY <3>1
    <3>3. list' = t /\ todo' = SubSeq(t, j, Len(t))
      BY <3>2, AbstractIsNext
    <3>4. Distinct(s)
      BY <2>1 DEF Linked, Forward
    <3>5. AbstractMove(list, todo, list', todo')
      <4>. HIDE DEF list, todo
      <4>. QED
        BY <2>3, <3>2, <3>3, <3>4, MovesAbstract
    <3>. HIDE DEF list, todo
    <3>6. CASE \E x \in Node : /\ todo = <<>> /\ \A i \in DOMAIN list : list[i] # x
                               /\ list' = Append(list, x) /\ todo' = todo
      BY <3>6 DEF Abstract!Next, Abstract!Add, list, todo
    <3>7. CASE todo = <<>> /\ todo' = list /\ list' = list
      BY <3>7 DEF Abstract!Next, Abstract!Walk, list, todo
    <3>8. CASE /\ todo # <<>> /\ todo' = Tail(todo)
               /\ \/ list' = list
                  \/ \E i \in DOMAIN list : list[i] = Head(todo) /\ list' = Removed(list, i)
      BY <3>8 DEF Abstract!Next, Abstract!Visit, Removed, list, todo
    <3>9. CASE todo # <<>> /\ todo' = <<>> /\ list' = list
      BY <3>9 DEF Abstract!Next, Abstract!Leave, list, todo
    <3>. QED
      BY <3>5, <3>6, <3>7, <3>8, <3>9 DEF AbstractMove
  <2>5. CASE UNCHANGED vars
    <3>1. Linked(s)' /\ WalkAt(s, k)'
      BY <2>1, <2>2, <2>5 DEF Linked, WalkAt, Forward, vars
    <3>2. list' = s /\ todo' = SubSeq(s, k, Len(s))
      BY <3>1, AbstractIsNext
    <3>. QED
      BY <2>3, <3>2 DEF Abstract!vars
  <2>. QED
    BY <1>2, <2>4, <2>5
<1>. QED
  BY <1>1, <1>2, ListInvariant, PTL DEF Spec, ListImplements, Abstract!Spec
=============================================================================
