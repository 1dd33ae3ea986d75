--------------------------- MODULE NegCacheProofs ---------------------------
(***************************************************************************)
(* The negative cache answers as the set of recently seen addresses would, *)
(* for words of any width, any addresses and any lifetime of an entry, on  *)
(* a machine whose full-width shift gives 0 (on the others it does not).   *)
(*                                                                         *)
(* The inductive invariant says of every link what it leads to, by the     *)
(* keys alone: below a node are the nodes whose keys agree with its own    *)
(* above the bit it tests.  No path has to be followed to state it, and    *)
(* an insertion changes it for one link.                                   *)
(***************************************************************************)
EXTENDS NegCache, WellFoundedInduction, SequenceTheorems, FiniteSetTheorems, TLAPS

-----------------------------------------------------------------------------
(* The invariant *)

Bits == 0..(maxb - 1)
Words == SUBSET Bits

\* u and v are the same above bit b.
Agree(u, v, b) == \A k \in Bits : k > b => (k \in u <=> k \in v)

\* The nodes whose keys agree with x's above the bit x tests, and the ones of
\* them that a search for w tells from the others at x.
Near(h, x) == {n \in DOMAIN h : Agree(h[n].ip, h[x].ip, h[x].b)}
Side(h, x, w) == {n \in Near(h, x) : h[x].b \in h[n].ip <=> h[x].b \in w}

Node(N) == [ip : Words, seen : Int, b : 0..maxb, l : 0..N, r : 0..N]

Shaped(h) ==
  /\ \E N \in Nat : h \in [0..N -> Node(N)]
  /\ h[head].ip = {} /\ h[head].b = maxb
  /\ \A x \in DOMAIN h \ {head} : h[x].ip \in IPs /\ h[x].b # maxb

\* A link down leads to the node of everything on its side, a link up to the
\* one node that is there.
Linked(h) ==
  \A x \in DOMAIN h, w \in Words :
    LET y == Child(h, x, w)
    IN  Side(h, x, w) = IF h[y].b < h[x].b THEN Near(h, y) ELSE {y}

\* Keys that agree above a bit are told apart at that bit by one node.
Alone(h) ==
  \A x, y \in DOMAIN h : h[x].b = h[y].b /\ Agree(h[x].ip, h[y].ip, h[x].b) => x = y

Distinct(h) == \A x, y \in DOMAIN h : h[x].ip = h[y].ip => x = y

Trie(h) == Shaped(h) /\ Linked(h) /\ Alone(h) /\ Distinct(h)

-----------------------------------------------------------------------------
(* Induction over the numbers, for sets: the library's form of it is for   *)
(* operators, which the provers cannot apply.                              *)

\* A set of natural numbers that has an element has a least one.
LEMMA LeastNat ==
  ASSUME NEW S \in SUBSET Nat, S # {}
  PROVE  \E m \in S : \A x \in S : m <= x
<1> DEFINE R == OpToRel(<, Nat)
<1>1. IsWellFoundedOn(R, Nat)
  BY NatLessThanWellFounded, Zenon
<1>2. ASSUME NEW y \in Nat, NEW x \in Nat, y < x
      PROVE  <<y, x>> \in R
  BY <1>2 DEF OpToRel
<1>. HIDE DEF R
<1>3. PICK x \in S : \A y \in S : ~ (<<y, x>> \in R)
  BY <1>1, WFMin
<1>4. ASSUME NEW y \in S
      PROVE  x <= y
  <2>1. x \in Nat /\ y \in Nat
    OBVIOUS
  <2>2. ~ (<<y, x>> \in R)
    BY <1>3
  <2>3. ~ (y < x)
    BY <1>2, <2>1, <2>2, Zenon
  <2>. QED
    BY <2>1, <2>3
<1>. QED
  BY <1>4

\* A set that holds 0, and with a number the one after it, holds them all.
LEMMA SetInduction ==
  ASSUME NEW S, 0 \in S, \A k \in Nat : k \in S => k + 1 \in S
  PROVE  Nat \subseteq S
<1>1. SUFFICES ASSUME Nat \ S # {}
               PROVE  FALSE
  OBVIOUS
<1>2. PICK m \in Nat \ S : \A x \in Nat \ S : m <= x
  BY <1>1, LeastNat
<1>3. m - 1 \in Nat /\ (m - 1) + 1 = m
  BY <1>2
<1>4. m - 1 \in S
  BY <1>2, <1>3
<1>. QED
  BY <1>2, <1>3, <1>4

\* A set of bits that has an element has a highest one, and Max is that.
LEMMA HighestBit ==
  ASSUME NEW S \in SUBSET (0..maxb), S # {}
  PROVE  Max(S) \in S /\ \A k \in S : k <= Max(S)
<1>1. maxb \in Nat
  BY NegCacheConfig
<1> DEFINE D == {d \in Nat : maxb - d \in S}
<1>2. ASSUME NEW k \in S
      PROVE  maxb - k \in D
  <2>1. k \in 0..maxb /\ maxb - k \in Nat /\ maxb - (maxb - k) = k
    BY <1>1
  <2>. QED
    BY <2>1
<1>3. PICK d \in D : \A e \in D : d <= e
  <2>1. D \in SUBSET Nat /\ D # {}
    BY <1>2
  <2>. QED
    BY <2>1, LeastNat
<1>4. maxb - d \in S
  BY <1>3
<1>5. ASSUME NEW k \in S
      PROVE  maxb - d >= k
  <2>1. d <= maxb - k
    BY <1>2, <1>3
  <2>2. d \in Nat /\ k \in 0..maxb
    BY <1>3
  <2>. QED
    BY <1>1, <2>1, <2>2
<1>6. \E x \in S : \A y \in S : x >= y
  BY <1>4, <1>5
<1>7. Max(S) \in S /\ \A y \in S : Max(S) >= y
  BY <1>6 DEF Max
<1>. QED
  BY <1>1, <1>7

-----------------------------------------------------------------------------
(* Nodes and links *)

LEMMA NodeFacts ==
  ASSUME NEW h, Shaped(h)
  PROVE  /\ head \in DOMAIN h
         /\ h[head].ip = {} /\ h[head].b = maxb
         /\ \A x \in DOMAIN h :
              /\ h[x].ip \in Words
              /\ h[x].b \in 0..maxb
              /\ h[x].l \in DOMAIN h /\ h[x].r \in DOMAIN h
              /\ h[x].seen \in Int
              /\ x # head => h[x].b \in Bits /\ h[x].ip \in IPs
<1>1. PICK N \in Nat : h \in [0..N -> Node(N)]
  BY DEF Shaped
<1>2. maxb \in Nat \ {0}
  BY NegCacheConfig
<1>3. DOMAIN h = 0..N /\ \A x \in DOMAIN h : h[x] \in Node(N)
  BY <1>1
<1>4. \A x \in DOMAIN h : /\ h[x].ip \in Words /\ h[x].b \in 0..maxb /\ h[x].seen \in Int
                          /\ h[x].l \in DOMAIN h /\ h[x].r \in DOMAIN h
  BY <1>3 DEF Node
<1>5. head \in DOMAIN h
  BY <1>1, <1>3 DEF head
<1>. QED
  BY <1>2, <1>4, <1>5 DEF Shaped, Bits

LEMMA ChildIs ==
  ASSUME NEW h, Shaped(h), ~ShiftWraps, NEW x \in DOMAIN h, NEW w \in Words
  PROVE  /\ Child(h, x, w) = IF h[x].b \in w THEN h[x].r ELSE h[x].l
         /\ Child(h, x, w) \in DOMAIN h
<1>1. maxb \in Nat \ {0}
  BY NegCacheConfig
<1>2. h[x].b \in 0..maxb /\ h[x].l \in DOMAIN h /\ h[x].r \in DOMAIN h
  BY NodeFacts
<1>3. GETBIT(w, h[x].b) <=> h[x].b \in w
  BY <1>1, <1>2 DEF GETBIT, Words, Bits
<1>. QED
  BY <1>2, <1>3 DEF Child

\* Every node has keys on both its sides; the one found by the link is one.
LEMMA BothSides ==
  ASSUME NEW h, Trie(h), ~ShiftWraps, NEW x \in DOMAIN h, NEW w \in Words
  PROVE  Child(h, x, w) \in Side(h, x, w)
<1>1. Child(h, x, w) \in DOMAIN h
  BY ChildIs DEF Trie
<1>2. Child(h, x, w) \in Near(h, Child(h, x, w))
  BY <1>1 DEF Near, Agree
<1>. QED
  BY <1>2 DEF Trie, Linked

-----------------------------------------------------------------------------
(* The loops *)

\* One turn of the loop from the pair q.
Turn(h, w, i, q) ==
  IF h[q[1]].b > h[q[2]].b /\ h[q[2]].b > i THEN <<q[2], Child(h, q[2], w)>> ELSE <<q[1], q[2]>>

Turns(h, w, i, px) ==
  /\ px[0] = <<head, h[head].l>>
  /\ \A k \in 1..maxb : px[k] = Turn(h, w, i, px[k - 1])

\* Descend is what maxb turns of the loop lead to.
LEMMA DescendTurns ==
  ASSUME NEW h, NEW w, NEW i
  PROVE  \E px : Turns(h, w, i, px) /\ Descend(h, w, i) = px[maxb]
<1>1. maxb \in Nat \ {0}
  BY NegCacheConfig
<1> DEFINE a == <<head, h[head].l>>
           Loop(f) == [k \in 0..maxb |->
                         IF k = 0 THEN a
                         ELSE IF h[f[k - 1][1]].b > h[f[k - 1][2]].b /\ h[f[k - 1][2]].b > i
                              THEN <<f[k - 1][2], Child(h, f[k - 1][2], w)>>
                              ELSE <<f[k - 1][1], f[k - 1][2]>>]
           S == {m \in Nat : \E f : f[0] = a /\ \A k \in 1..m : f[k] = Turn(h, w, i, f[k - 1])}
           px == CHOOSE f : f = Loop(f)
<1>2. 0 \in S
  <2> DEFINE f == [k \in {0} |-> a]
  <2>1. f[0] = a /\ 1..0 = {}
    OBVIOUS
  <2>. QED
    BY <2>1
<1>3. ASSUME NEW m \in Nat, m \in S
      PROVE  m + 1 \in S
  <2>1. PICK f : f[0] = a /\ \A k \in 1..m : f[k] = Turn(h, w, i, f[k - 1])
    BY <1>3
  <2> DEFINE e == Turn(h, w, i, f[m])
             g == [k \in 0..(m + 1) |-> IF k = m + 1 THEN e ELSE f[k]]
  <2>. HIDE DEF e
  <2>2. g[0] = a
    BY <2>1
  <2>3. ASSUME NEW k \in 1..(m + 1)
        PROVE  g[k] = Turn(h, w, i, g[k - 1])
    <3>1. g[k - 1] = f[k - 1]
      OBVIOUS
    <3>2. CASE k = m + 1
      <4>1. g[k] = e /\ k - 1 = m
        BY <3>2
      <4>. QED
        BY <3>1, <4>1 DEF e
    <3>3. CASE k # m + 1
      <4>1. g[k] = f[k] /\ k \in 1..m
        BY <3>3
      <4>. QED
        BY <2>1, <3>1, <4>1
    <3>. QED
      BY <3>2, <3>3
  <2>. HIDE DEF g
  <2>4. m + 1 \in Nat
    OBVIOUS
  <2>. QED
    BY <2>2, <2>3, <2>4
<1>4. maxb \in S
  <2>. HIDE DEF S
  <2>. QED
    BY <1>1, <1>2, <1>3, SetInduction
<1>5. PICK f : f[0] = a /\ \A k \in 1..maxb : f[k] = Turn(h, w, i, f[k - 1])
  BY <1>4
<1>6. \E g : g = Loop(g)
  <2> DEFINE g == [k \in 0..maxb |-> f[k]]
  <2>1. ASSUME NEW k \in 0..maxb
        PROVE  g[k] = Loop(g)[k]
    <3>1. CASE k = 0
      BY <1>1, <1>5, <3>1
    <3>2. CASE k # 0
      <4>1. k \in 1..maxb /\ k - 1 \in 0..maxb
        BY <1>1, <3>2
      <4>2. g[k] = Turn(h, w, i, g[k - 1])
        BY <1>5, <4>1
      <4>. QED
        BY <3>2, <4>1, <4>2 DEF Turn
    <3>. QED
      BY <3>1, <3>2
  <2>2. g = Loop(g)
    BY <2>1
  <2>. QED
    BY <2>2
<1>7. px = Loop(px)
  BY <1>6
<1>8. Descend(h, w, i) = px[maxb]
  BY DEF Descend
<1>. HIDE DEF px
<1>9. px[0] = a
  BY <1>1, <1>7
<1>10. ASSUME NEW k \in 1..maxb
       PROVE  px[k] = Turn(h, w, i, px[k - 1])
  <2>1. k \in 0..maxb /\ k # 0
    BY <1>1
  <2>2. Loop(px)[k] = Turn(h, w, i, px[k - 1])
    BY <2>1 DEF Turn
  <2>. QED
    BY <1>7, <2>2
<1>. QED
  BY <1>8, <1>9, <1>10 DEF Turns

\* What the pair the loop starts from has, and every turn keeps, the pair it
\* stops at has; and it stops at the end, as every turn reaches a lower bit.
LEMMA DescendInduction ==
  ASSUME NEW h, Shaped(h), ~ShiftWraps, NEW w \in Words, NEW i \in Int,
         NEW S,
         <<head, h[head].l>> \in S,
         \A p, x \in DOMAIN h : <<p, x>> \in S /\ h[p].b > h[x].b /\ h[x].b > i
                                  => <<x, Child(h, x, w)>> \in S
  PROVE  \E p, x \in DOMAIN h : /\ Descend(h, w, i) = <<p, x>>
                                /\ <<p, x>> \in S
                                /\ h[x].b >= h[p].b \/ h[x].b <= i
<1>1. maxb \in Nat \ {0} /\ \A x \in DOMAIN h : h[x].b \in 0..maxb
  BY NegCacheConfig, NodeFacts
<1>2. PICK px : Turns(h, w, i, px) /\ Descend(h, w, i) = px[maxb]
  BY DescendTurns
<1> DEFINE Stopped(p, x) == h[x].b >= h[p].b \/ h[x].b <= i
           Good(k) == \E p, x \in DOMAIN h : /\ px[k] = <<p, x>> /\ <<p, x>> \in S
                                             /\ Stopped(p, x) \/ h[p].b <= maxb - k
           T == {k \in Nat : k <= maxb => Good(k)}
<1>3. 0 \in T
  <2>1. head \in DOMAIN h /\ h[head].l \in DOMAIN h /\ h[head].b = maxb
    BY NodeFacts
  <2>2. h[head].b <= maxb - 0
    BY <1>1, <2>1
  <2>3. Good(0)
    BY <1>2, <2>1, <2>2 DEF Turns
  <2>. QED
    BY <2>3
<1>4. ASSUME NEW k \in Nat, k \in T
      PROVE  k + 1 \in T
  <2>1. SUFFICES ASSUME k + 1 <= maxb
                 PROVE  Good(k + 1)
    <3>. HIDE DEF Good
    <3>. QED
      OBVIOUS
  <2>2. PICK p, x \in DOMAIN h : /\ px[k] = <<p, x>> /\ <<p, x>> \in S
                                 /\ Stopped(p, x) \/ h[p].b <= maxb - k
    <3>1. k <= maxb
      BY <1>1, <2>1
    <3>2. Good(k)
      <4>. HIDE DEF Good
      <4>. QED
        BY <1>4, <3>1
    <3>. QED
      BY <3>2
  <2>3. px[k + 1] = Turn(h, w, i, px[k])
    <3>1. k + 1 \in 1..maxb /\ (k + 1) - 1 = k
      BY <1>1, <2>1
    <3>. QED
      BY <1>2, <3>1 DEF Turns
  <2>4. CASE h[p].b > h[x].b /\ h[x].b > i
    <3>1. px[k + 1] = <<x, Child(h, x, w)>>
      BY <2>2, <2>3, <2>4 DEF Turn
    <3>2. <<x, Child(h, x, w)>> \in S /\ Child(h, x, w) \in DOMAIN h
      BY <2>2, <2>4, ChildIs
    <3>3. h[x].b <= maxb - (k + 1)
      BY <1>1, <2>2, <2>4
    <3>. QED
      BY <3>1, <3>2, <3>3
  <2>5. CASE ~ (h[p].b > h[x].b /\ h[x].b > i)
    <3>1. px[k + 1] = <<p, x>>
      BY <2>2, <2>3, <2>5 DEF Turn
    <3>2. Stopped(p, x)
      BY <1>1, <2>2, <2>5
    <3>. QED
      BY <2>2, <3>1, <3>2
  <2>. QED
    BY <2>4, <2>5
<1>5. maxb \in T
  <2>. HIDE DEF T
  <2>. QED
    BY <1>1, <1>3, <1>4, SetInduction
<1>6. PICK p, x \in DOMAIN h : /\ px[maxb] = <<p, x>> /\ <<p, x>> \in S
                               /\ Stopped(p, x) \/ h[p].b <= maxb - maxb
  <2>1. Good(maxb)
    <3>. HIDE DEF Good
    <3>. QED
      BY <1>1, <1>5
  <2>. QED
    BY <2>1
<1>7. Stopped(p, x)
  BY <1>1, <1>6
<1>. QED
  BY <1>2, <1>6, <1>7

-----------------------------------------------------------------------------
(* Searching *)

\* The key found for w is as close to w as any key of the trie: it agrees with
\* w above j if one of them does.
LEMMA Nearest ==
  ASSUME NEW h, Trie(h), ~ShiftWraps, NEW w \in Words,
         NEW n \in DOMAIN h, NEW j \in Int, Agree(h[n].ip, w, j)
  PROVE  Found(h, w) \in DOMAIN h /\ Agree(h[Found(h, w)].ip, w, j)
<1> DEFINE Close(p) == \/ n \in Side(h, p, w)
                       \/ \A m \in Side(h, p, w) : Agree(h[m].ip, w, j)
           P == {p \in DOMAIN h : Close(p)}
           S == {<<p, Child(h, p, w)>> : p \in P}
<1>1. /\ maxb \in Nat \ {0}
      /\ head \in DOMAIN h /\ h[head].ip = {} /\ h[head].b = maxb
      /\ \A x \in DOMAIN h : h[x].b \in 0..maxb /\ h[x].ip \in Words
  BY NegCacheConfig, NodeFacts DEF Trie
<1>. HIDE DEF Close
<1>0. \A p, x \in DOMAIN h : <<p, x>> \in S <=> x = Child(h, p, w) /\ Close(p)
  OBVIOUS
<1>4. -1 \in Int
  OBVIOUS
<1>. HIDE DEF S
<1>2. <<head, h[head].l>> \in S
  <2>1. maxb \notin w /\ \A x \in DOMAIN h : maxb \notin h[x].ip
    BY <1>1 DEF Words, Bits
  <2>2. h[head].l = Child(h, head, w) /\ h[head].l \in DOMAIN h
    BY <1>1, <2>1, ChildIs DEF Trie
  <2>3. n \in Side(h, head, w)
    BY <1>1, <2>1 DEF Side, Near, Agree, Bits
  <2>. QED
    BY <1>0, <1>1, <2>2, <2>3 DEF Close
<1>3. ASSUME NEW p \in DOMAIN h, NEW x \in DOMAIN h,
             <<p, x>> \in S, h[p].b > h[x].b, h[x].b > -1
      PROVE  <<x, Child(h, x, w)>> \in S
  <2>1. x = Child(h, p, w) /\ Close(p)
    BY <1>0, <1>3
  <2>2. Side(h, p, w) = Near(h, x)
    BY <1>1, <1>3, <2>1 DEF Trie, Linked
  <2>3. Side(h, x, w) \subseteq Near(h, x)
    BY DEF Side
  <2>4. Close(x)
    <3>1. CASE \A m \in Near(h, x) : Agree(h[m].ip, w, j)
      BY <2>3, <3>1 DEF Close
    <3>2. CASE n \in Near(h, x) /\ h[x].b > j
      <4>1. h[x].b \in h[n].ip <=> h[x].b \in w
        BY <1>1, <1>3, <3>2 DEF Agree, Bits
      <4>. QED
        BY <3>2, <4>1 DEF Side, Close
    <3>3. CASE n \in Near(h, x) /\ h[x].b <= j
      BY <1>1, <2>3, <3>3 DEF Near, Agree, Bits, Close
    <3>. QED
      BY <1>1, <2>1, <2>2, <3>1, <3>2, <3>3 DEF Close
  <2>5. Child(h, x, w) \in DOMAIN h
    BY ChildIs DEF Trie
  <2>. QED
    BY <1>0, <2>4, <2>5
<1>5. PICK p, x \in DOMAIN h : /\ Descend(h, w, -1) = <<p, x>>
                               /\ <<p, x>> \in S
                               /\ h[x].b >= h[p].b \/ h[x].b <= -1
  BY <1>4, <1>2, <1>3, DescendInduction DEF Trie
<1>6. Found(h, w) = x /\ x = Child(h, p, w) /\ Close(p)
  BY <1>0, <1>5 DEF Found
<1>7. Side(h, p, w) = {x}
  BY <1>1, <1>5, <1>6 DEF Trie, Linked
<1>. QED
  BY <1>6, <1>7 DEF Close

\* So a key that is in the trie is found, and one that is not is not.
LEMMA FoundIs ==
  ASSUME NEW h, Trie(h), ~ShiftWraps, NEW w \in Words
  PROVE  /\ Found(h, w) \in DOMAIN h
         /\ \A n \in DOMAIN h : h[n].ip = w => Found(h, w) = n
<1>1. head \in DOMAIN h /\ \A x \in DOMAIN h : h[x].ip \in Words
  BY NodeFacts DEF Trie
<1>2. Found(h, w) \in DOMAIN h
  <2>1. maxb \in Int /\ Agree(h[head].ip, w, maxb)
    BY NegCacheConfig DEF Agree, Bits
  <2>. QED
    BY <1>1, <2>1, Nearest
<1>3. ASSUME NEW n \in DOMAIN h, h[n].ip = w
      PROVE  Found(h, w) = n
  <2>1. Agree(h[n].ip, w, -1)
    BY <1>3 DEF Agree
  <2>2. Agree(h[Found(h, w)].ip, w, -1)
    BY <2>1, Nearest
  <2>3. h[Found(h, w)].ip = w
    <3>1. h[Found(h, w)].ip \in SUBSET Bits /\ w \in SUBSET Bits
      BY <1>1, <1>2 DEF Words
    <3>2. \A k \in Bits : k > -1
      BY NegCacheConfig DEF Bits
    <3>3. \A k \in Bits : k \in h[Found(h, w)].ip <=> k \in w
      BY <2>2, <3>2 DEF Agree
    <3>. QED
      BY <3>1, <3>3
  <2>. QED
    BY <1>2, <1>3, <2>3 DEF Trie, Distinct
<1>. QED
  BY <1>2, <1>3

\* Where the last loop of nc_insert stops for a key w that agrees above bit i
\* with the key of t: on the way to t, at the first link past bit i.
LEMMA PlaceIs ==
  ASSUME NEW h, Trie(h), ~ShiftWraps, NEW w \in Words,
         NEW t \in DOMAIN h, NEW i \in Bits, Agree(h[t].ip, w, i)
  PROVE  \E p, x \in DOMAIN h : /\ Descend(h, w, i) = <<p, x>>
                                /\ x = Child(h, p, w) /\ t \in Side(h, p, w) /\ h[p].b > i
                                /\ h[x].b >= h[p].b \/ h[x].b <= i
<1> DEFINE P == {p \in DOMAIN h : t \in Side(h, p, w) /\ h[p].b > i}
           S == {<<p, Child(h, p, w)>> : p \in P}
<1>1. /\ maxb \in Nat \ {0} /\ i \in 0..(maxb - 1)
      /\ head \in DOMAIN h /\ h[head].ip = {} /\ h[head].b = maxb
      /\ \A x \in DOMAIN h : h[x].b \in 0..maxb /\ h[x].ip \in Words
  BY NegCacheConfig, NodeFacts DEF Trie, Bits
<1>0. \A p, x \in DOMAIN h :
        <<p, x>> \in S <=> x = Child(h, p, w) /\ t \in Side(h, p, w) /\ h[p].b > i
  OBVIOUS
<1>4. i \in Int
  BY <1>1
<1>. HIDE DEF S
<1>2. <<head, h[head].l>> \in S
  <2>1. maxb \notin w /\ \A x \in DOMAIN h : maxb \notin h[x].ip
    BY <1>1 DEF Words, Bits
  <2>2. h[head].l = Child(h, head, w) /\ h[head].l \in DOMAIN h
    BY <1>1, <2>1, ChildIs DEF Trie
  <2>3. t \in Side(h, head, w)
    BY <1>1, <2>1 DEF Side, Near, Agree, Bits
  <2>. QED
    BY <1>0, <1>1, <2>2, <2>3
<1>3. ASSUME NEW p \in DOMAIN h, NEW x \in DOMAIN h,
             <<p, x>> \in S, h[p].b > h[x].b, h[x].b > i
      PROVE  <<x, Child(h, x, w)>> \in S
  <2>1. t \in Near(h, x)
    BY <1>0, <1>1, <1>3 DEF Trie, Linked
  <2>2. h[x].b \in h[t].ip <=> h[x].b \in w
    BY <1>1, <1>3 DEF Agree, Bits
  <2>3. Child(h, x, w) \in DOMAIN h
    BY ChildIs DEF Trie
  <2>. QED
    BY <1>0, <1>3, <2>1, <2>2, <2>3 DEF Side
<1>5. PICK p, x \in DOMAIN h : /\ Descend(h, w, i) = <<p, x>>
                               /\ <<p, x>> \in S
                               /\ h[x].b >= h[p].b \/ h[x].b <= i
  BY <1>2, <1>3, <1>4, DescendInduction DEF Trie
<1>. QED
  BY <1>0, <1>5

-----------------------------------------------------------------------------
(* Inserting *)

\* Behind a link that leads up, or down to a bit below i, keys are the same
\* from bit i on.
LEMMA SameBehind ==
  ASSUME NEW h, Trie(h), ~ShiftWraps, NEW w \in Words, NEW i \in Bits,
         NEW p \in DOMAIN h,
         h[Child(h, p, w)].b >= h[p].b \/ h[Child(h, p, w)].b < i,
         NEW m \in Side(h, p, w), NEW n \in Side(h, p, w), NEW k \in Bits, k >= i
  PROVE  k \in h[m].ip <=> k \in h[n].ip
<1> DEFINE x == Child(h, p, w)
<1>1. /\ maxb \in Nat \ {0} /\ i \in 0..(maxb - 1) /\ k \in 0..(maxb - 1)
      /\ x \in DOMAIN h /\ h[x].b \in 0..maxb /\ h[p].b \in 0..maxb
  BY NegCacheConfig, NodeFacts, ChildIs DEF Trie, Bits
<1>2. Side(h, p, w) = IF h[x].b < h[p].b THEN Near(h, x) ELSE {x}
  BY DEF Trie, Linked
<1>. HIDE DEF x
<1>3. CASE h[x].b < h[p].b
  <2>1. h[x].b < i
    BY <1>1, <1>3 DEF x
  <2>2. m \in Near(h, x) /\ n \in Near(h, x)
    BY <1>2, <1>3
  <2>3. k > h[x].b
    BY <1>1, <2>1
  <2>. QED
    BY <2>2, <2>3 DEF Near, Agree
<1>4. CASE ~ (h[x].b < h[p].b)
  BY <1>2, <1>4
<1>. QED
  BY <1>3, <1>4

\* Of two such links with a key in common, one is not above the other: the
\* node the lower link leaves from has keys on both its sides.
LEMMA NotAbove ==
  ASSUME NEW h, Trie(h), ~ShiftWraps, NEW i \in Bits,
         NEW z \in DOMAIN h, NEW v \in Words, NEW f \in Side(h, z, v),
         h[Child(h, z, v)].b >= h[z].b \/ h[Child(h, z, v)].b < i,
         NEW p \in DOMAIN h, f \in Near(h, p), h[p].b >= i
  PROVE  h[z].b <= h[p].b
<1>0. /\ maxb \in Nat \ {0} /\ i \in 0..(maxb - 1)
      /\ h[z].b \in 0..maxb /\ h[p].b \in 0..maxb
  BY NegCacheConfig, NodeFacts DEF Trie, Bits
<1>1. SUFFICES ASSUME h[z].b > h[p].b
               PROVE  FALSE
  BY <1>0
<1>2. /\ maxb \in Nat \ {0} /\ i \in 0..(maxb - 1)
      /\ h[z].b \in 0..maxb /\ h[p].b \in 0..maxb /\ h[p].b \in Bits
  BY <1>0, <1>1 DEF Bits
<1> DEFINE one == {h[p].b}
           a == Child(h, p, {})
           c == Child(h, p, one)
<1>3. {} \in Words /\ one \in Words
  BY <1>2 DEF Words
<1>4. a \in Side(h, p, {}) /\ c \in Side(h, p, one)
  BY <1>3, BothSides
<1>5. /\ a \in Near(h, p) /\ c \in Near(h, p)
      /\ h[p].b \notin h[a].ip /\ h[p].b \in h[c].ip
  BY <1>4 DEF Side
<1>. HIDE DEF a, c
<1>6. ASSUME NEW m \in Near(h, p)
      PROVE  m \in Side(h, z, v)
  <2>1. \A k \in Bits : k > h[p].b => (k \in h[m].ip <=> k \in h[f].ip)
    BY DEF Near, Agree
  <2>2. \A k \in Bits : k > h[z].b => (k \in h[m].ip <=> k \in h[f].ip)
    BY <1>1, <1>2, <2>1 DEF Bits
  <2>3. m \in Near(h, z)
    BY <2>2 DEF Side, Near, Agree
  <2>4. h[z].b \in h[m].ip <=> h[z].b \in h[f].ip
    <3>1. CASE h[z].b \in Bits
      BY <1>1, <2>1, <3>1
    <3>2. CASE h[z].b \notin Bits
      <4>1. m \in DOMAIN h /\ f \in DOMAIN h
        BY DEF Near, Side
      <4>2. h[m].ip \in SUBSET Bits /\ h[f].ip \in SUBSET Bits
        BY <4>1, NodeFacts DEF Trie, Words
      <4>. QED
        BY <3>2, <4>2
    <3>. QED
      BY <3>1, <3>2
  <2>. QED
    BY <2>3, <2>4 DEF Side
<1>7. h[p].b \in h[a].ip <=> h[p].b \in h[c].ip
  BY <1>2, <1>5, <1>6, SameBehind
<1>. QED
  BY <1>5, <1>7

\* Bit i is the highest in which w differs from the key of f, the closest to w;
\* the way to f passes bit i at the link from p to x.
Fits(h, w, i, p, x, f) ==
  /\ i \in Bits /\ p \in DOMAIN h /\ x \in DOMAIN h /\ f \in DOMAIN h
  /\ Agree(h[f].ip, w, i)
  /\ \A n \in DOMAIN h : ~ Agree(h[n].ip, w, i - 1)
  /\ x = Child(h, p, w) /\ f \in Side(h, p, w) /\ h[p].b > i
  /\ h[x].b >= h[p].b \/ h[x].b < i

LEMMA InsertFits ==
  ASSUME NEW h, Trie(h), ~ShiftWraps, NEW w \in Words, h[Found(h, w)].ip # w
  PROVE  \E p, x \in DOMAIN h :
           /\ Descend(h, w, Max(Differing(h, w))) = <<p, x>>
           /\ Fits(h, w, Max(Differing(h, w)), p, x, Found(h, w))
<1> DEFINE f == Found(h, w)
           i == Max(Differing(h, w))
<1>1. /\ maxb \in Nat \ {0} /\ f \in DOMAIN h /\ h[f].ip \in SUBSET Bits
      /\ w \in SUBSET Bits /\ \A y \in DOMAIN h : h[y].b \in 0..maxb
  BY NegCacheConfig, FoundIs, NodeFacts DEF Trie, Words
<1>2. Differing(h, w) = {k \in 0..maxb : ~ (k \in h[f].ip <=> k \in w)}
  <2>1. ASSUME NEW k \in 0..maxb, NEW u \in SUBSET Bits
        PROVE  GETBIT(u, k) <=> k \in u
    BY <1>1 DEF GETBIT, Bits
  <2>2. \A k \in 0..maxb : (GETBIT(h[f].ip, k) <=> k \in h[f].ip) /\ (GETBIT(w, k) <=> k \in w)
    BY <1>1, <2>1
  <2>. QED
    BY <2>2 DEF Differing
<1>3. i \in Differing(h, w) /\ \A k \in Differing(h, w) : k <= i
  <2>1. PICK k \in Bits : ~ (k \in h[f].ip <=> k \in w)
    BY <1>1
  <2>2. k \in 0..maxb
    BY <1>1 DEF Bits
  <2>3. Differing(h, w) \in SUBSET (0..maxb) /\ Differing(h, w) # {}
    BY <1>2, <2>1, <2>2
  <2>. QED
    BY <2>3, HighestBit
<1>. HIDE DEF f, i
<1>4. i \in 0..maxb /\ ~ (i \in h[f].ip <=> i \in w)
  BY <1>2, <1>3
<1>5. i \in Bits
  BY <1>1, <1>4
<1>6. Agree(h[f].ip, w, i)
  BY <1>1, <1>2, <1>3, <1>4 DEF Agree, Bits
<1>7. ASSUME NEW n \in DOMAIN h, Agree(h[n].ip, w, i - 1)
      PROVE  FALSE
  <2>1. i - 1 \in Int /\ i > i - 1
    BY <1>4
  <2>2. Agree(h[f].ip, w, i - 1)
    BY <1>7, <2>1, Nearest DEF f
  <2>. QED
    BY <1>4, <1>5, <2>1, <2>2 DEF Agree
<1>8. PICK p, x \in DOMAIN h :
        /\ Descend(h, w, i) = <<p, x>>
        /\ x = Child(h, p, w) /\ f \in Side(h, p, w) /\ h[p].b > i
        /\ h[x].b >= h[p].b \/ h[x].b <= i
  BY <1>1, <1>5, <1>6, PlaceIs
<1>9. ASSUME h[x].b = i
      PROVE  FALSE
  <2>1. f \in Near(h, x)
    BY <1>8, <1>9 DEF Trie, Linked
  <2> DEFINE m == Child(h, x, w)
  <2>2. m \in Side(h, x, w)
    BY BothSides
  <2>. HIDE DEF m
  <2>3. m \in DOMAIN h /\ m \in Near(h, x) /\ (i \in h[m].ip <=> i \in w)
    BY <1>9, <2>2 DEF Side, Near
  <2>4. ASSUME NEW k \in Bits, k > i - 1
        PROVE  k \in h[m].ip <=> k \in w
    <3>1. CASE k = i
      BY <2>3, <3>1
    <3>2. CASE k > i
      BY <1>6, <1>9, <2>1, <2>3, <3>2 DEF Near, Agree
    <3>. QED
      BY <1>4, <2>4, <3>1, <3>2 DEF Bits
  <2>. QED
    BY <1>7, <2>3, <2>4 DEF Agree
<1>10. h[x].b >= h[p].b \/ h[x].b < i
  BY <1>1, <1>4, <1>8, <1>9
<1>11. Fits(h, w, i, p, x, f)
  BY <1>1, <1>5, <1>6, <1>7, <1>8, <1>10 DEF Fits
<1>. QED
  BY <1>8, <1>11 DEF f, i

\* g is h with a new node t for w, which tests bit i, between p and x.
Grown(h, g, t, w, i, p, x) ==
  /\ t \notin DOMAIN h /\ DOMAIN g = DOMAIN h \cup {t}
  /\ \A n \in DOMAIN h : g[n].ip = h[n].ip /\ g[n].b = h[n].b /\ g[n].seen = h[n].seen
  /\ g[t].ip = w /\ g[t].b = i
  /\ \A n \in DOMAIN h, v \in Words :
       Child(g, n, v) = IF n = p /\ (h[p].b \in v <=> h[p].b \in w) THEN t ELSE Child(h, n, v)
  /\ \A v \in Words : Child(g, t, v) = IF i \in v <=> i \in w THEN t ELSE x

LEMMA AttachGrows ==
  ASSUME NEW h, Shaped(h), ~ShiftWraps, NEW w \in IPs, NEW i \in Bits,
         NEW p \in DOMAIN h, NEW x \in DOMAIN h, Descend(h, w, i) = <<p, x>>
  PROVE  /\ Shaped(Attach(h, w, i))
         /\ Grown(h, Attach(h, w, i), Cardinality(DOMAIN h), w, i, p, x)
<1> DEFINE t == Cardinality(DOMAIN h)
           new == [ip |-> w, seen |-> Never, b |-> i,
                   l |-> IF GETBIT(w, i) THEN x ELSE t,
                   r |-> IF GETBIT(w, i) THEN t ELSE x]
           old == IF GETBIT(w, h[p].b) THEN [h EXCEPT ![p].r = t] ELSE [h EXCEPT ![p].l = t]
           g == Attach(h, w, i)
<1>1. PICK N \in Nat : h \in [0..N -> Node(N)]
  BY DEF Shaped
<1>2. /\ maxb \in Nat \ {0} /\ i \in 0..(maxb - 1) /\ w \in Words /\ w \in SUBSET (0..(maxb - 1))
      /\ h[p].b \in 0..maxb /\ p \in 0..N /\ x \in 0..N
  BY <1>1, NegCacheConfig, NodeFacts DEF Bits, Words
<1>3. t = N + 1
  BY <1>1, FS_Interval
<1>4. g = [n \in DOMAIN h \cup {t} |-> IF n = t THEN new ELSE old[n]]
  BY DEF Attach
<1>5. (GETBIT(w, i) <=> i \in w) /\ (GETBIT(w, h[p].b) <=> h[p].b \in w)
  BY <1>2 DEF GETBIT
<1>. HIDE DEF t, g
<1>6. ASSUME NEW n \in 0..N
      PROVE  /\ g[n].ip = h[n].ip /\ g[n].b = h[n].b /\ g[n].seen = h[n].seen
             /\ g[n].l = IF n = p /\ ~ (h[p].b \in w) THEN t ELSE h[n].l
             /\ g[n].r = IF n = p /\ h[p].b \in w THEN t ELSE h[n].r
             /\ g[n] \in Node(N + 1)
  <2>1. n # t /\ n \in DOMAIN h /\ g[n] = old[n] /\ h[n] \in Node(N)
    BY <1>1, <1>3, <1>4
  <2>2. h[n] \in [ip : Words, seen : Int, b : 0..maxb, l : 0..N, r : 0..N]
    BY <2>1 DEF Node
  <2>3. CASE n # p
    <3>1. old[n] = h[n]
      BY <1>1, <2>1, <2>3
    <3>2. h[n] \in Node(N + 1)
      BY <2>2 DEF Node
    <3>. QED
      BY <2>1, <2>3, <3>1, <3>2
  <2>4. CASE n = p /\ h[p].b \in w
    <3>1. old[n] = [h[n] EXCEPT !.r = t]
      BY <1>1, <1>5, <2>1, <2>4
    <3>2. [h[n] EXCEPT !.r = t] \in Node(N + 1)
      BY <1>1, <1>3, <2>2 DEF Node
    <3>. QED
      BY <2>1, <2>2, <2>4, <3>1, <3>2
  <2>5. CASE n = p /\ ~ (h[p].b \in w)
    <3>1. old[n] = [h[n] EXCEPT !.l = t]
      BY <1>1, <1>5, <2>1, <2>5
    <3>2. [h[n] EXCEPT !.l = t] \in Node(N + 1)
      BY <1>1, <1>3, <2>2 DEF Node
    <3>. QED
      BY <2>1, <2>2, <2>5, <3>1, <3>2
  <2>. QED
    BY <2>3, <2>4, <2>5
<1>7. /\ g[t] = new /\ t \notin DOMAIN h /\ DOMAIN g = DOMAIN h \cup {t}
      /\ DOMAIN h = 0..N /\ DOMAIN g = 0..(N + 1)
  BY <1>1, <1>3, <1>4
<1>8. /\ g[t].ip = w /\ g[t].b = i /\ g[t] \in Node(N + 1)
      /\ g[t].l = IF i \in w THEN x ELSE t
      /\ g[t].r = IF i \in w THEN t ELSE x
  <2>1. /\ new.ip = w /\ new.b = i
        /\ new.l = IF i \in w THEN x ELSE t
        /\ new.r = IF i \in w THEN t ELSE x
    BY <1>5
  <2>2. new \in Node(N + 1)
    <3>1. Never \in Int /\ x \in 0..(N + 1) /\ t \in 0..(N + 1) /\ i \in 0..maxb
      BY <1>1, <1>2, <1>3 DEF Never
    <3>. QED
      BY <1>2, <3>1 DEF Node
  <2>. HIDE DEF new
  <2>. QED
    BY <1>7, <2>1, <2>2
<1>. HIDE DEF new, old
<1>9. Shaped(g)
  <2>1. g \in [0..(N + 1) -> Node(N + 1)]
    <3>1. \A n \in 0..(N + 1) : g[n] \in Node(N + 1)
      BY <1>1, <1>3, <1>6, <1>8
    <3>2. g = [n \in DOMAIN g |-> g[n]]
      BY <1>4, <1>7
    <3>. QED
      BY <1>7, <3>1, <3>2
  <2>2. head \in 0..N /\ head \in DOMAIN h /\ h[head].ip = {} /\ h[head].b = maxb
    BY <1>7, NodeFacts
  <2>3. g[head].ip = {} /\ g[head].b = maxb
    BY <1>6, <2>2
  <2>4. ASSUME NEW y \in DOMAIN g \ {head}
        PROVE  g[y].ip \in IPs /\ g[y].b # maxb
    <3>1. CASE y = t
      BY <1>2, <1>8, <3>1
    <3>2. CASE y # t
      BY <1>6, <1>7, <3>2 DEF Shaped
    <3>. QED
      BY <3>1, <3>2
  <2>. QED
    BY <1>1, <2>1, <2>3, <2>4 DEF Shaped
<1>10. ASSUME NEW n \in DOMAIN h, NEW v \in Words
       PROVE  Child(g, n, v) = IF n = p /\ (h[p].b \in v <=> h[p].b \in w)
                               THEN t ELSE Child(h, n, v)
  <2>1. /\ Child(h, n, v) = IF h[n].b \in v THEN h[n].r ELSE h[n].l
        /\ Child(g, n, v) = IF g[n].b \in v THEN g[n].r ELSE g[n].l
    BY <1>7, <1>9, ChildIs
  <2>. QED
    BY <1>6, <1>7, <2>1
<1>11. ASSUME NEW v \in Words
       PROVE  Child(g, t, v) = IF i \in v <=> i \in w THEN t ELSE x
  <2>1. Child(g, t, v) = IF g[t].b \in v THEN g[t].r ELSE g[t].l
    BY <1>7, <1>9, ChildIs
  <2>. QED
    BY <1>8, <2>1
<1>12. Grown(h, g, t, w, i, p, x)
  BY <1>6, <1>7, <1>8, <1>10, <1>11 DEF Grown
<1>. QED
  BY <1>9, <1>12 DEF t, g

\* A node that fits leaves a trie.
LEMMA GrownIsTrie ==
  ASSUME NEW h, Trie(h), ~ShiftWraps, NEW w \in Words,
         NEW i, NEW p, NEW x, NEW f, Fits(h, w, i, p, x, f),
         NEW g, NEW t, Shaped(g), Grown(h, g, t, w, i, p, x)
  PROVE  Trie(g)
<1>1. /\ maxb \in Nat \ {0} /\ i \in 0..(maxb - 1) /\ i \in Bits
      /\ \A n \in DOMAIN h : h[n].b \in 0..maxb /\ h[n].ip \in SUBSET Bits
      /\ \A n \in DOMAIN h : n # head => h[n].b \in Bits
      /\ w \in SUBSET Bits /\ h[head].b = maxb
  BY NegCacheConfig, NodeFacts DEF Trie, Fits, Words, Bits
<1>2. /\ p \in DOMAIN h /\ x \in DOMAIN h /\ f \in DOMAIN h
      /\ x = Child(h, p, w) /\ f \in Side(h, p, w) /\ h[p].b > i
      /\ h[x].b >= h[p].b \/ h[x].b < i
  BY DEF Fits
<1>3. /\ t \notin DOMAIN h /\ DOMAIN g = DOMAIN h \cup {t}
      /\ \A n \in DOMAIN h : g[n].ip = h[n].ip /\ g[n].b = h[n].b
      /\ g[t].ip = w /\ g[t].b = i
  BY DEF Grown
\* No key agrees with w from bit i on; f's does above it.
<1>4. ASSUME NEW n \in DOMAIN h, \A k \in Bits : k >= i => (k \in h[n].ip <=> k \in w)
      PROVE  FALSE
  <2>1. Agree(h[n].ip, w, i - 1)
    BY <1>1, <1>4 DEF Agree, Bits
  <2>. QED
    BY <2>1 DEF Fits
<1>5. \A k \in Bits : k > i => (k \in h[f].ip <=> k \in w)
  BY DEF Fits, Agree
<1>6. ASSUME NEW n \in DOMAIN h, NEW k \in 0..maxb, k > i
      PROVE  (k \in h[f].ip <=> k \in w) /\ (k \notin Bits => k \notin h[n].ip /\ k \notin w)
  BY <1>1, <1>2, <1>5, <1>6
\* The keys that agree with w above bit i are the ones behind the link.
<1>7. ASSUME NEW m \in DOMAIN h
      PROVE  Agree(h[m].ip, w, i) <=> m \in Side(h, p, w)
  <2>1. ASSUME Agree(h[m].ip, w, i)
        PROVE  m \in Side(h, p, w)
    <3>1. \A k \in Bits : k > i => (k \in h[m].ip <=> k \in h[f].ip)
      BY <1>5, <2>1 DEF Agree
    <3>2. m \in Near(h, p)
      BY <1>1, <1>2, <3>1 DEF Side, Near, Agree, Bits
    <3>3. h[p].b \in h[m].ip <=> h[p].b \in h[f].ip
      <4>1. h[p].b \in 0..maxb
        BY <1>1, <1>2
      <4>2. CASE h[p].b \in Bits
        BY <1>2, <3>1, <4>2
      <4>3. CASE h[p].b \notin Bits
        BY <1>1, <1>2, <4>3
      <4>. QED
        BY <4>2, <4>3
    <3>. QED
      BY <1>2, <3>2, <3>3 DEF Side
  <2>2. ASSUME m \in Side(h, p, w)
        PROVE  Agree(h[m].ip, w, i)
    <3>1. \A k \in Bits : k >= i => (k \in h[m].ip <=> k \in h[f].ip)
      BY <1>1, <1>2, <2>2, SameBehind
    <3>. QED
      BY <1>1, <1>5, <3>1 DEF Agree, Bits
  <2>. QED
    BY <2>1, <2>2
<1>8. ASSUME NEW m \in Side(h, p, w)
      PROVE  ~ (i \in h[m].ip <=> i \in w)
  <2>1. SUFFICES ASSUME i \in h[m].ip <=> i \in w
                 PROVE  FALSE
    OBVIOUS
  <2>2. m \in DOMAIN h
    BY DEF Side, Near
  <2>3. Agree(h[m].ip, w, i)
    BY <1>7, <2>2
  <2>4. ASSUME NEW k \in Bits, k >= i
        PROVE  k \in h[m].ip <=> k \in w
    <3>1. CASE k = i
      BY <2>1, <3>1
    <3>2. CASE k # i
      <4>1. k > i
        BY <1>1, <2>4, <3>2 DEF Bits
      <4>. QED
        BY <2>3, <4>1 DEF Agree
    <3>. QED
      BY <3>1, <3>2
  <2>. QED
    BY <1>4, <2>2, <2>4
\* The keys of g, old and new, near an old node and near the new one.
<1>9. ASSUME NEW m \in DOMAIN h, NEW n \in DOMAIN h, NEW v \in Words
      PROVE  /\ m \in Near(g, n) <=> m \in Near(h, n)
             /\ m \in Side(g, n, v) <=> m \in Side(h, n, v)
  BY <1>3 DEF Near, Side
<1>10. ASSUME NEW n \in DOMAIN h, NEW v \in Words
       PROVE  /\ t \in Near(g, n) <=> Agree(w, h[n].ip, h[n].b)
              /\ t \in Side(g, n, v) <=> /\ Agree(w, h[n].ip, h[n].b)
                                         /\ h[n].b \in w <=> h[n].b \in v
  BY <1>3 DEF Near, Side
<1>11. ASSUME NEW m \in DOMAIN h, NEW v \in Words
       PROVE  /\ m \in Near(g, t) <=> m \in Side(h, p, w)
              /\ m \in Side(g, t, v) <=> m \in Side(h, p, w) /\ ~ (i \in w <=> i \in v)
  <2>1. m \in Near(g, t) <=> m \in Side(h, p, w)
    BY <1>3, <1>7 DEF Near
  <2>2. m \in Side(g, t, v) <=> m \in Near(g, t) /\ (i \in h[m].ip <=> i \in v)
    BY <1>3 DEF Side
  <2>. QED
    BY <1>8, <2>1, <2>2
<1>12. ASSUME NEW v \in Words
       PROVE  /\ t \in Near(g, t)
              /\ t \in Side(g, t, v) <=> (i \in w <=> i \in v)
  BY <1>3 DEF Near, Side, Agree
\* Where the new key belongs among the old nodes.
<1>13. ASSUME NEW n \in DOMAIN h, Agree(w, h[n].ip, h[n].b)
       PROVE  h[n].b >= i
  <2>1. SUFFICES ASSUME h[n].b < i
                 PROVE  FALSE
    BY <1>1
  <2>2. \A k \in Bits : k >= i => (k \in h[n].ip <=> k \in w)
    BY <1>1, <1>13, <2>1 DEF Agree, Bits
  <2>. QED
    BY <1>4, <2>2
<1>14. ASSUME NEW n \in DOMAIN h, NEW v \in Words, t \in Side(g, n, v)
       PROVE  h[n].b > i /\ f \in Side(h, n, v)
  <2>1. Agree(w, h[n].ip, h[n].b) /\ (h[n].b \in w <=> h[n].b \in v)
    BY <1>10, <1>14
  <2>2. ASSUME h[n].b = i
        PROVE  FALSE
    <3> DEFINE m == Child(h, n, v)
    <3>1. m \in Side(h, n, v)
      BY BothSides
    <3>. HIDE DEF m
    <3>2. /\ m \in DOMAIN h /\ Agree(h[m].ip, h[n].ip, h[n].b)
          /\ i \in h[m].ip <=> i \in v
      BY <2>2, <3>1 DEF Side, Near
    <3>3. ASSUME NEW k \in Bits, k >= i
          PROVE  k \in h[m].ip <=> k \in w
      <4>1. CASE k = i
        BY <2>1, <2>2, <3>2, <4>1
      <4>2. CASE k # i
        <5>1. k > i
          BY <1>1, <3>3, <4>2 DEF Bits
        <5>. QED
          BY <2>1, <2>2, <3>2, <5>1 DEF Agree
      <4>. QED
        BY <4>1, <4>2
    <3>. QED
      BY <1>4, <3>2, <3>3
  <2>3. h[n].b \in 0..maxb /\ h[n].b > i
    BY <1>1, <1>13, <2>1, <2>2
  <2>4. Agree(h[f].ip, h[n].ip, h[n].b)
    BY <1>1, <1>5, <2>1, <2>3 DEF Agree, Bits
  <2>5. h[n].b \in h[f].ip <=> h[n].b \in v
    BY <1>6, <2>1, <2>3
  <2>. QED
    BY <1>2, <2>3, <2>4, <2>5 DEF Side, Near
<1>15. ASSUME NEW n \in DOMAIN h, NEW v \in Words, h[n].b > i, f \in Side(h, n, v)
       PROVE  t \in Side(g, n, v)
  <2>1. Agree(h[f].ip, h[n].ip, h[n].b) /\ (h[n].b \in h[f].ip <=> h[n].b \in v)
    BY <1>15 DEF Side, Near
  <2>2. Agree(w, h[n].ip, h[n].b)
    BY <1>1, <1>5, <1>15, <2>1 DEF Agree, Bits
  <2>3. h[n].b \in w <=> h[n].b \in v
    BY <1>1, <1>6, <1>15, <2>1
  <2>. QED
    BY <1>10, <2>2, <2>3
\* The links: both of the new node, the one to it, and all others.
<1>16. ASSUME NEW v \in Words, i \in w <=> i \in v
       PROVE  Side(g, t, v) = {t}
  <2>1. Side(g, t, v) \subseteq DOMAIN h \cup {t}
    BY <1>3 DEF Side, Near
  <2>. QED
    BY <1>11, <1>12, <1>16, <2>1
<1>17. ASSUME NEW v \in Words, ~ (i \in w <=> i \in v)
       PROVE  Side(g, t, v) = IF g[x].b < g[t].b THEN Near(g, x) ELSE {x}
  <2>1. Side(g, t, v) = Side(h, p, w)
    <3>1. Side(g, t, v) \subseteq DOMAIN h \cup {t} /\ Side(h, p, w) \subseteq DOMAIN h
      BY <1>3 DEF Side, Near
    <3>2. t \notin Side(g, t, v) /\ t \notin Side(h, p, w)
      BY <1>3, <1>12, <1>17, <3>1
    <3>3. \A m \in DOMAIN h : m \in Side(g, t, v) <=> m \in Side(h, p, w)
      BY <1>11, <1>17
    <3>. QED
      BY <3>1, <3>2, <3>3
  <2>2. Side(h, p, w) = IF h[x].b < h[p].b THEN Near(h, x) ELSE {x}
    BY <1>2 DEF Trie, Linked
  <2>3. CASE h[x].b < i
    <3>1. h[x].b < h[p].b
      BY <1>1, <1>2, <2>3
    <3>2. t \notin Near(g, x)
      <4>1. ~ Agree(w, h[x].ip, h[x].b)
        BY <1>1, <1>2, <1>13, <2>3
      <4>. QED
        BY <1>2, <1>10, <1>17, <4>1
    <3>3. Near(g, x) = Near(h, x)
      <4>1. Near(g, x) \subseteq DOMAIN h \cup {t} /\ Near(h, x) \subseteq DOMAIN h
        BY <1>3 DEF Near
      <4>. QED
        BY <1>2, <1>9, <1>17, <3>2, <4>1
    <3>. QED
      BY <1>2, <1>3, <2>1, <2>2, <2>3, <3>1, <3>3
  <2>4. CASE ~ (h[x].b < i)
    <3>1. ~ (h[x].b < h[p].b)
      BY <1>1, <1>2, <2>4
    <3>. QED
      BY <1>2, <1>3, <2>1, <2>2, <2>4, <3>1
  <2>. QED
    BY <2>3, <2>4
<1>18. ASSUME NEW v \in Words, h[p].b \in v <=> h[p].b \in w
       PROVE  Side(g, p, v) = Near(g, t)
  <2>1. t \in Side(g, p, v)
    <3>1. f \in Side(h, p, v)
      BY <1>2, <1>18 DEF Side
    <3>. QED
      BY <1>2, <1>15, <3>1
  <2>2. Side(h, p, v) = Side(h, p, w)
    BY <1>18 DEF Side
  <2>3. Side(g, p, v) \subseteq DOMAIN h \cup {t} /\ Near(g, t) \subseteq DOMAIN h \cup {t}
    BY <1>3 DEF Side, Near
  <2>4. \A m \in DOMAIN h : m \in Side(g, p, v) <=> m \in Near(g, t)
    BY <1>2, <1>9, <1>11, <2>2
  <2>5. t \in Near(g, t)
    BY <1>12, <1>18
  <2>. QED
    BY <2>1, <2>3, <2>4, <2>5
<1>19. ASSUME NEW n \in DOMAIN h, NEW v \in Words,
              ~ (n = p /\ (h[p].b \in v <=> h[p].b \in w))
       PROVE  Side(g, n, v) = IF g[Child(h, n, v)].b < g[n].b
                              THEN Near(g, Child(h, n, v)) ELSE {Child(h, n, v)}
  <2> DEFINE y == Child(h, n, v)
  <2>1. y \in DOMAIN h /\ h[y].b \in 0..maxb /\ h[n].b \in 0..maxb
    BY <1>1, ChildIs DEF Trie
  <2>2. Side(h, n, v) = IF h[y].b < h[n].b THEN Near(h, y) ELSE {y}
    BY DEF Trie, Linked
  <2>3. Side(g, n, v) \subseteq DOMAIN h \cup {t} /\ Near(g, y) \subseteq DOMAIN h \cup {t}
    BY <1>3 DEF Side, Near
  <2>4. ASSUME t \in Side(g, n, v)
        PROVE  h[y].b < h[n].b /\ h[y].b >= i
    <3>1. h[n].b > i /\ f \in Side(h, n, v)
      BY <1>14, <2>4
    <3>2. SUFFICES ASSUME h[y].b >= h[n].b \/ h[y].b < i
                   PROVE  FALSE
      BY <1>1, <2>1
    <3>3. f \in Near(h, n) /\ f \in Near(h, p)
      BY <1>2, <3>1 DEF Side
    <3>4. h[n].b <= h[p].b
      BY <1>1, <1>2, <3>1, <3>2, <3>3, NotAbove
    <3>5. h[p].b <= h[n].b
      BY <1>1, <1>2, <3>1, <3>3, NotAbove
    <3>6. h[n].b = h[p].b
      BY <1>1, <1>2, <3>4, <3>5
    <3>7. n = p
      <4>1. Agree(h[n].ip, h[p].ip, h[n].b)
        BY <3>3, <3>6 DEF Near, Agree
      <4>. QED
        BY <1>2, <3>6, <4>1 DEF Trie, Alone
    <3>8. h[p].b \in v <=> h[p].b \in w
      BY <1>2, <3>1, <3>7 DEF Side
    <3>. QED
      BY <1>19, <3>7, <3>8
  <2>5. ASSUME h[y].b < h[n].b
        PROVE  t \in Side(g, n, v) <=> t \in Near(g, y)
    <3>1. ASSUME t \in Side(g, n, v)
          PROVE  t \in Near(g, y)
      <4>1. h[y].b >= i /\ f \in Near(h, y)
        BY <1>14, <2>2, <2>4, <2>5, <3>1
      <4>2. Agree(w, h[y].ip, h[y].b)
        BY <1>1, <1>5, <2>1, <4>1 DEF Near, Agree, Bits
      <4>. QED
        BY <1>10, <2>1, <4>2
    <3>2. ASSUME t \in Near(g, y)
          PROVE  t \in Side(g, n, v)
      <4>1. Agree(w, h[y].ip, h[y].b) /\ h[y].b >= i
        BY <1>10, <1>13, <2>1, <3>2
      <4>2. f \in Near(h, y)
        BY <1>1, <1>2, <1>5, <2>1, <4>1 DEF Near, Agree, Bits
      <4>3. f \in Side(h, n, v) /\ h[n].b > i
        BY <1>1, <2>1, <2>2, <2>5, <4>1, <4>2
      <4>. QED
        BY <1>15, <4>3
    <3>. QED
      BY <3>1, <3>2
  <2>6. g[y].b = h[y].b /\ g[n].b = h[n].b
    BY <1>3, <2>1
  <2>7. \A m \in DOMAIN h : /\ m \in Side(g, n, v) <=> m \in Side(h, n, v)
                            /\ m \in Near(g, y) <=> m \in Near(h, y)
    BY <1>9, <2>1
  <2>. HIDE DEF y
  <2>8. CASE h[y].b < h[n].b
    <3>1. Side(g, n, v) = Near(g, y)
      BY <2>2, <2>3, <2>5, <2>7, <2>8
    <3>. QED
      BY <2>6, <2>8, <3>1 DEF y
  <2>9. CASE ~ (h[y].b < h[n].b)
    <3>1. Side(g, n, v) = {y}
      BY <2>1, <2>2, <2>3, <2>4, <2>7, <2>9
    <3>. QED
      BY <2>6, <2>9, <3>1 DEF y
  <2>. QED
    BY <2>8, <2>9
<1>20. Linked(g)
  <2>1. ASSUME NEW n \in DOMAIN g, NEW v \in Words
        PROVE  Side(g, n, v) = IF g[Child(g, n, v)].b < g[n].b
                               THEN Near(g, Child(g, n, v)) ELSE {Child(g, n, v)}
    <3>1. CASE n = t /\ (i \in w <=> i \in v)
      <4>1. Child(g, t, v) = t
        BY <3>1 DEF Grown
      <4>2. ~ (g[t].b < g[t].b)
        BY <1>1, <1>3
      <4>. QED
        BY <1>16, <3>1, <4>1, <4>2
    <3>2. CASE n = t /\ ~ (i \in w <=> i \in v)
      <4>1. Child(g, t, v) = x
        BY <3>2 DEF Grown
      <4>. QED
        BY <1>17, <3>2, <4>1
    <3>3. CASE n = p /\ (h[p].b \in v <=> h[p].b \in w)
      <4>1. Child(g, n, v) = t
        BY <1>2, <3>3 DEF Grown
      <4>2. g[t].b < g[n].b
        BY <1>1, <1>2, <1>3, <3>3
      <4>. QED
        BY <1>18, <3>3, <4>1, <4>2
    <3>4. CASE n \in DOMAIN h /\ ~ (n = p /\ (h[p].b \in v <=> h[p].b \in w))
      <4>1. Child(g, n, v) = Child(h, n, v)
        BY <3>4 DEF Grown
      <4>. QED
        BY <1>19, <3>4, <4>1
    <3>. QED
      BY <1>3, <3>1, <3>2, <3>3, <3>4
  <2>. QED
    BY <2>1 DEF Linked
<1>21. Alone(g)
  <2>1. ASSUME NEW n \in DOMAIN h, h[n].b = i, Agree(h[n].ip, w, i)
        PROVE  FALSE
    <3>1. Agree(w, h[n].ip, h[n].b)
      BY <2>1 DEF Agree
    <3>2. t \in Side(g, n, w)
      BY <1>10, <3>1
    <3>3. h[n].b > i
      BY <1>14, <3>2
    <3>. QED
      BY <1>1, <2>1, <3>3
  <2>2. ASSUME NEW m \in DOMAIN g, NEW n \in DOMAIN g,
               g[m].b = g[n].b, Agree(g[m].ip, g[n].ip, g[m].b)
        PROVE  m = n
    <3>1. CASE m \in DOMAIN h /\ n \in DOMAIN h
      BY <1>3, <2>2, <3>1 DEF Trie, Alone
    <3>2. CASE m = t /\ n = t
      BY <3>2
    <3>3. CASE m \in DOMAIN h /\ n = t
      BY <1>3, <2>1, <2>2, <3>3
    <3>4. CASE m = t /\ n \in DOMAIN h
      <4>1. h[n].b = i /\ Agree(w, h[n].ip, i)
        BY <1>3, <2>2, <3>4
      <4>2. Agree(h[n].ip, w, i)
        BY <4>1 DEF Agree
      <4>. QED
        BY <2>1, <3>4, <4>1, <4>2
    <3>. QED
      BY <1>3, <3>1, <3>2, <3>3, <3>4
  <2>. QED
    BY <2>2 DEF Alone
<1>22. Distinct(g)
  <2>1. \A n \in DOMAIN h : h[n].ip # w
    BY <1>4
  <2>. QED
    BY <1>3, <2>1 DEF Trie, Distinct
<1>. QED
  BY <1>20, <1>21, <1>22 DEF Trie

-----------------------------------------------------------------------------
(* The operations on the trie *)

LEMMA InitIsTrie ==
  ASSUME ~ShiftWraps
  PROVE  Trie(nc_init) /\ DOMAIN nc_init = {head}
<1>1. maxb \in Nat \ {0} /\ head = 0 /\ Never \in Int
  BY NegCacheConfig DEF head, Never
<1>2. /\ DOMAIN nc_init = {head} /\ nc_init[head].ip = {} /\ nc_init[head].b = maxb
      /\ nc_init[head].l = head /\ nc_init[head].r = head
  BY DEF nc_init
<1>3. Shaped(nc_init)
  <2>1. [ip |-> {}, seen |-> Never, b |-> maxb, l |-> head, r |-> head] \in Node(0)
    BY <1>1 DEF Node, Words
  <2>2. nc_init \in [0..0 -> Node(0)]
    BY <1>1, <2>1 DEF nc_init
  <2>3. \E N \in Nat : nc_init \in [0..N -> Node(N)]
    BY <2>2
  <2>. QED
    BY <1>2, <2>3 DEF Shaped
<1>4. Linked(nc_init)
  <2>1. ASSUME NEW x \in DOMAIN nc_init, NEW w \in Words
        PROVE  x = head /\ Child(nc_init, x, w) = head /\ Side(nc_init, x, w) = {head}
    <3>1. x = head /\ Child(nc_init, x, w) = head
      BY <1>2 DEF Child
    <3>2. maxb \notin w
      BY <1>1 DEF Words, Bits
    <3>. QED
      BY <1>2, <3>1, <3>2 DEF Side, Near, Agree
  <2>2. ~ (nc_init[head].b < nc_init[head].b)
    BY <1>1, <1>2
  <2>. QED
    BY <2>1, <2>2 DEF Linked
<1>. QED
  BY <1>2, <1>3, <1>4 DEF Trie, Alone, Distinct

\* The time of an entry is no part of the trie.
LEMMA SeenIsTrie ==
  ASSUME NEW h, Trie(h), ~ShiftWraps, NEW j \in DOMAIN h, NEW tm \in Int
  PROVE  /\ Trie([h EXCEPT ![j].seen = tm])
         /\ DOMAIN [h EXCEPT ![j].seen = tm] = DOMAIN h
         /\ \A n \in DOMAIN h :
              /\ [h EXCEPT ![j].seen = tm][n].ip = h[n].ip
              /\ [h EXCEPT ![j].seen = tm][n].seen = IF n = j THEN tm ELSE h[n].seen
<1> DEFINE g == [h EXCEPT ![j].seen = tm]
<1>1. PICK N \in Nat : h \in [0..N -> Node(N)]
  BY DEF Trie, Shaped
<1>2. DOMAIN g = DOMAIN h
  OBVIOUS
<1>3. ASSUME NEW n \in DOMAIN h
      PROVE  /\ g[n].ip = h[n].ip /\ g[n].b = h[n].b /\ g[n].l = h[n].l /\ g[n].r = h[n].r
             /\ g[n].seen = IF n = j THEN tm ELSE h[n].seen
             /\ g[n] \in Node(N)
  <2>1. h[n] \in Node(N)
    BY <1>1
  <2>2. h[n] \in [ip : Words, seen : Int, b : 0..maxb, l : 0..N, r : 0..N]
    BY <2>1 DEF Node
  <2>3. CASE n = j
    <3>1. g[n] = [h[n] EXCEPT !.seen = tm]
      BY <2>3
    <3>2. [h[n] EXCEPT !.seen = tm] \in Node(N)
      BY <2>2 DEF Node
    <3>. QED
      BY <2>2, <2>3, <3>1, <3>2
  <2>4. CASE n # j
    BY <2>1, <2>4
  <2>. QED
    BY <2>3, <2>4
<1>4. g \in [0..N -> Node(N)]
  BY <1>1, <1>3
<1>. HIDE DEF g
<1>5. Shaped(g)
  <2>1. head \in DOMAIN h
    BY NodeFacts DEF Trie
  <2>. QED
    BY <1>2, <1>3, <1>4, <2>1 DEF Trie, Shaped
<1>6. ASSUME NEW x \in DOMAIN h, NEW w \in Words
      PROVE  /\ Near(g, x) = Near(h, x) /\ Side(g, x, w) = Side(h, x, w)
             /\ Child(g, x, w) = Child(h, x, w) /\ Child(h, x, w) \in DOMAIN h
  <2>1. Near(g, x) = Near(h, x) /\ Side(g, x, w) = Side(h, x, w)
    BY <1>2, <1>3 DEF Near, Side
  <2>2. Child(g, x, w) = Child(h, x, w)
    BY <1>3 DEF Child
  <2>. QED
    BY <2>1, <2>2, ChildIs DEF Trie
<1>7. Linked(g)
  <2>1. ASSUME NEW x \in DOMAIN g, NEW w \in Words
        PROVE  Side(g, x, w) = IF g[Child(g, x, w)].b < g[x].b
                               THEN Near(g, Child(g, x, w)) ELSE {Child(g, x, w)}
    BY <1>2, <1>3, <1>6 DEF Trie, Linked
  <2>. QED
    BY <2>1 DEF Linked
<1>8. Alone(g) /\ Distinct(g)
  BY <1>2, <1>3 DEF Trie, Alone, Distinct
<1>. QED
  BY <1>2, <1>3, <1>5, <1>7, <1>8 DEF Trie, g

\* nc_insert and the assignment to seen: w has the new time, all else is as it was.
LEMMA PutIs ==
  ASSUME NEW h, Trie(h), ~ShiftWraps, NEW w \in IPs, NEW tm \in Int
  PROVE  /\ Trie(Put(h, w, tm))
         /\ DOMAIN h \subseteq DOMAIN Put(h, w, tm)
         /\ \A n \in DOMAIN h : Put(h, w, tm)[n].ip = h[n].ip
         /\ \A n \in DOMAIN Put(h, w, tm) :
              IF Put(h, w, tm)[n].ip = w THEN Put(h, w, tm)[n].seen = tm
              ELSE n \in DOMAIN h /\ Put(h, w, tm)[n].seen = h[n].seen
         /\ \E n \in DOMAIN Put(h, w, tm) : Put(h, w, tm)[n].ip = w
<1> DEFINE g == nc_insert(h, w)
           j == Inserted(h, w)
<1>1. w \in Words
  BY NegCacheConfig DEF Words, Bits
<1>2. /\ Trie(g) /\ j \in DOMAIN g /\ g[j].ip = w
      /\ DOMAIN h \subseteq DOMAIN g /\ DOMAIN g \subseteq DOMAIN h \cup {j}
      /\ \A n \in DOMAIN h : g[n].ip = h[n].ip /\ g[n].seen = h[n].seen
  <2>1. CASE h[Found(h, w)].ip = w
    <3>1. g = h /\ j = Found(h, w) /\ Found(h, w) \in DOMAIN h
      BY <1>1, <2>1, FoundIs DEF nc_insert, Inserted
    <3>. QED
      BY <2>1, <3>1
  <2>2. CASE h[Found(h, w)].ip # w
    <3> DEFINE i == Max(Differing(h, w))
    <3>1. g = Attach(h, w, i) /\ j = Cardinality(DOMAIN h)
      BY <2>2 DEF nc_insert, Inserted
    <3>. HIDE DEF g, j
    <3>2. PICK p, x \in DOMAIN h : /\ Descend(h, w, i) = <<p, x>>
                                   /\ Fits(h, w, i, p, x, Found(h, w))
      BY <1>1, <2>2, InsertFits
    <3>. HIDE DEF i
    <3>3. i \in Bits
      BY <3>2 DEF Fits
    <3>4. Shaped(g) /\ Grown(h, g, j, w, i, p, x)
      BY <3>1, <3>2, <3>3, AttachGrows DEF Trie
    <3>5. Trie(g)
      BY <1>1, <3>2, <3>4, GrownIsTrie
    <3>. QED
      BY <3>4, <3>5 DEF Grown
  <2>. QED
    BY <2>1, <2>2
<1>. HIDE DEF g, j
<1>3. Put(h, w, tm) = [g EXCEPT ![j].seen = tm]
  BY DEF Put, g, j
<1> DEFINE e == [g EXCEPT ![j].seen = tm]
<1>4. /\ Trie(e) /\ DOMAIN e = DOMAIN g
      /\ \A n \in DOMAIN g : e[n].ip = g[n].ip /\ e[n].seen = IF n = j THEN tm ELSE g[n].seen
  BY <1>2, SeenIsTrie
<1>. HIDE DEF e
<1>5. \A n \in DOMAIN g : e[n].ip = w => n = j
  BY <1>2, <1>4 DEF Trie, Distinct
<1>6. /\ Trie(e)
      /\ DOMAIN h \subseteq DOMAIN e
      /\ \A n \in DOMAIN h : e[n].ip = h[n].ip
      /\ \A n \in DOMAIN e : IF e[n].ip = w THEN e[n].seen = tm
                             ELSE n \in DOMAIN h /\ e[n].seen = h[n].seen
      /\ \E n \in DOMAIN e : e[n].ip = w
  BY <1>2, <1>4, <1>5
<1>7. Put(h, w, tm) = e
  BY <1>3 DEF e
<1>. QED
  BY <1>6, <1>7

-----------------------------------------------------------------------------
(* Visiting *)

\* s lists the elements of X, each once.
Lists(s, X) == s \in Seq(X) /\ ToSet(s) = X /\ IsInjective(s)

LEMMA ListsNone == Lists(<<>>, {})
BY DEF Lists, ToSet, IsInjective

LEMMA ListsOne ==
  ASSUME NEW x
  PROVE  Lists(<<x>>, {x})
BY DEF Lists, ToSet, IsInjective

LEMMA ListsJoin ==
  ASSUME NEW X, NEW Y, NEW s, NEW u, Lists(s, X), Lists(u, Y), X \cap Y = {}
  PROVE  Lists(s \o u, X \cup Y)
<1> DEFINE Z == X \cup Y
           c == s \o u
<1>1. /\ s \in Seq(X) /\ u \in Seq(Y) /\ s \in Seq(Z) /\ u \in Seq(Z)
      /\ \A a \in X : \E k \in DOMAIN s : a = s[k]
      /\ \A a \in Y : \E k \in DOMAIN u : a = u[k]
      /\ \A a, b \in DOMAIN s : s[a] = s[b] => a = b
      /\ \A a, b \in DOMAIN u : u[a] = u[b] => a = b
  BY DEF Lists, ToSet, IsInjective
<1>2. /\ Len(s) \in Nat /\ Len(u) \in Nat
      /\ DOMAIN s = 1..Len(s) /\ DOMAIN u = 1..Len(u)
      /\ \A k \in 1..Len(s) : s[k] \in X
      /\ \A k \in 1..Len(u) : u[k] \in Y
  BY <1>1, LenProperties, ElementOfSeq
<1>3. /\ c \in Seq(Z) /\ Len(c) = Len(s) + Len(u) /\ DOMAIN c = 1..(Len(s) + Len(u))
      /\ \A k \in 1..(Len(s) + Len(u)) : c[k] = IF k <= Len(s) THEN s[k] ELSE u[k - Len(s)]
  BY <1>1, <1>2, ConcatProperties, LenProperties
<1>. HIDE DEF c
<1>4. ToSet(c) = Z
  <2>1. ASSUME NEW a \in Z
        PROVE  \E k \in DOMAIN c : a = c[k]
    <3>1. CASE a \in X
      <4>1. PICK k \in 1..Len(s) : a = s[k]
        BY <1>1, <1>2, <3>1
      <4>. QED
        BY <1>2, <1>3, <4>1
    <3>2. CASE a \in Y
      <4>1. PICK k \in 1..Len(u) : a = u[k]
        BY <1>1, <1>2, <3>2
      <4>2. /\ k + Len(s) \in 1..(Len(s) + Len(u)) /\ ~ (k + Len(s) <= Len(s))
            /\ (k + Len(s)) - Len(s) = k
        BY <1>2
      <4>. QED
        BY <1>3, <4>1, <4>2
    <3>. QED
      BY <3>1, <3>2
  <2>2. \A k \in DOMAIN c : c[k] \in Z
    BY <1>3, LenProperties, ElementOfSeq
  <2>. QED
    BY <2>1, <2>2 DEF ToSet
<1>5. ASSUME NEW a \in 1..(Len(s) + Len(u)), NEW b \in 1..(Len(s) + Len(u)), c[a] = c[b]
      PROVE  a = b
  <2>1. CASE a <= Len(s) /\ b <= Len(s)
    <3>1. a \in DOMAIN s /\ b \in DOMAIN s
      BY <1>2, <2>1
    <3>2. s[a] = s[b]
      BY <1>2, <1>3, <1>5, <2>1
    <3>. QED
      BY <1>1, <3>1, <3>2
  <2>2. CASE a > Len(s) /\ b > Len(s)
    <3>1. a - Len(s) \in 1..Len(u) /\ b - Len(s) \in 1..Len(u)
      BY <1>2, <2>2
    <3>2. u[a - Len(s)] = u[b - Len(s)]
      BY <1>2, <1>3, <1>5, <2>2
    <3>3. a - Len(s) = b - Len(s)
      BY <1>1, <1>2, <3>1, <3>2
    <3>. QED
      BY <1>2, <3>3
  <2>3. CASE a <= Len(s) /\ b > Len(s)
    <3>1. a \in 1..Len(s) /\ b - Len(s) \in 1..Len(u)
      BY <1>2, <2>3
    <3>2. s[a] = u[b - Len(s)]
      BY <1>2, <1>3, <1>5, <2>3
    <3>. QED
      BY <1>2, <3>1, <3>2
  <2>4. CASE a > Len(s) /\ b <= Len(s)
    <3>1. b \in 1..Len(s) /\ a - Len(s) \in 1..Len(u)
      BY <1>2, <2>4
    <3>2. s[b] = u[a - Len(s)]
      BY <1>2, <1>3, <1>5, <2>4
    <3>. QED
      BY <1>2, <3>1, <3>2
  <2>. QED
    BY <1>2, <2>1, <2>2, <2>3, <2>4
<1>6. IsInjective(c)
  BY <1>3, <1>5 DEF IsInjective
<1>. QED
  BY <1>3, <1>4, <1>6 DEF Lists, c

\* What nc_rebuild frees at x, given what it frees at the nodes below.
Level(h, prev, x) ==
  ((IF h[x].b > h[h[x].l].b THEN prev[h[x].l] ELSE <<>>)
     \o (IF h[x].b > h[h[x].r].b THEN prev[h[x].r] ELSE <<>>))
     \o <<x>>

Levels(h, f, m) ==
  /\ f[0] = [x \in DOMAIN h |-> <<>>]
  /\ \A k \in 1..m : f[k] = [x \in DOMAIN h |-> Level(h, f[k - 1], x)]

\* Visit is what maxb + 1 levels add up to.
LEMMA VisitLevels ==
  ASSUME NEW h
  PROVE  \E f : /\ Levels(h, f, maxb + 1)
                /\ \A n \in DOMAIN h : Visit(h, n) = f[maxb + 1][n]
<1>1. maxb + 1 \in Nat
  BY NegCacheConfig
<1> DEFINE Body(f) == [k \in 0..(maxb + 1) |->
                        [x \in DOMAIN h |->
                          IF k = 0 THEN <<>>
                          ELSE (IF h[x].b > h[h[x].l].b THEN f[k - 1][h[x].l] ELSE <<>>)
                                 \o (IF h[x].b > h[h[x].r].b THEN f[k - 1][h[x].r] ELSE <<>>)
                                 \o <<x>>]]
           S == {m \in Nat : \E f : Levels(h, f, m)}
           below == CHOOSE f : f = Body(f)
<1>2. 0 \in S
  <2> DEFINE f == [k \in {0} |-> [x \in DOMAIN h |-> <<>>]]
  <2>1. f[0] = [x \in DOMAIN h |-> <<>>] /\ 1..0 = {}
    OBVIOUS
  <2>. HIDE DEF f
  <2>. QED
    BY <2>1 DEF Levels
<1>3. ASSUME NEW m \in Nat, m \in S
      PROVE  m + 1 \in S
  <2>1. PICK f : Levels(h, f, m)
    BY <1>3
  <2> DEFINE e == [x \in DOMAIN h |-> Level(h, f[m], x)]
             g == [k \in 0..(m + 1) |-> IF k = m + 1 THEN e ELSE f[k]]
  <2>. HIDE DEF e
  <2>2. g[0] = [x \in DOMAIN h |-> <<>>]
    BY <2>1 DEF Levels
  <2>3. ASSUME NEW k \in 1..(m + 1)
        PROVE  g[k] = [x \in DOMAIN h |-> Level(h, g[k - 1], x)]
    <3>1. g[k - 1] = f[k - 1]
      OBVIOUS
    <3>2. CASE k = m + 1
      <4>1. g[k] = e /\ k - 1 = m
        BY <3>2
      <4>. QED
        BY <3>1, <4>1 DEF e
    <3>3. CASE k # m + 1
      <4>1. g[k] = f[k] /\ k \in 1..m
        BY <3>3
      <4>. QED
        BY <2>1, <3>1, <4>1 DEF Levels
    <3>. QED
      BY <3>2, <3>3
  <2>. HIDE DEF g
  <2>4. m + 1 \in Nat /\ Levels(h, g, m + 1)
    BY <2>2, <2>3 DEF Levels
  <2>. QED
    BY <2>4
<1>4. maxb + 1 \in S
  <2>. HIDE DEF S
  <2>. QED
    BY <1>1, <1>2, <1>3, SetInduction
<1>5. PICK f : Levels(h, f, maxb + 1)
  BY <1>4
<1>6. ASSUME NEW f0, NEW k \in 0..(maxb + 1)
      PROVE  Body(f0)[k] = IF k = 0 THEN [x \in DOMAIN h |-> <<>>]
                           ELSE [x \in DOMAIN h |-> Level(h, f0[k - 1], x)]
  BY DEF Level
<1>7. ASSUME NEW f0
      PROVE  Body(f0) = [k \in 0..(maxb + 1) |-> Body(f0)[k]]
  OBVIOUS
<1>. HIDE DEF Body
<1>8. \E g : g = Body(g)
  <2> DEFINE g == [k \in 0..(maxb + 1) |-> f[k]]
  <2>1. ASSUME NEW k \in 0..(maxb + 1)
        PROVE  g[k] = Body(g)[k]
    <3>1. CASE k = 0
      BY <1>1, <1>5, <1>6, <3>1 DEF Levels
    <3>2. CASE k # 0
      <4>1. k \in 1..(maxb + 1) /\ k - 1 \in 0..(maxb + 1)
        BY <1>1, <3>2
      <4>2. g[k] = f[k] /\ g[k - 1] = f[k - 1]
        BY <4>1
      <4>. HIDE DEF g
      <4>3. g[k] = [x \in DOMAIN h |-> Level(h, g[k - 1], x)]
        BY <1>5, <4>1, <4>2 DEF Levels
      <4>. QED
        BY <1>6, <3>2, <4>3
    <3>. QED
      BY <3>1, <3>2
  <2>2. g = Body(g)
    BY <1>7, <2>1
  <2>. QED
    BY <2>2
<1>9. below = Body(below)
  BY <1>8
<1>10. \A n \in DOMAIN h : Visit(h, n) = below[maxb + 1][n]
  BY DEF Visit, Body
<1>. HIDE DEF below
<1>11. Levels(h, below, maxb + 1)
  <2>0. \A k \in 0..(maxb + 1) : below[k] = Body(below)[k]
    BY ONLY <1>9, Zenon
  <2>1. below[0] = [x \in DOMAIN h |-> <<>>]
    <3>1. 0 \in 0..(maxb + 1)
      BY <1>1
    <3>2. Body(below)[0] = [x \in DOMAIN h |-> <<>>]
      BY <1>6, <3>1
    <3>. QED
      BY <2>0, <3>1, <3>2
  <2>2. ASSUME NEW k \in 1..(maxb + 1)
        PROVE  below[k] = [x \in DOMAIN h |-> Level(h, below[k - 1], x)]
    <3>1. k \in 0..(maxb + 1) /\ k # 0
      BY <1>1
    <3>2. Body(below)[k] = [x \in DOMAIN h |-> Level(h, below[k - 1], x)]
      BY <1>6, <3>1
    <3>. QED
      BY <2>0, <3>1, <3>2
  <2>. QED
    BY <2>1, <2>2 DEF Levels
<1>. QED
  BY <1>10, <1>11

\* The nodes from x down.
Under(h, x) == {n \in Near(h, x) \ {head} : h[n].b <= h[x].b}

\* Of the keys on one side of x, the nodes below x are the ones from the link
\* down; there is none if it leads up.
LEMMA UnderSide ==
  ASSUME NEW h, Trie(h), ~ShiftWraps, NEW x \in DOMAIN h, NEW w \in Words
  PROVE  {n \in Side(h, x, w) \ {head, x} : h[n].b <= h[x].b}
           = IF h[x].b > h[Child(h, x, w)].b THEN Under(h, Child(h, x, w)) ELSE {}
<1> DEFINE y == Child(h, x, w)
           U == {n \in Side(h, x, w) \ {head, x} : h[n].b <= h[x].b}
<1>1. /\ maxb \in Nat \ {0} /\ y \in DOMAIN h
      /\ \A n \in DOMAIN h : h[n].b \in 0..maxb /\ (n # head => h[n].b \in Bits)
  BY NegCacheConfig, NodeFacts, ChildIs DEF Trie
<1>2. Side(h, x, w) = IF h[y].b < h[x].b THEN Near(h, y) ELSE {y}
  BY DEF Trie, Linked
<1>3. ASSUME NEW n \in U
      PROVE  n \in DOMAIN h /\ h[n].b < h[x].b
  <2>1. n \in DOMAIN h /\ Agree(h[n].ip, h[x].ip, h[x].b) /\ n # x /\ h[n].b <= h[x].b
    BY DEF Side, Near
  <2>2. ASSUME h[n].b = h[x].b
        PROVE  FALSE
    BY <2>1, <2>2 DEF Trie, Alone
  <2>. QED
    BY <1>1, <2>1, <2>2
<1>4. CASE h[x].b > h[y].b
  <2>1. ASSUME NEW n \in U
        PROVE  n \in Under(h, y)
    <3>1. n \in Side(h, x, w) /\ n \in DOMAIN h /\ h[n].b < h[x].b /\ n # head
      BY <1>3
    <3>2. ASSUME h[n].b > h[y].b
          PROVE  FALSE
      <4>1. h[n].b \in Bits /\ n \in Near(h, n) /\ h[n].b >= h[n].b
        BY <1>1, <3>1 DEF Near, Agree
      <4>2. h[Child(h, x, w)].b < h[n].b
        BY <1>1, <3>1, <3>2
      <4>3. h[x].b <= h[n].b
        BY <3>1, <4>1, <4>2, NotAbove
      <4>. QED
        BY <1>1, <3>1, <4>3
    <3>3. h[n].b <= h[y].b
      BY <1>1, <3>1, <3>2
    <3>4. n \in Near(h, y)
      BY <1>1, <1>2, <1>4, <3>1
    <3>. QED
      BY <3>1, <3>3, <3>4 DEF Under
  <2>2. ASSUME NEW n \in Under(h, y)
        PROVE  n \in U
    <3>1. n \in Near(h, y) /\ n # head /\ h[n].b <= h[y].b /\ n \in DOMAIN h
      BY DEF Under, Near
    <3>2. n \in Side(h, x, w)
      BY <1>1, <1>2, <1>4, <3>1
    <3>3. h[n].b <= h[x].b /\ n # x
      BY <1>1, <1>4, <3>1
    <3>. QED
      BY <3>1, <3>2, <3>3
  <2>. HIDE DEF U
  <2>3. U = Under(h, y)
    BY <2>1, <2>2
  <2>. QED
    BY <1>4, <2>3 DEF U
<1>5. CASE ~ (h[x].b > h[y].b)
  <2>1. ASSUME NEW n \in U
        PROVE  FALSE
    <3>1. n \in Side(h, x, w)
      OBVIOUS
    <3>2. n = y
      BY <1>1, <1>2, <1>5, <3>1
    <3>3. h[y].b < h[x].b
      BY <1>3, <3>2
    <3>. QED
      BY <1>1, <1>5, <3>3
  <2>. HIDE DEF U
  <2>2. U = {}
    BY <2>1
  <2>. QED
    BY <1>5, <2>2 DEF U
<1>. QED
  BY <1>4, <1>5

\* So the nodes from x down are x and the ones below it on its two sides.
LEMMA UnderSplits ==
  ASSUME NEW h, Trie(h), ~ShiftWraps, NEW x \in DOMAIN h \ {head}
  PROVE  LET A == IF h[x].b > h[h[x].l].b THEN Under(h, h[x].l) ELSE {}
             C == IF h[x].b > h[h[x].r].b THEN Under(h, h[x].r) ELSE {}
         IN  /\ Under(h, x) = (A \cup C) \cup {x}
             /\ A \cap C = {} /\ (A \cup C) \cap {x} = {}
             /\ h[x].r \notin A
<1>1. /\ maxb \in Nat \ {0} /\ h[x].b \in Bits
      /\ \A n \in DOMAIN h : h[n].b \in 0..maxb
  BY NegCacheConfig, NodeFacts DEF Trie
<1> DEFINE zero == {}
           one == {h[x].b}
<1>2. zero \in Words /\ one \in Words /\ h[x].b \notin zero /\ h[x].b \in one
  BY <1>1 DEF Words
<1>. HIDE DEF zero, one
<1>3. Child(h, x, zero) = h[x].l /\ Child(h, x, one) = h[x].r
  BY <1>2, ChildIs DEF Trie
<1> DEFINE A == IF h[x].b > h[h[x].l].b THEN Under(h, h[x].l) ELSE {}
           C == IF h[x].b > h[h[x].r].b THEN Under(h, h[x].r) ELSE {}
           P == {n \in Side(h, x, zero) \ {head, x} : h[n].b <= h[x].b}
           Q == {n \in Side(h, x, one) \ {head, x} : h[n].b <= h[x].b}
<1>4. P = A /\ Q = C
  <2>1. P = A
    BY <1>2, <1>3, UnderSide
  <2>2. Q = C
    BY <1>2, <1>3, UnderSide
  <2>. QED
    BY <2>1, <2>2
<1>5. \A n \in Near(h, x) : /\ n \in Side(h, x, zero) <=> h[x].b \notin h[n].ip
                            /\ n \in Side(h, x, one) <=> h[x].b \in h[n].ip
  BY <1>2 DEF Side
<1>6. Side(h, x, zero) \subseteq Near(h, x) /\ Side(h, x, one) \subseteq Near(h, x)
  BY DEF Side
<1>7. x \in Under(h, x)
  BY <1>1 DEF Under, Near, Agree, Bits
<1>8. Under(h, x) = (P \cup Q) \cup {x}
  BY <1>5, <1>6, <1>7 DEF Under
<1>9. P \cap Q = {} /\ (P \cup Q) \cap {x} = {}
  BY <1>5, <1>6
<1>10. h[x].r \notin P
  <2>1. h[x].r \in Side(h, x, one)
    BY <1>2, <1>3, BothSides
  <2>. QED
    BY <1>5, <1>6, <2>1
<1>. HIDE DEF P, Q
<1>. QED
  BY <1>4, <1>8, <1>9, <1>10

LEMMA VisitIs ==
  ASSUME NEW h, Trie(h), ~ShiftWraps, NEW n \in DOMAIN h \ {head}
  PROVE  Lists(Visit(h, n), Under(h, n))
<1>0. \A x \in DOMAIN h : h[x].l \in DOMAIN h /\ h[x].r \in DOMAIN h
  BY NodeFacts DEF Trie
<1>1. /\ maxb \in Nat \ {0} /\ \A x \in DOMAIN h : h[x].b \in 0..maxb
      /\ h[head].b = maxb /\ h[n].b \in Bits
  BY NegCacheConfig, NodeFacts DEF Trie
<1>2. PICK f : Levels(h, f, maxb + 1) /\ \A x \in DOMAIN h : Visit(h, x) = f[maxb + 1][x]
  BY VisitLevels
<1> DEFINE Good(k) == \A x \in DOMAIN h \ {head} : h[x].b < k => Lists(f[k][x], Under(h, x))
           S == {k \in Nat : k <= maxb + 1 => Good(k)}
<1>3. 0 \in S
  <2>1. \A x \in DOMAIN h : ~ (h[x].b < 0)
    BY <1>1
  <2>. QED
    BY <2>1
<1>4. ASSUME NEW k \in Nat, k \in S
      PROVE  k + 1 \in S
  <2>1. SUFFICES ASSUME k + 1 <= maxb + 1
                 PROVE  Good(k + 1)
    <3>. HIDE DEF Good
    <3>. QED
      OBVIOUS
  <2>2. Good(k)
    <3>1. k <= maxb + 1
      BY <1>1, <2>1
    <3>. HIDE DEF Good
    <3>. QED
      BY <1>4, <3>1
  <2>3. f[k + 1] = [x \in DOMAIN h |-> Level(h, f[k], x)]
    <3>1. k + 1 \in 1..(maxb + 1) /\ (k + 1) - 1 = k
      BY <1>1, <2>1
    <3>. QED
      BY <1>2, <3>1 DEF Levels
  <2>4. ASSUME NEW x \in DOMAIN h \ {head}, h[x].b < k + 1
        PROVE  Lists(f[k + 1][x], Under(h, x))
    <3> DEFINE A == IF h[x].b > h[h[x].l].b THEN Under(h, h[x].l) ELSE {}
               C == IF h[x].b > h[h[x].r].b THEN Under(h, h[x].r) ELSE {}
               a == IF h[x].b > h[h[x].l].b THEN f[k][h[x].l] ELSE <<>>
               c == IF h[x].b > h[h[x].r].b THEN f[k][h[x].r] ELSE <<>>
    <3>1. ASSUME NEW y \in DOMAIN h, h[x].b > h[y].b
          PROVE  Lists(f[k][y], Under(h, y))
      <4>0. h[x].b \in 0..maxb /\ h[y].b \in 0..maxb
        BY <1>1
      <4>1. y # head /\ h[y].b < k
        BY <1>1, <2>4, <3>1, <4>0
      <4>. QED
        BY <2>2, <4>1
    <3>2. Lists(a, A) /\ Lists(c, C)
      BY <1>0, <3>1, ListsNone
    <3>3. /\ Under(h, x) = (A \cup C) \cup {x}
          /\ A \cap C = {} /\ (A \cup C) \cap {x} = {}
      BY UnderSplits
    <3>4. f[k + 1][x] = (a \o c) \o <<x>>
      BY <2>3 DEF Level
    <3>. HIDE DEF A, C, a, c
    <3>5. Lists(a \o c, A \cup C)
      BY <3>2, <3>3, ListsJoin
    <3>6. Lists((a \o c) \o <<x>>, (A \cup C) \cup {x})
      BY <3>3, <3>5, ListsOne, ListsJoin
    <3>. QED
      BY <3>3, <3>4, <3>6
  <2>. QED
    BY <2>4
<1>5. maxb + 1 \in S
  <2>1. maxb + 1 \in Nat
    BY <1>1
  <2>. HIDE DEF S
  <2>. QED
    BY <1>3, <1>4, <2>1, SetInduction
<1>6. Good(maxb + 1)
  <2>1. maxb + 1 <= maxb + 1
    BY <1>1
  <2>. HIDE DEF Good
  <2>. QED
    BY <1>5, <2>1
<1>7. h[n].b < maxb + 1
  BY <1>1 DEF Bits
<1>. QED
  BY <1>2, <1>6, <1>7

\* nc_rebuild frees every node but the head, once.
LEMMA FreedIs ==
  ASSUME NEW h, Trie(h), ~ShiftWraps
  PROVE  Lists(Freed(h), DOMAIN h \ {head})
<1>1. /\ maxb \in Nat \ {0} /\ head \in DOMAIN h /\ h[head].b = maxb
      /\ \A x \in DOMAIN h : h[x].b \in 0..maxb /\ h[x].ip \in SUBSET Bits
      /\ \A x \in DOMAIN h \ {head} : h[x].b \in 0..(maxb - 1)
      /\ h[head].l \in DOMAIN h
  BY NegCacheConfig, NodeFacts DEF Trie, Words, Bits
<1>2. maxb \notin Bits
  BY <1>1 DEF Bits
<1> DEFINE zero == {}
<1>3. zero \in Words /\ maxb \notin zero
  BY DEF Words
<1>. HIDE DEF zero
<1>4. Child(h, head, zero) = h[head].l
  BY <1>1, <1>3, ChildIs DEF Trie
<1>5. Side(h, head, zero) = DOMAIN h
  <2>1. \A x \in DOMAIN h : Agree(h[x].ip, h[head].ip, maxb)
    BY <1>1 DEF Agree, Bits
  <2>2. \A x \in DOMAIN h : maxb \notin h[x].ip
    BY <1>1, <1>2
  <2>. QED
    BY <1>1, <1>3, <2>1, <2>2 DEF Side, Near
<1>6. DOMAIN h \ {head} = IF maxb > h[h[head].l].b THEN Under(h, h[head].l) ELSE {}
  <2>1. {n \in Side(h, head, zero) \ {head, head} : h[n].b <= h[head].b}
           = IF h[head].b > h[h[head].l].b THEN Under(h, h[head].l) ELSE {}
    BY <1>1, <1>3, <1>4, UnderSide
  <2>2. {n \in Side(h, head, zero) \ {head, head} : h[n].b <= h[head].b} = DOMAIN h \ {head}
    BY <1>1, <1>5
  <2>. QED
    BY <1>1, <2>1, <2>2
<1>7. CASE h[head].l = head
  <2>1. DOMAIN h \ {head} = {}
    BY <1>1, <1>6, <1>7
  <2>2. Freed(h) = <<>>
    BY <1>7 DEF Freed
  <2>. QED
    BY <2>1, <2>2, ListsNone
<1>8. CASE h[head].l # head
  <2>1. maxb > h[h[head].l].b
    BY <1>1, <1>8
  <2>2. Freed(h) = Visit(h, h[head].l)
    BY <1>8 DEF Freed
  <2>3. Lists(Visit(h, h[head].l), Under(h, h[head].l))
    BY <1>1, <1>8, VisitIs
  <2>. QED
    BY <1>6, <2>1, <2>2, <2>3
<1>. QED
  BY <1>7, <1>8

-----------------------------------------------------------------------------
(* Rebuilding *)

\* The trie after the k-th node of s, given the one before it.
Kept(h, n) == now - h[n].seen < negcache
Rebuilt(h, s, k, prev) ==
  IF Kept(h, s[k]) THEN Put(prev, h[s[k]].ip, h[s[k]].seen) ELSE prev

Rebuilding(h, s, f, m) ==
  f[0] = nc_init /\ \A k \in 1..m : f[k] = Rebuilt(h, s, k, f[k - 1])

\* nc_rebuild is what the insertions, one for each node freed, lead to.
LEMMA RebuildSteps ==
  ASSUME NEW h, Len(Freed(h)) \in Nat
  PROVE  \E f : /\ Rebuilding(h, Freed(h), f, Len(Freed(h)))
                /\ nc_rebuild(h) = f[Len(Freed(h))]
<1> DEFINE s == Freed(h)
           M == Len(s)
           Body(f) == [k \in 0..M |->
                         IF k = 0 THEN nc_init
                         ELSE IF now - h[s[k]].seen < negcache
                              THEN Put(f[k - 1], h[s[k]].ip, h[s[k]].seen)
                              ELSE f[k - 1]]
           S == {m \in Nat : \E f : Rebuilding(h, s, f, m)}
           new == CHOOSE f : f = Body(f)
<1>1. nc_rebuild(h) = new[M]
  BY DEF nc_rebuild
<1>2. M \in Nat
  OBVIOUS
<1>. HIDE DEF s, M
<1>3. 0 \in S
  <2> DEFINE f == [k \in {0} |-> nc_init]
  <2>1. f[0] = nc_init /\ 1..0 = {}
    OBVIOUS
  <2>. HIDE DEF f
  <2>. QED
    BY <2>1 DEF Rebuilding
<1>4. ASSUME NEW m \in Nat, m \in S
      PROVE  m + 1 \in S
  <2>1. PICK f : Rebuilding(h, s, f, m)
    BY <1>4
  <2> DEFINE e == Rebuilt(h, s, m + 1, f[m])
             g == [k \in 0..(m + 1) |-> IF k = m + 1 THEN e ELSE f[k]]
  <2>. HIDE DEF e
  <2>2. g[0] = nc_init
    BY <2>1 DEF Rebuilding
  <2>3. ASSUME NEW k \in 1..(m + 1)
        PROVE  g[k] = Rebuilt(h, s, k, g[k - 1])
    <3>1. g[k - 1] = f[k - 1]
      OBVIOUS
    <3>2. CASE k = m + 1
      <4>1. g[k] = e /\ k - 1 = m
        BY <3>2
      <4>. QED
        BY <3>1, <3>2, <4>1 DEF e
    <3>3. CASE k # m + 1
      <4>1. g[k] = f[k] /\ k \in 1..m
        BY <3>3
      <4>. QED
        BY <2>1, <3>1, <4>1 DEF Rebuilding
    <3>. QED
      BY <3>2, <3>3
  <2>. HIDE DEF g
  <2>4. m + 1 \in Nat /\ Rebuilding(h, s, g, m + 1)
    BY <2>2, <2>3 DEF Rebuilding
  <2>. QED
    BY <2>4
<1>5. M \in S
  <2>. HIDE DEF S
  <2>. QED
    BY <1>2, <1>3, <1>4, SetInduction
<1>6. PICK f : Rebuilding(h, s, f, M)
  BY <1>5
<1>7. ASSUME NEW f0, NEW k \in 0..M
      PROVE  Body(f0)[k] = IF k = 0 THEN nc_init ELSE Rebuilt(h, s, k, f0[k - 1])
  BY DEF Rebuilt, Kept
<1>8. ASSUME NEW f0
      PROVE  Body(f0) = [k \in 0..M |-> Body(f0)[k]]
  OBVIOUS
<1>. HIDE DEF Body
<1>9. \E g : g = Body(g)
  <2> DEFINE g == [k \in 0..M |-> f[k]]
  <2>1. ASSUME NEW k \in 0..M
        PROVE  g[k] = Body(g)[k]
    <3>1. CASE k = 0
      BY <1>2, <1>6, <1>7, <3>1 DEF Rebuilding
    <3>2. CASE k # 0
      <4>1. k \in 1..M /\ k - 1 \in 0..M
        BY <1>2, <3>2
      <4>2. g[k] = f[k] /\ g[k - 1] = f[k - 1]
        BY <4>1
      <4>. HIDE DEF g
      <4>3. g[k] = Rebuilt(h, s, k, g[k - 1])
        BY <1>6, <4>1, <4>2 DEF Rebuilding
      <4>. QED
        BY <1>7, <3>2, <4>3
    <3>. QED
      BY <3>1, <3>2
  <2>2. g = Body(g)
    BY <1>8, <2>1
  <2>. QED
    BY <2>2
<1>10. new = Body(new)
  BY <1>9
<1>. HIDE DEF new
<1>11. Rebuilding(h, s, new, M)
  <2>0. \A k \in 0..M : new[k] = Body(new)[k]
    BY ONLY <1>10, Zenon
  <2>1. new[0] = nc_init
    BY <1>2, <1>7, <2>0
  <2>2. ASSUME NEW k \in 1..M
        PROVE  new[k] = Rebuilt(h, s, k, new[k - 1])
    <3>1. k \in 0..M /\ k # 0
      BY <1>2
    <3>2. Body(new)[k] = Rebuilt(h, s, k, new[k - 1])
      BY <1>7, <3>1
    <3>. QED
      BY <2>0, <3>1, <3>2
  <2>. QED
    BY <2>1, <2>2 DEF Rebuilding
<1>. QED
  BY <1>1, <1>11 DEF s, M

\* The time of every entry of h is the one in la, when it was last inserted.
Timed(h, la) == \A n \in DOMAIN h \ {head} : la[h[n].ip] # Never /\ h[n].seen = la[h[n].ip]

LEMMA RebuildIs ==
  ASSUME NEW h, Trie(h), ~ShiftWraps, NEW la, Timed(h, la)
  PROVE  /\ Trie(nc_rebuild(h)) /\ Timed(nc_rebuild(h), la)
         /\ \A n \in DOMAIN h \ {head} : Kept(h, n) =>
              \E m \in DOMAIN nc_rebuild(h) : nc_rebuild(h)[m].ip = h[n].ip
<1> DEFINE s == Freed(h)
           M == Len(s)
<1>1. /\ s \in Seq(DOMAIN h \ {head})
      /\ \A n \in DOMAIN h \ {head} : \E k \in DOMAIN s : n = s[k]
  BY FreedIs DEF Lists, ToSet
<1>2. M \in Nat /\ DOMAIN s = 1..M /\ \A k \in 1..M : s[k] \in DOMAIN h \ {head}
  BY <1>1, LenProperties, ElementOfSeq
<1>3. PICK f : Rebuilding(h, s, f, M) /\ nc_rebuild(h) = f[M]
  BY <1>2, RebuildSteps
<1>. HIDE DEF s, M
<1> DEFINE Good(k) == /\ Trie(f[k]) /\ Timed(f[k], la)
                      /\ \A j \in 1..k : Kept(h, s[j]) =>
                           \E m \in DOMAIN f[k] : f[k][m].ip = h[s[j]].ip
           S == {k \in Nat : k <= M => Good(k)}
<1>4. 0 \in S
  <2>1. f[0] = nc_init /\ 1..0 = {}
    BY <1>3 DEF Rebuilding
  <2>2. Good(0)
    BY <2>1, InitIsTrie DEF Timed
  <2>. HIDE DEF Good
  <2>. QED
    BY <2>2
<1>5. ASSUME NEW k \in Nat, k \in S
      PROVE  k + 1 \in S
  <2>1. SUFFICES ASSUME k + 1 <= M
                 PROVE  Good(k + 1)
    <3>. HIDE DEF Good
    <3>. QED
      OBVIOUS
  <2>2. Good(k)
    <3>1. k <= M
      BY <1>2, <2>1
    <3>. HIDE DEF Good
    <3>. QED
      BY <1>5, <3>1
  <2>3. k + 1 \in 1..M /\ (k + 1) - 1 = k
    BY <1>2, <2>1
  <2>4. f[k + 1] = Rebuilt(h, s, k + 1, f[k])
    BY <1>3, <2>3 DEF Rebuilding
  <2>5. s[k + 1] \in DOMAIN h \ {head}
    BY <1>2, <2>3
  <2>6. CASE ~ Kept(h, s[k + 1])
    <3>1. f[k + 1] = f[k]
      BY <2>4, <2>6 DEF Rebuilt
    <3>2. ASSUME NEW j \in 1..(k + 1), Kept(h, s[j])
          PROVE  \E m \in DOMAIN f[k + 1] : f[k + 1][m].ip = h[s[j]].ip
      <4>1. j # k + 1
        BY <2>6, <3>2
      <4>2. j \in 1..k
        BY <4>1
      <4>. QED
        BY <2>2, <3>1, <3>2, <4>2
    <3>. QED
      BY <2>2, <3>1, <3>2
  <2>7. CASE Kept(h, s[k + 1])
    <3> DEFINE w == h[s[k + 1]].ip
               tm == h[s[k + 1]].seen
               g == Put(f[k], w, tm)
    <3>1. f[k + 1] = g
      BY <2>4, <2>7 DEF Rebuilt
    <3>2. w \in IPs /\ tm \in Int /\ tm = la[w] /\ la[w] # Never
      BY <2>5, NodeFacts DEF Trie, Timed
    <3>. HIDE DEF w, tm
    <3>3. /\ Trie(g)
          /\ DOMAIN f[k] \subseteq DOMAIN g
          /\ \A n \in DOMAIN f[k] : g[n].ip = f[k][n].ip
          /\ \A n \in DOMAIN g : IF g[n].ip = w THEN g[n].seen = tm
                                 ELSE n \in DOMAIN f[k] /\ g[n].seen = f[k][n].seen
          /\ \E n \in DOMAIN g : g[n].ip = w
      BY <2>2, <3>2, PutIs
    <3>. HIDE DEF g
    <3>4. Timed(g, la)
      BY <2>2, <3>2, <3>3 DEF Timed
    <3>5. ASSUME NEW j \in 1..(k + 1), Kept(h, s[j])
          PROVE  \E m \in DOMAIN g : g[m].ip = h[s[j]].ip
      <4>1. CASE j = k + 1
        BY <3>3, <4>1 DEF w
      <4>2. CASE j # k + 1
        <5>1. j \in 1..k
          BY <4>2
        <5>2. PICK m \in DOMAIN f[k] : f[k][m].ip = h[s[j]].ip
          BY <2>2, <3>5, <5>1
        <5>. QED
          BY <3>3, <5>2
      <4>. QED
        BY <4>1, <4>2
    <3>. QED
      BY <3>1, <3>3, <3>4, <3>5
  <2>. QED
    BY <2>6, <2>7
<1>6. M \in S
  <2>. HIDE DEF S
  <2>. QED
    BY <1>2, <1>4, <1>5, SetInduction
<1>7. Good(M)
  <2>. HIDE DEF Good
  <2>. QED
    BY <1>2, <1>6
<1>8. ASSUME NEW n \in DOMAIN h \ {head}, Kept(h, n)
      PROVE  \E m \in DOMAIN f[M] : f[M][m].ip = h[n].ip
  <2>1. PICK k \in 1..M : n = s[k]
    BY <1>1, <1>2
  <2>. QED
    BY <1>7, <1>8, <2>1
<1>. QED
  BY <1>3, <1>7, <1>8

-----------------------------------------------------------------------------
(* The specification *)

TypeOK == now \in Nat /\ now # Never /\ last \in [IPs -> Nat]

\* An address that a rebuild would keep has an entry.
Entered ==
  \A ip \in IPs : last[ip] # Never /\ now - last[ip] < negcache =>
    \E n \in DOMAIN heap : heap[n].ip = ip

NegCacheInv == TypeOK /\ Trie(heap) /\ Timed(heap, last) /\ Entered

LEMMA NegCacheInitInv ==
  ASSUME ~ShiftWraps, Init
  PROVE  NegCacheInv
<1>1. negcache \in Nat \ {0}
  BY NegCacheConfig
<1>2. TypeOK
  BY <1>1 DEF Init, TypeOK, Never
<1>3. Trie(heap) /\ Timed(heap, last)
  BY InitIsTrie DEF Init, Timed
<1>4. Entered
  BY DEF Init, Entered
<1>. QED
  BY <1>2, <1>3, <1>4 DEF NegCacheInv

LEMMA NegCacheNextInv ==
  ASSUME ~ShiftWraps, NegCacheInv, [Next]_vars
  PROVE  NegCacheInv'
<1>1. /\ negcache \in Nat \ {0} /\ now \in Nat /\ now # Never /\ last \in [IPs -> Nat]
      /\ Trie(heap) /\ Timed(heap, last)
  BY NegCacheConfig DEF NegCacheInv, TypeOK
<1>2. ASSUME NEW ip \in IPs, negcache_insert(ip)
      PROVE  NegCacheInv'
  <2>1. heap' = Put(heap, ip, now) /\ last' = [last EXCEPT ![ip] = now] /\ now' = now
    BY <1>2 DEF negcache_insert
  <2>2. TypeOK'
    BY <1>1, <2>1 DEF TypeOK
  <2>3. /\ Trie(heap')
        /\ DOMAIN heap \subseteq DOMAIN heap'
        /\ \A n \in DOMAIN heap : heap'[n].ip = heap[n].ip
        /\ \A n \in DOMAIN heap' : IF heap'[n].ip = ip THEN heap'[n].seen = now
                                   ELSE n \in DOMAIN heap /\ heap'[n].seen = heap[n].seen
        /\ \E n \in DOMAIN heap' : heap'[n].ip = ip
    BY <1>1, <2>1, PutIs
  <2>4. Timed(heap', last')
    <3>1. ASSUME NEW n \in DOMAIN heap' \ {head}
          PROVE  last'[heap'[n].ip] # Never /\ heap'[n].seen = last'[heap'[n].ip]
      <4>1. heap'[n].ip \in IPs
        BY <2>3, NodeFacts DEF Trie
      <4>2. CASE heap'[n].ip = ip
        BY <1>1, <2>1, <2>3, <4>1, <4>2
      <4>3. CASE heap'[n].ip # ip
        <5>1. n \in DOMAIN heap \ {head} /\ heap'[n].seen = heap[n].seen /\ heap'[n].ip = heap[n].ip
          BY <2>3, <4>3
        <5>2. last'[heap'[n].ip] = last[heap'[n].ip]
          BY <1>1, <2>1, <4>1, <4>3
        <5>. QED
          BY <1>1, <5>1, <5>2 DEF Timed
      <4>. QED
        BY <4>2, <4>3
    <3>. QED
      BY <3>1 DEF Timed
  <2>5. Entered'
    <3>1. ASSUME NEW jp \in IPs, last'[jp] # Never, now' - last'[jp] < negcache
          PROVE  \E n \in DOMAIN heap' : heap'[n].ip = jp
      <4>1. CASE jp = ip
        BY <2>3, <4>1
      <4>2. CASE jp # ip
        <5>1. last'[jp] = last[jp]
          BY <1>1, <2>1, <4>2
        <5>2. PICK n \in DOMAIN heap : heap[n].ip = jp
          BY <2>1, <3>1, <5>1 DEF NegCacheInv, Entered
        <5>. QED
          BY <2>3, <5>2
      <4>. QED
        BY <4>1, <4>2
    <3>. QED
      BY <3>1 DEF Entered
  <2>. QED
    BY <2>2, <2>3, <2>4, <2>5 DEF NegCacheInv
<1>3. ASSUME negcache_rebuild
      PROVE  NegCacheInv'
  <2>1. heap' = nc_rebuild(heap) /\ last' = last /\ now' = now
    BY <1>3 DEF negcache_rebuild
  <2>2. /\ Trie(heap') /\ Timed(heap', last)
        /\ \A n \in DOMAIN heap \ {head} : Kept(heap, n) =>
             \E m \in DOMAIN heap' : heap'[m].ip = heap[n].ip
    BY <1>1, <2>1, RebuildIs
  <2>3. Entered'
    <3>1. ASSUME NEW ip \in IPs, last[ip] # Never, now - last[ip] < negcache
          PROVE  \E m \in DOMAIN heap' : heap'[m].ip = ip
      <4>1. PICK n \in DOMAIN heap : heap[n].ip = ip
        BY <3>1 DEF NegCacheInv, Entered
      <4>2. n # head
        BY <1>1, <4>1, NodeFacts, NegCacheConfig DEF Trie
      <4>3. Kept(heap, n)
        BY <1>1, <3>1, <4>1, <4>2 DEF Timed, Kept
      <4>. QED
        BY <2>2, <4>1, <4>2, <4>3
    <3>. QED
      BY <2>1, <3>1 DEF Entered
  <2>4. TypeOK'
    BY <1>1, <2>1 DEF TypeOK
  <2>. QED
    BY <2>1, <2>2, <2>3, <2>4 DEF NegCacheInv
<1>4. ASSUME Tick
      PROVE  NegCacheInv'
  <2>1. heap' = heap /\ last' = last /\ now' = now + 1
    BY <1>4 DEF Tick
  <2>2. TypeOK'
    BY <1>1, <2>1 DEF TypeOK, Never
  <2>3. Entered'
    <3>1. ASSUME NEW ip \in IPs, last[ip] # Never, (now + 1) - last[ip] < negcache
          PROVE  \E m \in DOMAIN heap : heap[m].ip = ip
      <4>1. last[ip] \in Nat
        BY <1>1
      <4>2. now - last[ip] < negcache
        BY <1>1, <3>1, <4>1
      <4>. QED
        BY <3>1, <4>2 DEF NegCacheInv, Entered
    <3>2. ASSUME NEW ip \in IPs, last'[ip] # Never, now' - last'[ip] < negcache
          PROVE  \E m \in DOMAIN heap' : heap'[m].ip = ip
      <4>1. last[ip] # Never /\ (now + 1) - last[ip] < negcache
        BY <2>1, <3>2
      <4>. QED
        BY <2>1, <3>1, <4>1
    <3>. QED
      BY <3>2 DEF Entered
  <2>. QED
    BY <1>1, <2>1, <2>2, <2>3 DEF NegCacheInv
<1>5. CASE UNCHANGED vars
  <2>1. heap' = heap /\ last' = last /\ now' = now
    BY <1>5 DEF vars
  <2>. QED
    BY <2>1 DEF NegCacheInv, TypeOK, Entered
<1>. QED
  BY <1>2, <1>3, <1>4, <1>5 DEF Next

\* At every moment the heap is a trie: each link leads where the keys say.  The
\* entries are the addresses inserted recently, with the times of insertion.
THEOREM TrieAlways ==
  ASSUME ~ShiftWraps
  PROVE  Spec => []NegCacheInv
<1>1. Init => NegCacheInv
  BY NegCacheInitInv
<1>2. NegCacheInv /\ [Next]_vars => NegCacheInv'
  BY NegCacheNextInv
<1>. QED
  BY <1>1, <1>2, PTL DEF Spec

\* check_neg_cache finds every address that negcache_insert was given less than
\* negcache seconds ago, whatever was inserted and rebuilt in the meantime.
THEOREM SeenIsCachedHolds ==
  ASSUME ~ShiftWraps
  PROVE  Spec => []SeenIsCached
<1>1. NegCacheInv => SeenIsCached
  <2>1. SUFFICES ASSUME NegCacheInv, NEW ip \in IPs, last[ip] # Never,
                        now - last[ip] < negcache
                 PROVE  check_neg_cache(ip)
    BY DEF SeenIsCached
  <2>2. ip \in Words /\ Trie(heap) /\ now \in Nat /\ last[ip] \in Nat /\ negcache \in Nat
    BY <2>1, NegCacheConfig DEF NegCacheInv, TypeOK, Words, Bits
  <2>3. PICK n \in DOMAIN heap : heap[n].ip = ip
    BY <2>1 DEF NegCacheInv, Entered
  <2>4. Found(heap, ip) = n
    BY <2>2, <2>3, FoundIs
  <2>5. n # head
    BY <2>2, <2>3, NodeFacts, NegCacheConfig DEF Trie
  <2>6. heap[n].seen = last[ip]
    BY <2>1, <2>3, <2>5 DEF NegCacheInv, Timed
  <2>7. now - heap[n].seen <= negcache
    BY <2>1, <2>2, <2>6
  <2>. QED
    BY <2>3, <2>4, <2>7 DEF check_neg_cache, nc_search
<1>. QED
  BY <1>1, TrieAlways, PTL

\* check_neg_cache finds no address but the ones negcache_insert was given at
\* most negcache seconds ago.
THEOREM CachedWasSeenHolds ==
  ASSUME ~ShiftWraps
  PROVE  Spec => []CachedWasSeen
<1>1. NegCacheInv => CachedWasSeen
  <2>1. SUFFICES ASSUME NegCacheInv, NEW ip \in IPs, check_neg_cache(ip)
                 PROVE  last[ip] # Never /\ now - last[ip] <= negcache
    BY DEF CachedWasSeen
  <2>2. ip \in Words /\ Trie(heap)
    BY <2>1, NegCacheConfig DEF NegCacheInv, Words, Bits
  <2> DEFINE n == Found(heap, ip)
  <2>3. n \in DOMAIN heap /\ heap[n].ip = ip /\ now - heap[n].seen <= negcache
    BY <2>1, <2>2, FoundIs DEF check_neg_cache, nc_search
  <2>. HIDE DEF n
  <2>4. n # head
    BY <2>2, <2>3, NodeFacts, NegCacheConfig DEF Trie
  <2>5. last[ip] # Never /\ heap[n].seen = last[ip]
    BY <2>1, <2>3, <2>4 DEF NegCacheInv, Timed
  <2>. QED
    BY <2>3, <2>5
<1>. QED
  BY <1>1, TrieAlways, PTL

\* A node for each address and no more, and nc_rebuild reaches every one.
THEOREM NodePerAddressHolds ==
  ASSUME ~ShiftWraps
  PROVE  Spec => []NodePerAddress
<1>1. NegCacheInv => NodePerAddress
  BY FreedIs DEF NegCacheInv, NodePerAddress, Trie, Distinct, Lists
<1>. QED
  BY <1>1, TrieAlways, PTL

\* nc_rebuild frees no node twice, and reads none after it was freed: the right
\* link of a node, read after its left subtree is gone, does not lead there.
THEOREM RebuildSafeHolds ==
  ASSUME ~ShiftWraps
  PROVE  Spec => []RebuildSafe
<1>1. NegCacheInv => RebuildSafe
  <2>1. SUFFICES ASSUME NegCacheInv
                 PROVE  RebuildSafe
    OBVIOUS
  <2>2. Trie(heap) /\ Lists(Freed(heap), DOMAIN heap \ {head})
    BY <2>1, FreedIs DEF NegCacheInv
  <2>3. ASSUME NEW n \in ToSet(Freed(heap)), heap[n].b > heap[heap[n].l].b
        PROVE  heap[n].r \notin ToSet(Visit(heap, heap[n].l))
    <3>1. n \in DOMAIN heap \ {head}
      BY <2>2 DEF Lists
    <3>2. /\ heap[n].l \in DOMAIN heap /\ heap[n].b \in 0..maxb /\ heap[head].b = maxb
          /\ maxb \in Nat
      BY <2>2, <3>1, NodeFacts, NegCacheConfig DEF Trie
    <3>3. heap[n].l # head
      BY <2>3, <3>2
    <3>4. ToSet(Visit(heap, heap[n].l)) = Under(heap, heap[n].l)
      BY <2>2, <3>2, <3>3, VisitIs DEF Lists
    <3>5. heap[n].r \notin Under(heap, heap[n].l)
      BY <2>2, <2>3, <3>1, UnderSplits
    <3>. QED
      BY <3>4, <3>5
  <2>. QED
    BY <2>2, <2>3 DEF RebuildSafe, Lists
<1>. QED
  BY <1>1, TrieAlways, PTL
=============================================================================
