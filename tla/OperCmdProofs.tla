--------------------------- MODULE OperCmdProofs ----------------------------
(***************************************************************************)
(* The safety properties of OperCmd, for every COMMANDMAX, interval and    *)
(* timeout, any number of users and any delay of the main loop.            *)
(***************************************************************************)
EXTENDS OperCmd, WellFoundedInduction, SequenceTheorems, FiniteSetTheorems, TLAPS

\* What AgeBounded needs between two sweeps: each call of command_timer since
\* the last one, and the time since the last call, may have added to an age.
AgeSinceSweep ==
  \A i \in DOMAIN COMMANDS :
    COMMANDS[i].age <= COMMANDTIMEOUT + interval * MaxLag + lag

OperCmdInv ==
  /\ TypeOK
  /\ QueueInOrder
  /\ AgeSinceSweep
  /\ AwaitingAnswer

-----------------------------------------------------------------------------
(* Induction over the numbers, for sets: the library's form of it is for   *)
(* operators, which the provers cannot apply.                              *)

\* A set of natural numbers that has an element has a least one.
LEMMA LeastNat ==
  ASSUME NEW S \in SUBSET Nat, S # {}
  PROVE  \E m \in S : \A x \in S : m <= x
<1> DEFINE R == OpToRel(<, Nat)
<1>1. IsWellFoundedOn(R, Nat)
  BY NatLessThanWellFounded, Zenon
<1>2. ASSUME NEW y \in Nat, NEW x \in Nat, y < x
      PROVE  <<y, x>> \in R
  BY <1>2 DEF OpToRel
<1>. HIDE DEF R
<1>3. PICK x \in S : \A y \in S : ~ (<<y, x>> \in R)
  BY <1>1, WFMin
<1>4. ASSUME NEW y \in S
      PROVE  x <= y
  <2>1. x \in Nat /\ y \in Nat
    OBVIOUS
  <2>2. ~ (<<y, x>> \in R)
    BY <1>3
  <2>3. ~ (y < x)
    BY <1>2, <2>1, <2>2, Zenon
  <2>. QED
    BY <2>1, <2>3
<1>. QED
  BY <1>4

\* A set that holds 0, and with a number the one after it, holds them all.
LEMMA SetInduction ==
  ASSUME NEW S, 0 \in S, \A k \in Nat : k \in S => k + 1 \in S
  PROVE  Nat \subseteq S
<1>1. SUFFICES ASSUME Nat \ S # {}
               PROVE  FALSE
  OBVIOUS
<1>2. PICK m \in Nat \ S : \A x \in Nat \ S : m <= x
  BY <1>1, LeastNat
<1>3. m - 1 \in Nat /\ (m - 1) + 1 = m
  BY <1>2
<1>4. m - 1 \in S
  BY <1>2, <1>3
<1>. QED
  BY <1>2, <1>3, <1>4

-----------------------------------------------------------------------------
(* Queues *)

\* The queue q is in the order of time, and no age in it is above b.
Ordered(q) == \A i, j \in DOMAIN q : i < j => q[i].age >= q[j].age
Within(q, b) == \A i \in DOMAIN q : q[i].age <= b

\* A command is added at the end, younger than the others.
LEMMA ListAdd ==
  ASSUME NEW q \in Seq(Command), NEW n \in Nicks, NEW b \in Nat,
         Ordered(q), Within(q, b)
  PROVE  /\ list_add(q, n) \in Seq(Command)
         /\ Len(list_add(q, n)) = Len(q) + 1
         /\ Ordered(list_add(q, n))
         /\ Within(list_add(q, n), b)
         /\ ToSet(list_add(q, n)) = ToSet(q) \cup {[irc_nick |-> n, age |-> 0]}
<1> DEFINE c == [irc_nick |-> n, age |-> 0]
           t == Append(q, c)
<1>1. c \in Command /\ c.age = 0
  BY DEF Command
<1>. HIDE DEF c
<1>2. /\ t \in Seq(Command) /\ Len(t) = Len(q) + 1 /\ DOMAIN t = 1..(Len(q) + 1)
      /\ \A i \in 1..Len(q) : t[i] = q[i]
      /\ t[Len(q) + 1] = c
      /\ DOMAIN q = 1..Len(q) /\ Len(q) \in Nat
  BY <1>1, AppendProperties
<1>3. \A i \in DOMAIN q : q[i] \in Command /\ q[i].age \in Nat
  <2>1. \A i \in DOMAIN q : q[i] \in Command
    BY <1>2, ElementOfSeq
  <2>. QED
    BY <2>1 DEF Command
<1>4. list_add(q, n) = t
  BY DEF list_add, c
<1>. HIDE DEF t
<1>5. Ordered(t)
  BY <1>1, <1>2, <1>3 DEF Ordered
<1>6. Within(t, b)
  BY <1>1, <1>2 DEF Within
<1>7. ToSet(t) = ToSet(q) \cup {c}
  <2>1. ASSUME NEW x \in ToSet(t) PROVE x \in ToSet(q) \cup {c}
    BY <1>2 DEF ToSet
  <2>2. ASSUME NEW x \in ToSet(q) PROVE x \in ToSet(t)
    BY <1>2 DEF ToSet
  <2>3. c \in ToSet(t)
    BY <1>2 DEF ToSet
  <2>. QED
    BY <2>1, <2>2, <2>3
<1>. QED
  BY <1>2, <1>4, <1>5, <1>6, <1>7 DEF c

\* Taking the commands at some positions, in order.
LEMMA TakeInOrder ==
  ASSUME NEW q \in Seq(Command), NEW b \in Nat, Ordered(q), Within(q, b),
         NEW S \in SUBSET DOMAIN q, NEW f \in InOrder(S)
  PROVE  LET t == [i \in DOMAIN f |-> q[f[i]]]
         IN  /\ t \in Seq(Command)
             /\ Len(t) <= Len(q)
             /\ Ordered(t)
             /\ Within(t, b)
             /\ ToSet(t) \subseteq {q[i] : i \in S}
<1> DEFINE t == [i \in DOMAIN f |-> q[f[i]]]
<1>1. DOMAIN q = 1..Len(q) /\ Len(q) \in Nat /\ \A i \in DOMAIN q : q[i] \in Command
  BY ElementOfSeq
<1>2. IsFiniteSet(S) /\ Cardinality(S) \in Nat /\ Cardinality(S) <= Len(q)
  <2>1. IsFiniteSet(1..Len(q)) /\ Cardinality(1..Len(q)) = Len(q)
    <3>1. 1 \in Int /\ Len(q) \in Int
      BY <1>1
    <3>2. /\ IsFiniteSet(1..Len(q))
          /\ Cardinality(1..Len(q)) = IF 1 > Len(q) THEN 0 ELSE Len(q) - 1 + 1
      BY <3>1, FS_Interval, Zenon
    <3>. QED
      BY <1>1, <3>2
  <2>. QED
    BY <1>1, <2>1, FS_Subset, FS_CardinalityType
<1>3. /\ DOMAIN f = 1..Cardinality(S)
      /\ \A i \in DOMAIN f : f[i] \in S /\ f[i] \in DOMAIN q
      /\ \A i, j \in DOMAIN f : i < j => f[i] < f[j]
  BY DEF InOrder
<1>4. t \in Seq(Command) /\ Len(t) = Cardinality(S) /\ DOMAIN t = DOMAIN f
  BY <1>1, <1>2, <1>3
<1>5. Ordered(t)
  BY <1>3 DEF Ordered
<1>6. Within(t, b)
  BY <1>3 DEF Within
<1>7. ToSet(t) \subseteq {q[i] : i \in S}
  BY <1>3 DEF ToSet
<1>. QED
  BY <1>2, <1>4, <1>5, <1>6, <1>7

\* A sweep leaves no command that is too old, although it stops at the first
\* that is not: those behind it are younger.
LEMMA SweptIs ==
  ASSUME NEW q \in Seq(Command), Ordered(q)
  PROVE  /\ Swept(q) \in Seq(Command)
         /\ Len(Swept(q)) <= Len(q)
         /\ Ordered(Swept(q))
         /\ Within(Swept(q), COMMANDTIMEOUT)
         /\ ToSet(Swept(q)) \subseteq ToSet(q)
<1> DEFINE keep == {i \in DOMAIN q : q[i].age <= COMMANDTIMEOUT}
           m == Min(keep \cup {Len(q) + 1})
           t == SubSeq(q, m, Len(q))
<1>1. /\ DOMAIN q = 1..Len(q) /\ Len(q) \in Nat /\ COMMANDTIMEOUT \in Nat
      /\ \A i \in DOMAIN q : q[i] \in Command
  BY ElementOfSeq, OperCmdConfig DEF OperCmdConfig
<1>2. \A i \in DOMAIN q : q[i].age \in Nat
  BY <1>1 DEF Command
<1>3. m \in keep \cup {Len(q) + 1} /\ \A i \in keep \cup {Len(q) + 1} : m <= i
  <2>1. keep \cup {Len(q) + 1} \in SUBSET Nat
    BY <1>1
  <2>2. \E k \in keep \cup {Len(q) + 1} : \A i \in keep \cup {Len(q) + 1} : k <= i
    BY <2>1, LeastNat
  <2>. QED
    BY <2>2, Zenon DEF Min
<1>. HIDE DEF m
<1>4. m \in 1..(Len(q) + 1) /\ (m <= Len(q) => m \in keep)
  BY <1>1, <1>3
<1>. HIDE DEF keep
<1>5. /\ t \in Seq(Command) /\ Len(t) = Len(q) - m + 1
      /\ DOMAIN t = 1..(Len(q) - m + 1)
      /\ \A i \in DOMAIN t : t[i] = q[m + i - 1] /\ m + i - 1 \in DOMAIN q
  BY <1>1, <1>4
<1>6. Swept(q) = t
  BY DEF Swept, keep, m
<1>. HIDE DEF t
<1>7. Ordered(t)
  <2>1. ASSUME NEW i \in DOMAIN t, NEW j \in DOMAIN t, i < j
        PROVE  t[i].age >= t[j].age
    <3>1. m + i - 1 < m + j - 1
      BY <1>1, <1>4, <1>5, <2>1
    <3>. QED
      BY <1>5, <3>1 DEF Ordered
  <2>. QED
    BY <2>1 DEF Ordered
<1>8. Within(t, COMMANDTIMEOUT)
  <2>1. ASSUME NEW i \in DOMAIN t
        PROVE  t[i].age <= COMMANDTIMEOUT
    <3>1. m \in DOMAIN q /\ q[m].age <= COMMANDTIMEOUT
      BY <1>1, <1>4, <1>5, <2>1 DEF keep
    <3>2. q[m + i - 1].age <= q[m].age
      <4>1. m = m + i - 1 \/ m < m + i - 1
        BY <1>1, <1>4, <1>5
      <4>. QED
        BY <1>2, <1>5, <3>1, <4>1 DEF Ordered
    <3>. QED
      BY <1>1, <1>2, <1>5, <3>1, <3>2
  <2>. QED
    BY <2>1 DEF Within
<1>9. ToSet(t) \subseteq ToSet(q)
  BY <1>5 DEF ToSet
<1>10. Len(t) <= Len(q)
  BY <1>1, <1>4, <1>5
<1>. QED
  BY <1>5, <1>6, <1>7, <1>8, <1>9, <1>10

\* A second passes for every command.
LEMMA AgedIs ==
  ASSUME NEW q \in Seq(Command), NEW b \in Nat, Ordered(q), Within(q, b)
  PROVE  LET t == [i \in DOMAIN q |-> [q[i] EXCEPT !.age = @ + 1]]
         IN  /\ t \in Seq(Command)
             /\ Len(t) = Len(q)
             /\ Ordered(t)
             /\ Within(t, b + 1)
             /\ DOMAIN t = DOMAIN q
             /\ \A i \in DOMAIN q : t[i].irc_nick = q[i].irc_nick
<1> DEFINE t == [i \in DOMAIN q |-> [q[i] EXCEPT !.age = @ + 1]]
<1>1. DOMAIN q = 1..Len(q) /\ Len(q) \in Nat /\ \A i \in DOMAIN q : q[i] \in Command
  BY ElementOfSeq
<1>2. \A i \in DOMAIN q :
        /\ q[i].age \in Nat /\ t[i] \in Command
        /\ t[i].age = q[i].age + 1 /\ t[i].irc_nick = q[i].irc_nick
  BY <1>1 DEF Command
<1>3. DOMAIN t = DOMAIN q
  OBVIOUS
<1>4. t \in Seq(Command) /\ Len(t) = Len(q)
  <2>1. t \in [1..Len(q) -> Command]
    BY <1>1, <1>2
  <2>. QED
    BY <1>1, <2>1
<1>. HIDE DEF t
<1>5. Ordered(t)
  BY <1>2, <1>3 DEF Ordered
<1>6. Within(t, b + 1)
  BY <1>2, <1>3 DEF Within
<1>. QED
  BY <1>2, <1>3, <1>4, <1>5, <1>6 DEF t

\* Every finite set of positions has an enumeration in order: an answer is
\* never refused for want of one.
LEMMA InOrderExists ==
  ASSUME NEW S \in SUBSET Nat, IsFiniteSet(S)
  PROVE  InOrder(S) # {}
<1> DEFINE Good == {n \in Nat : \A T \in SUBSET Nat :
                                IsFiniteSet(T) /\ Cardinality(T) = n => InOrder(T) # {}}
<1>1. 0 \in Good
  <2>1. ASSUME NEW T \in SUBSET Nat, IsFiniteSet(T), Cardinality(T) = 0
        PROVE  InOrder(T) # {}
    <3> DEFINE f == [i \in 1..0 |-> 0]
    <3>1. f \in [1..0 -> T] /\ \A i, j \in DOMAIN f : i < j => f[i] < f[j]
      OBVIOUS
    <3>2. f \in InOrder(T)
      BY <2>1, <3>1, Zenon DEF InOrder
    <3>. QED
      BY <3>2
  <2>. QED
    BY <2>1
<1>2. ASSUME NEW n \in Nat, n \in Good
      PROVE  n + 1 \in Good
  <2>1. ASSUME NEW T \in SUBSET Nat, IsFiniteSet(T), Cardinality(T) = n + 1
        PROVE  InOrder(T) # {}
    <3>1. T # {}
      BY <2>1, FS_EmptySet
    <3>2. PICK m \in T : \A x \in T : m <= x
      BY <3>1, LeastNat
    <3>3. IsFiniteSet(T \ {m}) /\ Cardinality(T \ {m}) = n
      <4>1. Cardinality(T \ {m}) = Cardinality(T) - 1
        BY <2>1, FS_RemoveElement
      <4>. QED
        BY <2>1, <4>1, FS_RemoveElement
    <3>4. PICK g \in InOrder(T \ {m}) : TRUE
      BY <1>2, <3>3
    <3>5. /\ g \in [1..n -> T \ {m}]
          /\ \A i, j \in 1..n : i < j => g[i] < g[j]
      BY <3>3, <3>4 DEF InOrder
    <3> DEFINE f == [i \in 1..(n + 1) |-> IF i = 1 THEN m ELSE g[i - 1]]
    <3>6. f \in [1..(n + 1) -> T]
      BY <3>5
    <3>7. ASSUME NEW i \in 1..(n + 1), NEW j \in 1..(n + 1), i < j
          PROVE  f[i] < f[j]
      <4>1. j - 1 \in 1..n /\ f[j] = g[j - 1] /\ g[j - 1] \in T \ {m}
        BY <3>5, <3>7
      <4>2. CASE i = 1
        <5>1. f[i] = m
          BY <4>2
        <5>2. m \in Nat /\ g[j - 1] \in Nat /\ m <= g[j - 1] /\ m # g[j - 1]
          BY <3>2, <4>1
        <5>. QED
          BY <4>1, <5>1, <5>2
      <4>3. CASE i # 1
        <5>1. i - 1 \in 1..n /\ f[i] = g[i - 1] /\ i - 1 < j - 1
          BY <3>5, <3>7, <4>3
        <5>. QED
          BY <3>5, <4>1, <5>1
      <4>. QED
        BY <4>2, <4>3
    <3>8. f \in InOrder(T)
      BY <2>1, <3>6, <3>7 DEF InOrder
    <3>. QED
      BY <3>8
  <2>. QED
    BY <2>1
<1>3. Nat \subseteq Good
  <2>. HIDE DEF Good
  <2>. QED
    BY <1>1, <1>2, SetInduction
<1>. QED
  BY <1>3, FS_CardinalityType

-----------------------------------------------------------------------------
(* The steps *)

\* The bound that AgeSinceSweep states is a number, and is within AgeBounded's.
LEMMA BoundType ==
  ASSUME TypeOK
  PROVE  /\ COMMANDTIMEOUT + interval * MaxLag + lag \in Nat
         /\ interval * MaxLag \in Nat
         /\ (interval + 1) * MaxLag = interval * MaxLag + MaxLag
         /\ interval * MaxLag + lag <= (COMMANDINTERVAL + 1) * MaxLag
<1>1. /\ COMMANDINTERVAL \in Nat /\ COMMANDTIMEOUT \in Nat /\ MaxLag \in Nat
      /\ interval \in 0..COMMANDINTERVAL /\ lag \in 0..MaxLag
  BY OperCmdConfig DEF OperCmdConfig, TypeOK
<1>2. \A a, b \in Nat : a * b \in Nat /\ (a + 1) * b = a * b + b
  OBVIOUS
<1>3. \A a, b, c \in Nat : a <= c => a * b <= c * b
  OBVIOUS
<1>4. interval * MaxLag \in Nat /\ (interval + 1) * MaxLag = interval * MaxLag + MaxLag
  BY <1>1, <1>2
<1>5. interval * MaxLag <= COMMANDINTERVAL * MaxLag
  BY <1>1, <1>3
<1>6. (COMMANDINTERVAL + 1) * MaxLag = COMMANDINTERVAL * MaxLag + MaxLag
  BY <1>1, <1>2
<1>7. COMMANDINTERVAL * MaxLag \in Nat
  BY <1>1, <1>2
<1> DEFINE x == interval * MaxLag
           y == COMMANDINTERVAL * MaxLag
           z == (COMMANDINTERVAL + 1) * MaxLag
<1>. HIDE DEF x, y, z
<1>8. x \in Nat /\ y \in Nat /\ x <= y /\ z = y + MaxLag
  BY <1>4, <1>5, <1>6, <1>7 DEF x, y, z
<1>9. COMMANDTIMEOUT + x + lag \in Nat /\ x + lag <= z
  BY <1>1, <1>8
<1>. QED
  BY <1>4, <1>9 DEF x, z

LEMMA ParseStep ==
  ASSUME OperCmdInv, NEW n \in Nicks, NEW known \in BOOLEAN, NEW sent \in BOOLEAN,
         command_parse(n, known, sent)
  PROVE  OperCmdInv'
<1> DEFINE b == COMMANDTIMEOUT + interval * MaxLag + lag
           c == [irc_nick |-> n, age |-> 0]
<1>1. TypeOK /\ QueueInOrder /\ AgeSinceSweep /\ AwaitingAnswer
  BY DEF OperCmdInv
<1>2. b \in Nat /\ Ordered(COMMANDS) /\ Within(COMMANDS, b)
  BY <1>1, BoundType DEF QueueInOrder, AgeSinceSweep, Ordered, Within
<1>. HIDE DEF b
<1>3. /\ COMMANDS' \in Seq(Command) /\ Len(COMMANDS') <= COMMANDMAX
      /\ Ordered(COMMANDS') /\ Within(COMMANDS', b)
      /\ ToSet(COMMANDS') = IF known THEN ToSet(COMMANDS) \cup {c} ELSE ToSet(COMMANDS)
  <2>1. Len(COMMANDS) \in Nat /\ Len(COMMANDS) < COMMANDMAX /\ COMMANDMAX \in Nat
    BY <1>1, OperCmdConfig DEF OperCmdConfig, TypeOK, command_parse
  <2>2. CASE known
    BY <1>1, <1>2, <2>1, <2>2, ListAdd DEF TypeOK, command_parse
  <2>3. CASE ~ known
    BY <1>1, <1>2, <2>1, <2>3 DEF TypeOK, command_parse
  <2>. QED
    BY <2>2, <2>3
<1>4. /\ wire' \in Seq(Nicks) /\ Len(wire') <= MaxWire
      /\ ToSet(wire') = IF sent THEN ToSet(wire) \cup {n} ELSE ToSet(wire)
  <2>1. wire \in Seq(Nicks) /\ Len(wire) < MaxWire /\ MaxWire \in Nat
    BY <1>1, OperCmdConfig DEF OperCmdConfig, TypeOK, command_parse
  <2>2. CASE sent
    <3>1. wire' = Append(wire, n)
      BY <2>2 DEF command_parse
    <3>2. /\ wire' \in Seq(Nicks) /\ Len(wire') = Len(wire) + 1
          /\ DOMAIN wire = 1..Len(wire) /\ DOMAIN wire' = 1..(Len(wire) + 1)
          /\ \A i \in 1..Len(wire) : wire'[i] = wire[i]
          /\ wire'[Len(wire) + 1] = n /\ Len(wire) \in Nat
      BY <2>1, <3>1, AppendProperties
    <3>3. ToSet(wire') = ToSet(wire) \cup {n}
      <4>1. ASSUME NEW x \in ToSet(wire') PROVE x \in ToSet(wire) \cup {n}
        BY <3>2 DEF ToSet
      <4>2. ASSUME NEW x \in ToSet(wire) PROVE x \in ToSet(wire')
        BY <3>2 DEF ToSet
      <4>3. n \in ToSet(wire')
        BY <3>2 DEF ToSet
      <4>. QED
        BY <4>1, <4>2, <4>3
    <3>. QED
      BY <2>1, <2>2, <3>2, <3>3
  <2>3. CASE ~ sent
    BY <2>1, <2>3 DEF command_parse
  <2>. QED
    BY <2>2, <2>3
<1>5. orphans' \subseteq Nicks
  BY <1>1 DEF TypeOK, command_parse
<1>6. UNCHANGED <<interval, lag>>
  BY DEF command_parse
<1>7. AwaitingAnswer'
  <2>1. ASSUME NEW d \in ToSet(COMMANDS')
        PROVE  d.irc_nick \in ToSet(wire') \cup orphans'
    <3>1. d.irc_nick \in NicksOf(COMMANDS')
      BY <2>1 DEF ToSet, NicksOf
    <3>2. d.irc_nick \in ToSet(wire) \cup orphans \cup {n}
      <4>1. CASE d \in ToSet(COMMANDS)
        BY <1>1, <4>1 DEF AwaitingAnswer
      <4>2. CASE d = c
        BY <4>2
      <4>. QED
        BY <1>3, <2>1, <4>1, <4>2
    <3>3. CASE sent
      <4>1. orphans' = orphans
        BY <3>3 DEF command_parse
      <4>. QED
        BY <1>4, <3>2, <3>3, <4>1
    <3>4. CASE ~ sent
      <4>1. orphans' = (orphans \cup {n}) \cap NicksOf(COMMANDS')
        BY <3>4 DEF command_parse
      <4>. QED
        BY <1>4, <3>1, <3>2, <3>4, <4>1
    <3>. QED
      BY <3>3, <3>4
  <2>. QED
    BY <2>1 DEF AwaitingAnswer
<1>8. QueueInOrder' /\ AgeSinceSweep'
  BY <1>3, <1>6 DEF QueueInOrder, AgeSinceSweep, Ordered, Within, b
<1>. QED
  BY <1>1, <1>3, <1>4, <1>5, <1>6, <1>7, <1>8 DEF OperCmdInv, TypeOK

\* The answer to the oldest question is taken off the wire.
LEMMA WireTail ==
  ASSUME TypeOK, wire # <<>>, wire' = Tail(wire)
  PROVE  /\ wire' \in Seq(Nicks) /\ Len(wire') <= MaxWire
         /\ Head(wire) \in Nicks
         /\ ToSet(wire) = ToSet(wire') \cup {Head(wire)}
<1>1. wire \in Seq(Nicks) /\ Len(wire) <= MaxWire /\ MaxWire \in Nat
  BY OperCmdConfig DEF OperCmdConfig, TypeOK
<1>2. /\ Len(wire) \in Nat \ {0} /\ DOMAIN wire = 1..Len(wire)
      /\ Head(wire) = wire[1] /\ Head(wire) \in Nicks
      /\ wire' \in Seq(Nicks) /\ Len(wire') = Len(wire) - 1
      /\ DOMAIN wire' = 1..(Len(wire) - 1)
      /\ \A i \in 1..(Len(wire) - 1) : wire'[i] = wire[i + 1]
  BY <1>1
<1>3. ASSUME NEW x \in ToSet(wire)
      PROVE  x \in ToSet(wire') \cup {Head(wire)}
  <2>1. PICK i \in 1..Len(wire) : x = wire[i]
    BY <1>2 DEF ToSet
  <2>2. CASE i = 1
    BY <1>2, <2>1, <2>2
  <2>3. CASE i # 1
    <3>1. i - 1 \in DOMAIN wire' /\ wire'[i - 1] = x
      BY <1>2, <2>1, <2>3
    <3>. QED
      BY <3>1 DEF ToSet
  <2>. QED
    BY <2>2, <2>3
<1>4. ASSUME NEW x \in ToSet(wire')
      PROVE  x \in ToSet(wire)
  <2>1. PICK i \in DOMAIN wire' : x = wire'[i]
    BY DEF ToSet
  <2>2. i + 1 \in DOMAIN wire /\ wire[i + 1] = x
    BY <1>2, <2>1
  <2>. QED
    BY <2>2 DEF ToSet
<1>5. Head(wire) \in ToSet(wire)
  BY <1>2 DEF ToSet
<1>. QED
  BY <1>1, <1>2, <1>3, <1>4, <1>5

LEMMA UserhostStep ==
  ASSUME OperCmdInv, m_userhost
  PROVE  OperCmdInv'
<1> DEFINE b == COMMANDTIMEOUT + interval * MaxLag + lag
           n == Head(wire)
           S == {i \in DOMAIN COMMANDS : COMMANDS[i].irc_nick # n}
<1>1. TypeOK /\ QueueInOrder /\ AgeSinceSweep /\ AwaitingAnswer
  BY DEF OperCmdInv
<1>2. b \in Nat /\ Ordered(COMMANDS) /\ Within(COMMANDS, b)
  BY <1>1, BoundType DEF QueueInOrder, AgeSinceSweep, Ordered, Within
<1>3. /\ wire' \in Seq(Nicks) /\ Len(wire') <= MaxWire
      /\ ToSet(wire) = ToSet(wire') \cup {n}
  BY <1>1, WireTail DEF m_userhost
<1>. HIDE DEF b
<1>4. PICK f \in InOrder(S) : COMMANDS' = [i \in DOMAIN f |-> COMMANDS[f[i]]]
  BY DEF m_userhost, command_userhost
<1>5. /\ COMMANDS' \in Seq(Command) /\ Len(COMMANDS') <= Len(COMMANDS)
      /\ Ordered(COMMANDS') /\ Within(COMMANDS', b)
      /\ ToSet(COMMANDS') \subseteq {COMMANDS[i] : i \in S}
  <2>1. COMMANDS \in Seq(Command) /\ S \in SUBSET DOMAIN COMMANDS
    BY <1>1 DEF TypeOK
  <2>. QED
    BY <1>2, <1>4, <2>1, TakeInOrder
<1>6. Len(COMMANDS') <= COMMANDMAX
  BY <1>1, <1>5, OperCmdConfig DEF OperCmdConfig, TypeOK
<1>7. /\ UNCHANGED <<interval, lag>>
      /\ orphans' = orphans \ {n}
  BY DEF m_userhost, command_userhost
<1>8. AwaitingAnswer'
  <2>1. ASSUME NEW d \in ToSet(COMMANDS')
        PROVE  d.irc_nick \in ToSet(wire') \cup orphans'
    <3>1. d \in ToSet(COMMANDS) /\ d.irc_nick # n
      BY <1>5 DEF ToSet
    <3>2. d.irc_nick \in ToSet(wire) \cup orphans
      BY <1>1, <3>1 DEF AwaitingAnswer
    <3>. QED
      BY <1>3, <1>7, <3>1, <3>2
  <2>. QED
    BY <2>1 DEF AwaitingAnswer
<1>9. QueueInOrder' /\ AgeSinceSweep'
  BY <1>5, <1>7 DEF QueueInOrder, AgeSinceSweep, Ordered, Within, b
<1>. QED
  BY <1>1, <1>3, <1>5, <1>6, <1>7, <1>8, <1>9 DEF OperCmdInv, TypeOK

\* An answer that says the nick has quit, and answers lost with the connection:
\* the commands stay, and their nicks become orphans.
LEMMA LostStep ==
  ASSUME OperCmdInv, m_userhost_quit \/ irc_reconnect
  PROVE  OperCmdInv'
<1>1. TypeOK /\ QueueInOrder /\ AgeSinceSweep /\ AwaitingAnswer
  BY DEF OperCmdInv
<1>2. UNCHANGED <<COMMANDS, interval, lag>>
  BY DEF m_userhost_quit, irc_reconnect
<1>3. /\ wire' \in Seq(Nicks) /\ Len(wire') <= MaxWire
      /\ \E lost \in SUBSET Nicks :
           /\ ToSet(wire) = ToSet(wire') \cup lost
           /\ orphans' = (orphans \cup lost) \cap NicksOf(COMMANDS)
  <2>1. CASE m_userhost_quit
    <3>1. /\ wire' \in Seq(Nicks) /\ Len(wire') <= MaxWire
          /\ Head(wire) \in Nicks
          /\ ToSet(wire) = ToSet(wire') \cup {Head(wire)}
      BY <1>1, <2>1, WireTail DEF m_userhost_quit
    <3>. QED
      BY <2>1, <3>1 DEF m_userhost_quit
  <2>2. CASE irc_reconnect
    <3>1. ToSet(wire) \in SUBSET Nicks
      BY <1>1, ElementOfSeq DEF TypeOK, ToSet
    <3>2. ToSet(<<>>) = {}
      BY DEF ToSet
    <3>3. wire' = <<>> /\ orphans' = (orphans \cup ToSet(wire)) \cap NicksOf(COMMANDS)
      BY <2>2 DEF irc_reconnect
    <3>4. wire' \in Seq(Nicks) /\ Len(wire') <= MaxWire
      BY <3>3, OperCmdConfig DEF OperCmdConfig
    <3>. QED
      BY <3>1, <3>2, <3>3, <3>4
  <2>. QED
    BY <2>1, <2>2
<1>4. PICK lost \in SUBSET Nicks :
        /\ ToSet(wire) = ToSet(wire') \cup lost
        /\ orphans' = (orphans \cup lost) \cap NicksOf(COMMANDS)
  BY <1>3
<1>5. AwaitingAnswer'
  <2>1. ASSUME NEW d \in ToSet(COMMANDS)
        PROVE  d.irc_nick \in ToSet(wire') \cup orphans'
    <3>1. d.irc_nick \in ToSet(wire) \cup orphans /\ d.irc_nick \in NicksOf(COMMANDS)
      BY <1>1 DEF AwaitingAnswer, ToSet, NicksOf
    <3>. QED
      BY <1>4, <3>1
  <2>. QED
    BY <1>2, <2>1 DEF AwaitingAnswer
<1>6. orphans' \subseteq Nicks
  BY <1>1, <1>4 DEF TypeOK
<1>7. QueueInOrder' /\ AgeSinceSweep'
  BY <1>1, <1>2 DEF QueueInOrder, AgeSinceSweep
<1>. QED
  BY <1>1, <1>2, <1>3, <1>5, <1>6, <1>7 DEF OperCmdInv, TypeOK

LEMMA TimerStep ==
  ASSUME OperCmdInv, command_timer
  PROVE  OperCmdInv'
<1>1. TypeOK /\ QueueInOrder /\ AgeSinceSweep /\ AwaitingAnswer
  BY DEF OperCmdInv
<1>2. /\ COMMANDINTERVAL \in Nat /\ COMMANDTIMEOUT \in Nat /\ MaxLag \in Nat
      /\ interval \in 0..COMMANDINTERVAL /\ lag \in 0..MaxLag
      /\ COMMANDS \in Seq(Command) /\ Len(COMMANDS) <= COMMANDMAX /\ COMMANDMAX \in Nat
  BY <1>1, OperCmdConfig DEF OperCmdConfig, TypeOK
<1>3. /\ lag' = 0 /\ wire' = wire
      /\ orphans' = orphans \cap NicksOf(COMMANDS')
  BY DEF command_timer
<1>4. ASSUME ToSet(COMMANDS') \subseteq ToSet(COMMANDS)
      PROVE  AwaitingAnswer' /\ orphans' \subseteq Nicks
  <2>1. ASSUME NEW d \in ToSet(COMMANDS')
        PROVE  d.irc_nick \in ToSet(wire') \cup orphans'
    <3>1. d.irc_nick \in ToSet(wire) \cup orphans
      BY <1>1, <1>4 DEF AwaitingAnswer
    <3>2. d.irc_nick \in NicksOf(COMMANDS')
      BY DEF ToSet, NicksOf
    <3>. QED
      BY <1>3, <3>1, <3>2
  <2>. QED
    BY <1>1, <1>3, <2>1 DEF AwaitingAnswer, TypeOK
<1>5. CASE interval < COMMANDINTERVAL
  <2>1. interval' = interval + 1 /\ COMMANDS' = COMMANDS
    BY <1>5 DEF command_timer
  <2>2. AgeSinceSweep'
    <3> DEFINE x == interval * MaxLag
               y == interval' * MaxLag
    <3>1. x \in Nat /\ y = x + MaxLag
      BY <1>1, <2>1, BoundType
    <3>2. \A k \in DOMAIN COMMANDS : COMMANDS[k].age <= COMMANDTIMEOUT + x + lag
      BY <1>1 DEF AgeSinceSweep
    <3>3. \A k \in DOMAIN COMMANDS : COMMANDS[k].age \in Nat
      <4>1. \A k \in DOMAIN COMMANDS : COMMANDS[k] \in Command
        BY <1>2, ElementOfSeq
      <4>. QED
        BY <4>1 DEF Command
    <3>. HIDE DEF x, y
    <3>4. \A k \in DOMAIN COMMANDS : COMMANDS[k].age <= COMMANDTIMEOUT + y + 0
      BY <1>2, <3>1, <3>2, <3>3
    <3>. QED
      BY <1>3, <2>1, <3>4 DEF AgeSinceSweep, y
  <2>3. AwaitingAnswer' /\ orphans' \subseteq Nicks
    BY <1>4, <2>1
  <2>4. QueueInOrder'
    BY <1>1, <2>1 DEF QueueInOrder
  <2>5. interval' \in 0..COMMANDINTERVAL /\ lag' \in 0..MaxLag
    BY <1>2, <1>3, <1>5, <2>1
  <2>. QED
    BY <1>1, <1>3, <2>1, <2>2, <2>3, <2>4, <2>5 DEF OperCmdInv, TypeOK
<1>6. CASE ~ (interval < COMMANDINTERVAL)
  <2>1. interval' = 0 /\ COMMANDS' = Swept(COMMANDS)
    BY <1>6 DEF command_timer
  <2>2. /\ COMMANDS' \in Seq(Command) /\ Len(COMMANDS') <= Len(COMMANDS)
        /\ Ordered(COMMANDS') /\ Within(COMMANDS', COMMANDTIMEOUT)
        /\ ToSet(COMMANDS') \subseteq ToSet(COMMANDS)
    BY <1>1, <1>2, <2>1, SweptIs DEF QueueInOrder, Ordered
  <2>3. AgeSinceSweep'
    <3>1. COMMANDTIMEOUT + interval' * MaxLag + lag' = COMMANDTIMEOUT
      BY <1>2, <1>3, <2>1
    <3>. QED
      BY <2>2, <3>1 DEF AgeSinceSweep, Within
  <2>4. QueueInOrder'
    BY <2>2 DEF QueueInOrder, Ordered
  <2>5. AwaitingAnswer' /\ orphans' \subseteq Nicks
    BY <1>4, <2>2
  <2>6. /\ interval' \in 0..COMMANDINTERVAL /\ lag' \in 0..MaxLag
        /\ Len(COMMANDS') <= COMMANDMAX
    BY <1>2, <1>3, <2>1, <2>2
  <2>. QED
    BY <1>1, <1>3, <2>2, <2>3, <2>4, <2>5, <2>6 DEF OperCmdInv, TypeOK
<1>. QED
  BY <1>5, <1>6

LEMMA TickStep ==
  ASSUME OperCmdInv, Tick
  PROVE  OperCmdInv'
<1> DEFINE b == COMMANDTIMEOUT + interval * MaxLag + lag
<1>1. TypeOK /\ QueueInOrder /\ AgeSinceSweep /\ AwaitingAnswer
  BY DEF OperCmdInv
<1>2. b \in Nat /\ Ordered(COMMANDS) /\ Within(COMMANDS, b)
  BY <1>1, BoundType DEF QueueInOrder, AgeSinceSweep, Ordered, Within
<1>3. /\ lag < MaxLag /\ lag' = lag + 1
      /\ COMMANDS' = [i \in DOMAIN COMMANDS |-> [COMMANDS[i] EXCEPT !.age = @ + 1]]
      /\ UNCHANGED <<interval, wire, orphans>>
  BY DEF Tick
<1>4. COMMANDTIMEOUT + interval' * MaxLag + lag' = b + 1
  <2> DEFINE x == interval * MaxLag
  <2>1. x \in Nat /\ COMMANDTIMEOUT \in Nat /\ lag \in Nat
    BY <1>1, BoundType, OperCmdConfig DEF OperCmdConfig, TypeOK
  <2>. HIDE DEF x
  <2>2. COMMANDTIMEOUT + x + (lag + 1) = (COMMANDTIMEOUT + x + lag) + 1
    BY <2>1
  <2>. QED
    BY <1>3, <2>2 DEF x
<1>. HIDE DEF b
<1>5. /\ COMMANDS' \in Seq(Command) /\ Len(COMMANDS') = Len(COMMANDS)
      /\ Ordered(COMMANDS') /\ Within(COMMANDS', b + 1)
      /\ DOMAIN COMMANDS' = DOMAIN COMMANDS
      /\ \A i \in DOMAIN COMMANDS : COMMANDS'[i].irc_nick = COMMANDS[i].irc_nick
  BY <1>1, <1>2, <1>3, AgedIs DEF TypeOK
<1>6. QueueInOrder' /\ AgeSinceSweep'
  BY <1>4, <1>5 DEF QueueInOrder, AgeSinceSweep, Ordered, Within
<1>7. AwaitingAnswer'
  BY <1>1, <1>3, <1>5 DEF AwaitingAnswer, ToSet
<1>8. lag' \in 0..MaxLag
  BY <1>1, <1>3, OperCmdConfig DEF OperCmdConfig, TypeOK
<1>. QED
  BY <1>1, <1>3, <1>5, <1>6, <1>7, <1>8 DEF OperCmdInv, TypeOK

-----------------------------------------------------------------------------
(* The invariant, and what follows from it *)

LEMMA OperCmdInvInit == Init => OperCmdInv
<1>. SUFFICES ASSUME Init PROVE OperCmdInv
  OBVIOUS
<1>1. TypeOK
  BY OperCmdConfig DEF Init, TypeOK, OperCmdConfig
<1>2. QueueInOrder /\ AgeSinceSweep /\ AwaitingAnswer
  BY DEF Init, QueueInOrder, AgeSinceSweep, AwaitingAnswer, ToSet
<1>. QED
  BY <1>1, <1>2 DEF OperCmdInv

LEMMA OperCmdInvNext == OperCmdInv /\ [Next]_vars => OperCmdInv'
<1>. SUFFICES ASSUME OperCmdInv, [Next]_vars PROVE OperCmdInv'
  OBVIOUS
<1>1. CASE UNCHANGED vars
  BY <1>1 DEF vars, OperCmdInv, TypeOK, QueueInOrder, AgeSinceSweep, AwaitingAnswer
<1>2. CASE Next
  BY <1>2, ParseStep, UserhostStep, LostStep, TimerStep, TickStep DEF Next
<1>. QED
  BY <1>1, <1>2

\* Every behaviour of OperCmd satisfies its inductive invariant.
THEOREM OperCmdInvariant == Spec => []OperCmdInv
<1>. QED
  BY OperCmdInvInit, OperCmdInvNext, PTL DEF Spec

\* The queue never holds more than COMMANDMAX commands, and every variable keeps
\* its type.
THEOREM QueueBounded == Spec => []TypeOK
<1>1. OperCmdInv => TypeOK
  BY DEF OperCmdInv
<1>. QED
  BY OperCmdInvariant, <1>1, PTL

\* The queue stays ordered by time whatever is added, answered, lost or swept:
\* command_timer may stop at the first command that is not too old.
THEOREM OrderedByTime == Spec => []QueueInOrder
<1>1. OperCmdInv => QueueInOrder
  BY DEF OperCmdInv
<1>. QED
  BY OperCmdInvariant, <1>1, PTL

\* No command outlives its timeout by more than one round of command_timer,
\* although a sweep only looks at the head of the queue and may come late.
THEOREM CommandsExpire == Spec => []AgeBounded
<1>1. OperCmdInv => AgeBounded
  <2>. SUFFICES ASSUME OperCmdInv, NEW i \in DOMAIN COMMANDS
                PROVE  COMMANDS[i].age <= COMMANDTIMEOUT + (COMMANDINTERVAL + 1) * MaxLag
    BY DEF AgeBounded
  <2> DEFINE x == interval * MaxLag
             z == (COMMANDINTERVAL + 1) * MaxLag
  <2>1. TypeOK /\ COMMANDS[i].age <= COMMANDTIMEOUT + x + lag
    BY DEF OperCmdInv, AgeSinceSweep
  <2>2. x \in Nat /\ z \in Nat /\ x + lag <= z /\ COMMANDTIMEOUT \in Nat /\ lag \in Nat
    <3>1. COMMANDINTERVAL \in Nat /\ MaxLag \in Nat /\ COMMANDTIMEOUT \in Nat /\ lag \in Nat
      BY <2>1, OperCmdConfig DEF OperCmdConfig, TypeOK
    <3>2. \A k, l \in Nat : (k + 1) * l \in Nat
      OBVIOUS
    <3>. QED
      BY <2>1, <3>1, <3>2, BoundType
  <2>3. COMMANDS[i].age \in Nat
    <3>1. COMMANDS[i] \in Command
      BY <2>1, ElementOfSeq DEF TypeOK
    <3>. QED
      BY <3>1 DEF Command
  <2>. HIDE DEF x, z
  <2>4. COMMANDS[i].age <= COMMANDTIMEOUT + z
    BY <2>1, <2>2, <2>3
  <2>. QED
    BY <2>4 DEF z
<1>. QED
  BY OperCmdInvariant, <1>1, PTL

\* A command is in the queue only while its nick has an answer to come, or had
\* it lost: every answer takes all the commands of its nick.
THEOREM AnsweredOrOrphan == Spec => []AwaitingAnswer
<1>1. OperCmdInv => AwaitingAnswer
  BY DEF OperCmdInv
<1>. QED
  BY OperCmdInvariant, <1>1, PTL
=============================================================================
