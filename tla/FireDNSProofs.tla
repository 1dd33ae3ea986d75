--------------------------- MODULE FireDNSProofs ----------------------------
(***************************************************************************)
(* The safety properties of FireDNS, for every number of queries, every    *)
(* dns_fdlimit, timeout and number of tries.                               *)
(***************************************************************************)
EXTENDS FireDNS, FiniteSetTheorems, SequenceTheorems, TLAPS

Distinct(s) == \A i, j \in DOMAIN s : s[i] = s[j] => i = j

\* Where the two loops and firedns_resolveip are.  In the first loop the open
\* sockets are the ones in ufds and the ones still to visit.
LoopInv ==
  /\ Cardinality(ufds) <= dns_fdlimit
  /\ Distinct(todo)
  /\ pc \notin {"reap", "serve"} => todo = <<>>
  /\ pc = "reap" => /\ ufds \subseteq open
                    /\ ufds \cap Range(todo) = {}
                    /\ open \subseteq ufds \cup Range(todo)
  /\ pc = "select" => CONNECTIONS # <<>> /\ Current \in open \cap Anon

FireDNSInv ==
  /\ TypeOK
  /\ FdBudget
  /\ PendingIffListed
  /\ LoopSafe
  /\ LoopInv

-----------------------------------------------------------------------------
(* The list *)

\* list_add puts a new element at the end and keeps the elements distinct.
LEMMA ListAdd ==
  ASSUME NEW s \in Seq(Conn), Distinct(s), NEW c \in Conn, c \notin Range(s)
  PROVE  /\ list_add(s, c) \in Seq(Conn)
         /\ Distinct(list_add(s, c))
         /\ Range(list_add(s, c)) = Range(s) \cup {c}
         /\ list_add(s, c) # <<>>
         /\ list_add(s, c)[Len(list_add(s, c))] = c
<1> DEFINE t == Append(s, c)
<1>1. /\ t \in Seq(Conn) /\ Len(t) = Len(s) + 1 /\ DOMAIN t = 1..(Len(s) + 1)
      /\ \A i \in 1..Len(s) : t[i] = s[i]
      /\ t[Len(s) + 1] = c
      /\ DOMAIN s = 1..Len(s) /\ Len(s) \in Nat
  BY AppendProperties
<1>2. Distinct(t)
  BY <1>1 DEF Distinct, Range
<1>3. Range(t) = Range(s) \cup {c}
  <2>1. ASSUME NEW x \in Range(t) PROVE x \in Range(s) \cup {c}
    BY <1>1 DEF Range
  <2>2. ASSUME NEW x \in Range(s) PROVE x \in Range(t)
    BY <1>1 DEF Range
  <2>3. c \in Range(t)
    BY <1>1 DEF Range
  <2>. QED
    BY <2>1, <2>2, <2>3
<1>. QED
  BY <1>1, <1>2, <1>3 DEF list_add

\* list_remove takes out the element and nothing else.
LEMMA ListRemove ==
  ASSUME NEW s \in Seq(Conn), Distinct(s), NEW c \in Range(s)
  PROVE  /\ list_remove(s, c) \in Seq(Conn)
         /\ Distinct(list_remove(s, c))
         /\ Range(list_remove(s, c)) = Range(s) \ {c}
<1> DEFINE k == CHOOSE i \in DOMAIN s : s[i] = c
           n == Len(s)
           t == [j \in 1..(n - 1) |-> IF j < k THEN s[j] ELSE s[j + 1]]
<1>1. n \in Nat /\ DOMAIN s = 1..n /\ \A i \in 1..n : s[i] \in Conn
  BY LenProperties, ElementOfSeq
<1>2. k \in 1..n /\ s[k] = c
  BY <1>1 DEF Range
<1>. HIDE DEF k, n
<1>3. n - 1 \in Nat
  BY <1>1, <1>2
<1>4. \A j \in 1..(n - 1) : t[j] \in Conn
  BY <1>1, <1>2
<1>5. t \in Seq(Conn) /\ DOMAIN t = 1..(n - 1)
  BY <1>3, <1>4, IsASeq
<1>6. Distinct(t)
  <2>. SUFFICES ASSUME NEW i \in 1..(n - 1), NEW j \in 1..(n - 1), t[i] = t[j]
                PROVE  i = j
    BY <1>5 DEF Distinct
  <2>1. \A x, y \in 1..n : s[x] = s[y] => x = y
    BY <1>1 DEF Distinct
  <2>. QED
    BY <1>1, <1>2, <2>1
<1>7. Range(t) = Range(s) \ {c}
  <2>0. \A x, y \in 1..n : s[x] = s[y] => x = y
    BY <1>1 DEF Distinct
  <2>1. ASSUME NEW j \in 1..(n - 1) PROVE t[j] \in Range(s) \ {c}
    <3>1. CASE j < k
      BY <1>1, <1>2, <2>0, <3>1 DEF Range
    <3>2. CASE ~ (j < k)
      BY <1>1, <1>2, <2>0, <3>2 DEF Range
    <3>. QED
      BY <3>1, <3>2
  <2>2. ASSUME NEW i \in 1..n, i # k PROVE \E j \in 1..(n - 1) : t[j] = s[i]
    <3>1. CASE i < k
      <4>1. i \in 1..(n - 1) /\ t[i] = s[i]
        BY <1>1, <1>2, <2>2, <3>1
      <4>. QED
        BY <4>1
    <3>2. CASE i > k
      <4>1. i - 1 \in 1..(n - 1) /\ ~ (i - 1 < k) /\ (i - 1) + 1 = i
        BY <1>1, <1>2, <2>2, <3>2
      <4>2. t[i - 1] = s[(i - 1) + 1]
        BY <4>1
      <4>. QED
        BY <4>1, <4>2
    <3>. QED
      BY <1>1, <1>2, <2>2, <3>1, <3>2
  <2>3. ASSUME NEW x \in Range(s), x # c PROVE x \in Range(t)
    <3>1. PICK i \in 1..n : x = s[i]
      BY <1>1 DEF Range
    <3>2. i # k
      BY <1>2, <2>3, <3>1
    <3>3. PICK j \in 1..(n - 1) : t[j] = x
      BY <2>2, <3>1, <3>2
    <3>4. j \in DOMAIN t
      BY <1>5
    <3>. HIDE DEF t
    <3>. QED
      BY <3>3, <3>4 DEF Range
  <2>4. ASSUME NEW x \in Range(t) PROVE x \in Range(s) \ {c}
    BY <1>5, <2>1 DEF Range
  <2>. QED
    BY <2>3, <2>4
<1>8. list_remove(s, c) = t
  BY DEF list_remove, k, n
<1>. QED
  BY <1>5, <1>6, <1>7, <1>8

\* Visiting the first node of a loop leaves the others to visit.
LEMMA LoopTail ==
  ASSUME NEW s \in Seq(Conn), Distinct(s), s # <<>>
  PROVE  /\ Tail(s) \in Seq(Conn)
         /\ Distinct(Tail(s))
         /\ Head(s) \in Conn /\ Head(s) \in Range(s)
         /\ Range(Tail(s)) = Range(s) \ {Head(s)}
<1> DEFINE n == Len(s)
<1>1. /\ n \in Nat \ {0} /\ DOMAIN s = 1..n
      /\ Head(s) = s[1] /\ Head(s) \in Conn
      /\ Tail(s) \in Seq(Conn) /\ DOMAIN Tail(s) = 1..(n - 1)
      /\ \A i \in 1..(n - 1) : Tail(s)[i] = s[i + 1]
  BY HeadTailProperties, LenProperties, EmptySeq
<1>. HIDE DEF n
<1>2. Distinct(Tail(s))
  BY <1>1 DEF Distinct
<1>3. Head(s) \in Range(s)
  BY <1>1 DEF Range
<1>4. Range(Tail(s)) = Range(s) \ {Head(s)}
  <2>1. ASSUME NEW x \in Range(Tail(s)) PROVE x \in Range(s) \ {Head(s)}
    <3>1. PICK i \in 1..(n - 1) : x = s[i + 1]
      BY <1>1 DEF Range
    <3>2. i + 1 \in DOMAIN s /\ 1 \in DOMAIN s /\ i + 1 # 1
      BY <1>1
    <3>. QED
      BY <1>1, <3>1, <3>2 DEF Range, Distinct
  <2>2. ASSUME NEW x \in Range(s), x # Head(s) PROVE x \in Range(Tail(s))
    <3>1. PICK i \in 1..n : x = s[i]
      BY <1>1 DEF Range
    <3>2. i # 1
      BY <1>1, <2>2, <3>1
    <3>3. i - 1 \in 1..(n - 1) /\ (i - 1) + 1 = i
      BY <1>1, <3>2
    <3>. QED
      BY <1>1, <3>1, <3>3 DEF Range
  <2>. QED
    BY <2>1, <2>2
<1>. QED
  BY <1>1, <1>2, <1>3, <1>4

-----------------------------------------------------------------------------
(* Sockets *)

LEMMA ConnFinite == IsFiniteSet(Conn)
BY FS_Union, FireDNSConfig DEF Conn, FireDNSConfig

\* A query is sent only below the limit, and counted.
LEMMA SendStep ==
  ASSUME FireDNSInv, NEW c \in Conn, c \notin open, fdns_fdinuse < dns_fdlimit,
         firedns_doquery(c)
  PROVE  /\ FdBudget'
         /\ open' = open \cup {c} /\ open' \subseteq Conn
         /\ fdns_fdinuse' \in Nat
         /\ age' \in [Conn -> 0..MaxAge]
         /\ inbox' \subseteq Conn
<1>. USE DEF FireDNSInv, TypeOK
<1>1. MaxAge \in Nat /\ dns_fdlimit \in Nat
  BY FireDNSConfig DEF FireDNSConfig, MaxAge
<1>2. IsFiniteSet(open)
  BY ConnFinite, FS_Subset
<1>3. Cardinality(open \cup {c}) = Cardinality(open) + 1
  BY <1>2, FS_AddElement
<1>. QED
  BY <1>1, <1>3 DEF FdBudget, firedns_doquery

\* A socket that is closed is counted out and its query taken off the list.
LEMMA CloseStep ==
  ASSUME FireDNSInv, NEW c \in open, Close(c)
  PROVE  /\ FdBudget'
         /\ open' = open \ {c} /\ open' \subseteq Conn
         /\ fdns_fdinuse' \in Nat
         /\ age' \in [Conn -> 0..MaxAge]
         /\ inbox' \subseteq Conn
         /\ CONNECTIONS' \in Seq(Conn)
         /\ Distinct(CONNECTIONS')
         /\ Listed' = Listed \ {c}
         /\ c \in Listed
<1>. USE DEF FireDNSInv, TypeOK
<1>1. MaxAge \in Nat /\ dns_fdlimit \in Nat
  BY FireDNSConfig DEF FireDNSConfig, MaxAge
<1>2. IsFiniteSet(open)
  BY ConnFinite, FS_Subset
<1>3. Cardinality(open \ {c}) = Cardinality(open) - 1 /\ Cardinality(open) \in Nat
  BY <1>2, FS_RemoveElement, FS_CardinalityType
<1>4. Cardinality(open) # 0
  BY <1>2, FS_EmptySet
<1>5. c \in Range(CONNECTIONS) /\ Distinct(CONNECTIONS)
  BY DEF PendingIffListed, Listed, Distinct
<1>6. /\ list_remove(CONNECTIONS, c) \in Seq(Conn)
      /\ Distinct(list_remove(CONNECTIONS, c))
      /\ Range(list_remove(CONNECTIONS, c)) = Range(CONNECTIONS) \ {c}
  BY <1>5, ListRemove
<1>7. /\ FdBudget'
      /\ open' = open \ {c} /\ open' \subseteq Conn
      /\ fdns_fdinuse' \in Nat
  BY <1>1, <1>3, <1>4 DEF FdBudget, Close
<1>8. /\ age' \in [Conn -> 0..MaxAge]
      /\ inbox' \subseteq Conn
  BY <1>1 DEF Close
<1>9. CONNECTIONS' = list_remove(CONNECTIONS, c)
  BY DEF Close
<1>. QED
  BY <1>5, <1>6, <1>7, <1>8, <1>9 DEF Listed

\* The first loop never stops before it has seen every open socket: the array
\* is full only when it holds all of them.
LEMMA FullMeansAll == FireDNSInv => AllPolled
<1>. SUFFICES ASSUME FireDNSInv, ReapDone PROVE ufds = open
  BY DEF AllPolled, FireDNSInv, LoopInv
<1>1. ufds \subseteq open /\ open \subseteq ufds \cup Range(todo)
  BY DEF FireDNSInv, LoopInv, ReapDone
<1>2. IsFiniteSet(open)
  BY ConnFinite, FS_Subset DEF FireDNSInv, TypeOK
<1>3. CASE todo = <<>>
  <2>1. Range(todo) = {}
    BY <1>3 DEF Range
  <2>. QED
    BY <1>1, <2>1
<1>4. CASE Cardinality(ufds) >= dns_fdlimit
  <2>1. /\ IsFiniteSet(ufds)
        /\ Cardinality(ufds) <= Cardinality(open)
        /\ Cardinality(ufds) = Cardinality(open) => ufds = open
    BY <1>1, <1>2, FS_Subset
  <2>2. Cardinality(ufds) \in Nat /\ Cardinality(open) \in Nat
    BY <1>2, <2>1, FS_CardinalityType
  <2>3. Cardinality(open) <= dns_fdlimit
    BY DEF FireDNSInv, FdBudget
  <2>. QED
    BY <1>4, <2>1, <2>2, <2>3, FireDNSConfig DEF FireDNSConfig
<1>. QED
  BY <1>3, <1>4 DEF ReapDone

-----------------------------------------------------------------------------
(* Every step preserves the invariant *)

\* A query is added to the list while no loop is running.
LEMMA AddStep ==
  ASSUME FireDNSInv, pc \notin {"reap", "serve"}, NEW c \in Conn, c \notin Listed,
         CONNECTIONS' = list_add(CONNECTIONS, c)
  PROVE  /\ CONNECTIONS' \in Seq(Conn)
         /\ Distinct(CONNECTIONS')
         /\ Listed' = Listed \cup {c}
         /\ CONNECTIONS' # <<>> /\ Current' = c
         /\ c \notin open
<1>1. CONNECTIONS \in Seq(Conn) /\ Distinct(CONNECTIONS) /\ open \subseteq Listed
  BY DEF FireDNSInv, TypeOK, PendingIffListed, Distinct
<1>. QED
  BY <1>1, ListAdd DEF Listed, Current

LEMMA GetipStep ==
  ASSUME FireDNSInv, NEW q \in Query,
         firedns_getip_queue(q) \/ firedns_getip_send(q)
  PROVE  FireDNSInv'
<1>. USE DEF FireDNSInv
<1>1. /\ pc = "main" /\ pc' = "main" /\ q \in Conn /\ q \notin Listed
      /\ CONNECTIONS' = list_add(CONNECTIONS, q)
      /\ result' = [result EXCEPT ![q] = "pending"]
      /\ todo' = todo /\ late' = late /\ ufds' = ufds /\ ready' = ready
      /\ tries' = tries
  BY DEF firedns_getip_queue, firedns_getip_send, Conn, cycleVars
<1>2. /\ CONNECTIONS' \in Seq(Conn) /\ Distinct(CONNECTIONS')
      /\ Listed' = Listed \cup {q} /\ q \notin open
  BY <1>1, AddStep
<1>3. /\ FdBudget' /\ open' \subseteq Conn /\ open' \subseteq open \cup {q}
      /\ fdns_fdinuse' \in Nat
      /\ age' \in [Conn -> 0..MaxAge]
      /\ inbox' \subseteq Conn
  <2>1. CASE firedns_getip_queue(q)
    BY <2>1 DEF firedns_getip_queue, FdBudget, TypeOK
  <2>2. CASE firedns_getip_send(q)
    BY <1>1, <1>2, <2>2, SendStep DEF firedns_getip_send
  <2>. QED
    BY <2>1, <2>2
<1>4. TypeOK'
  BY <1>1, <1>2, <1>3 DEF TypeOK
<1>5. PendingIffListed'
  BY <1>1, <1>2, <1>3 DEF PendingIffListed, Distinct, TypeOK
<1>6. LoopSafe' /\ LoopInv'
  BY <1>1, <1>2 DEF LoopSafe, LoopInv
<1>. QED
  BY <1>3, <1>4, <1>5, <1>6

\* Steps that leave the list and the sockets alone.
LEMMA QuietStep ==
  ASSUME FireDNSInv, UNCHANGED <<CONNECTIONS, open, fdns_fdinuse, result>>,
         age' \in [Conn -> 0..MaxAge],
         inbox' \subseteq Conn,
         pc' \in {"main", "reap", "serve", "resolve", "select"},
         todo' \in Seq(Conn), Range(todo') \subseteq Listed,
         late' \subseteq Conn, ufds' \subseteq Conn, ready' \subseteq Conn,
         tries' \in 0..FIREDNS_TRIES,
         LoopInv'
  PROVE  FireDNSInv'
<1>1. TypeOK'
  BY DEF FireDNSInv, TypeOK
<1>2. Listed' = Listed
  BY DEF Listed
<1>3. FdBudget' /\ PendingIffListed' /\ LoopSafe'
  BY <1>2 DEF FireDNSInv, FdBudget, PendingIffListed, LoopSafe
<1>. QED
  BY <1>1, <1>3 DEF FireDNSInv

LEMMA ResolveStep ==
  ASSUME FireDNSInv,
         \/ firedns_resolveip \/ firedns_resolveip_fail
         \/ \E c \in Conn : firedns_resolveip_try(c)
         \/ firedns_resolveip_nothing \/ firedns_resolveip_reply
  PROVE  FireDNSInv'
<1>. USE DEF FireDNSInv
<1>0. FIREDNS_TRIES \in Nat /\ tries \in 0..FIREDNS_TRIES /\ 0 \in 0..FIREDNS_TRIES
  BY FireDNSConfig DEF FireDNSConfig, TypeOK
<1>1. CASE firedns_resolveip \/ firedns_resolveip_fail
  <2>1. LoopInv' /\ Range(todo) \subseteq Listed
    BY <1>1 DEF firedns_resolveip, firedns_resolveip_fail, LoopInv, LoopSafe,
                Current, cycleVars
  <2>. QED
    BY <1>0, <1>1, <2>1, QuietStep
    DEF firedns_resolveip, firedns_resolveip_fail, cycleVars, TypeOK
<1>2. ASSUME NEW c \in Conn, firedns_resolveip_try(c)
      PROVE  FireDNSInv'
  <2>1. /\ pc = "resolve" /\ pc' = "select" /\ c \in Anon /\ c \notin Listed
        /\ CONNECTIONS' = list_add(CONNECTIONS, c)
        /\ fdns_fdinuse < dns_fdlimit /\ firedns_doquery(c)
        /\ result' = result /\ tries' = tries + 1 /\ tries < FIREDNS_TRIES
        /\ todo' = todo /\ late' = late /\ ufds' = ufds /\ ready' = ready
    BY <1>2 DEF firedns_resolveip_try, cycleVars
  <2>2. /\ CONNECTIONS' \in Seq(Conn) /\ Distinct(CONNECTIONS')
        /\ Listed' = Listed \cup {c} /\ c \notin open
        /\ CONNECTIONS' # <<>> /\ Current' = c
    BY <2>1, AddStep
  <2>3. /\ FdBudget' /\ open' = open \cup {c} /\ open' \subseteq Conn
        /\ fdns_fdinuse' \in Nat
        /\ age' \in [Conn -> 0..MaxAge]
        /\ inbox' \subseteq Conn
    BY <2>1, <2>2, SendStep
  <2>4. TypeOK'
    BY <1>0, <2>1, <2>2, <2>3 DEF TypeOK
  <2>5. PendingIffListed'
    BY <2>1, <2>2, <2>3, FireDNSConfig DEF PendingIffListed, Distinct, FireDNSConfig
  <2>6. LoopSafe' /\ LoopInv'
    BY <2>1, <2>2, <2>3 DEF LoopSafe, LoopInv
  <2>. QED
    BY <2>3, <2>4, <2>5, <2>6
<1>3. ASSUME pc = "select", Close(Current), pc' \in {"main", "resolve"},
             tries' \in 0..FIREDNS_TRIES,
             UNCHANGED <<result, todo, late, ufds, ready>>
      PROVE  FireDNSInv'
  <2>1. Current \in open /\ Current \in Anon /\ todo = <<>>
    BY <1>3 DEF LoopInv
  <2>2. /\ FdBudget' /\ open' = open \ {Current} /\ open' \subseteq Conn
        /\ fdns_fdinuse' \in Nat
        /\ age' \in [Conn -> 0..MaxAge]
        /\ inbox' \subseteq Conn
        /\ CONNECTIONS' \in Seq(Conn) /\ Distinct(CONNECTIONS')
        /\ Listed' = Listed \ {Current}
    BY <1>3, <2>1, CloseStep
  <2>3. TypeOK'
    BY <1>3, <2>2 DEF TypeOK
  <2>4. PendingIffListed'
    BY <1>3, <2>1, <2>2, FireDNSConfig DEF PendingIffListed, Distinct, FireDNSConfig
  <2>5. LoopSafe' /\ LoopInv'
    <3>1. Range(todo') = {}
      BY <1>3, <2>1 DEF Range
    <3>. QED
      BY <1>3, <2>1, <3>1 DEF LoopSafe, LoopInv
  <2>. QED
    BY <2>2, <2>3, <2>4, <2>5
<1>4. CASE firedns_resolveip_nothing
  BY <1>0, <1>3, <1>4 DEF firedns_resolveip_nothing, cycleVars
<1>5. CASE firedns_resolveip_reply
  <2>1. CASE Close(Current)
    BY <1>0, <1>3, <1>5, <2>1 DEF firedns_resolveip_reply, cycleVars
  <2>2. CASE KeepWaiting(Current)
    <3>1. /\ pc = "select" /\ pc' \in {"main", "resolve"}
          /\ tries' \in 0..FIREDNS_TRIES
          /\ UNCHANGED <<CONNECTIONS, open, fdns_fdinuse, age, result, todo, late,
                         ufds, ready>>
          /\ inbox' = inbox \ {Current}
      BY <1>0, <1>5, <2>2 DEF firedns_resolveip_reply, KeepWaiting, cycleVars
    <3>2. inbox' \subseteq Conn
      BY <3>1 DEF TypeOK
    <3>3. LoopInv' /\ Range(todo) \subseteq Listed
      BY <3>1 DEF LoopInv, LoopSafe
    <3>. QED
      BY <3>1, <3>2, <3>3, QuietStep DEF TypeOK
  <2>. QED
    BY <1>5, <2>1, <2>2 DEF firedns_resolveip_reply
<1>. QED
  BY <1>1, <1>2, <1>4, <1>5

\* A loop of firedns_cycle closes the socket of the node it is at, and passes
\* its result on.
LEMMA LoopClose ==
  ASSUME FireDNSInv, pc \in {"reap", "serve"}, pc' = pc,
         todo # <<>>, NEW c, c = Head(todo), c \in open,
         pc = "reap" => c \notin ufds,
         todo' = Tail(todo),
         Close(c), NEW r \in {"REPLY", "TIMEOUT"}, Deliver(c, r),
         UNCHANGED <<late, ufds, ready, tries>>
  PROVE  FireDNSInv'
<1>. USE DEF FireDNSInv
<1>1. /\ todo' \in Seq(Conn) /\ Distinct(todo')
      /\ Range(todo') = Range(todo) \ {c}
  BY LoopTail DEF TypeOK, LoopInv
<1>2. /\ FdBudget' /\ open' = open \ {c} /\ open' \subseteq Conn
      /\ fdns_fdinuse' \in Nat
      /\ age' \in [Conn -> 0..MaxAge]
      /\ inbox' \subseteq Conn
      /\ CONNECTIONS' \in Seq(Conn) /\ Distinct(CONNECTIONS')
      /\ Listed' = Listed \ {c} /\ c \in Listed
  BY CloseStep
<1>3. result' \in [Query -> {"idle", "pending", "REPLY", "TIMEOUT"}]
  BY DEF Deliver, TypeOK
<1>4. TypeOK'
  BY <1>1, <1>2, <1>3 DEF TypeOK
<1>5. PendingIffListed'
  <2>1. ASSUME NEW q \in Query
        PROVE  result'[q] = "pending" <=> q \in Listed'
    <3>1. CASE q = c
      BY <1>2, <3>1 DEF Deliver, TypeOK
    <3>2. CASE q # c
      BY <1>2, <3>2 DEF Deliver, TypeOK, PendingIffListed
    <3>. QED
      BY <3>1, <3>2
  <2>. QED
    BY <1>2, <2>1 DEF PendingIffListed, Distinct
<1>6. LoopSafe'
  BY <1>1, <1>2 DEF LoopSafe
<1>7. LoopInv'
  BY <1>1, <1>2 DEF LoopInv
<1>. QED
  BY <1>2, <1>4, <1>5, <1>6, <1>7

LEMMA CycleStart ==
  ASSUME FireDNSInv, firedns_cycle
  PROVE  FireDNSInv'
<1>. USE DEF FireDNSInv
<1>1. /\ pc' = "reap" /\ todo' = CONNECTIONS /\ ufds' = {}
      /\ UNCHANGED <<CONNECTIONS, open, fdns_fdinuse, age, inbox, result, ready, tries>>
      /\ late' \subseteq open
  BY DEF firedns_cycle
<1>2. Distinct(todo') /\ Range(todo') = Listed /\ open \subseteq Listed
  BY <1>1 DEF PendingIffListed, Distinct, Listed
<1>3. Cardinality({}) = 0 /\ dns_fdlimit \in Nat
  BY FS_EmptySet, FireDNSConfig DEF FireDNSConfig
<1>4. LoopInv'
  BY <1>1, <1>2, <1>3 DEF LoopInv
<1>. QED
  BY <1>1, <1>2, <1>4, QuietStep DEF TypeOK

LEMMA ReapStep ==
  ASSUME FireDNSInv, NEW c \in Conn,
         reap_queued(c) \/ reap_timeout(c) \/ reap_poll(c)
  PROVE  FireDNSInv'
<1>. USE DEF FireDNSInv
<1>1. /\ pc = "reap" /\ pc' = pc /\ todo # <<>> /\ c = Head(todo)
      /\ todo' = Tail(todo)
      /\ UNCHANGED <<late, ready, tries>>
      /\ Cardinality(ufds) < dns_fdlimit
  BY DEF reap_queued, reap_timeout, reap_poll, ReapNext
<1>2. /\ todo' \in Seq(Conn) /\ Distinct(todo') /\ c \in Range(todo)
      /\ Range(todo') = Range(todo) \ {c}
  BY <1>1, LoopTail DEF TypeOK, LoopInv
<1>3. c \notin ufds /\ Range(todo') \subseteq Listed
  BY <1>1, <1>2 DEF LoopInv, LoopSafe
<1>4. CASE reap_queued(c)
  <2>1. /\ UNCHANGED <<CONNECTIONS, open, fdns_fdinuse, age, inbox, result, ufds>>
        /\ c \notin open
    BY <1>4 DEF reap_queued
  <2>2. LoopInv'
    BY <1>1, <1>2, <2>1 DEF LoopInv
  <2>. QED
    BY <1>1, <1>2, <1>3, <2>1, <2>2, QuietStep DEF TypeOK
<1>5. CASE reap_timeout(c)
  <2>1. c \in open /\ Close(c) /\ Deliver(c, "TIMEOUT") /\ ufds' = ufds
    BY <1>5 DEF reap_timeout
  <2>. QED
    BY <1>1, <1>3, <2>1, LoopClose
<1>6. CASE reap_poll(c)
  <2>1. /\ UNCHANGED <<CONNECTIONS, open, fdns_fdinuse, age, inbox, result>>
        /\ c \in open /\ ufds' = ufds \cup {c}
    BY <1>6 DEF reap_poll
  <2>2. Cardinality(ufds') <= dns_fdlimit
    <3>1. IsFiniteSet(ufds)
      BY ConnFinite, FS_Subset DEF TypeOK
    <3>2. Cardinality(ufds') = Cardinality(ufds) + 1 /\ Cardinality(ufds) \in Nat
      BY <1>3, <2>1, <3>1, FS_AddElement, FS_CardinalityType
    <3>. QED
      BY <1>1, <3>2, FireDNSConfig DEF FireDNSConfig
  <2>3. LoopInv'
    BY <1>1, <1>2, <2>1, <2>2 DEF LoopInv
  <2>. QED
    BY <1>1, <1>2, <1>3, <2>1, <2>3, QuietStep DEF TypeOK
<1>. QED
  BY <1>4, <1>5, <1>6

LEMMA PollStep ==
  ASSUME FireDNSInv, poll_some \/ poll_none
  PROVE  FireDNSInv'
<1>. USE DEF FireDNSInv
<1>0. /\ Cardinality({}) = 0 /\ dns_fdlimit \in Nat
      /\ <<>> \in Seq(Conn) /\ Distinct(<<>>) /\ Range(<<>>) = {}
  BY FS_EmptySet, FireDNSConfig DEF FireDNSConfig, Distinct, Range
<1>1. CASE poll_some
  <2>1. /\ pc' = "serve" /\ todo' = CONNECTIONS /\ late' = {}
        /\ ready' \subseteq ufds
        /\ UNCHANGED <<CONNECTIONS, open, fdns_fdinuse, age, inbox, result, ufds, tries>>
    BY <1>1 DEF poll_some
  <2>2. Distinct(todo') /\ Range(todo') = Listed
    BY <2>1 DEF PendingIffListed, Distinct, Listed
  <2>3. LoopInv'
    BY <2>1, <2>2 DEF LoopInv
  <2>. QED
    BY <2>1, <2>2, <2>3, QuietStep DEF TypeOK
<1>2. CASE poll_none
  <2>1. /\ pc' = "main" /\ todo' = <<>> /\ late' = {} /\ ufds' = {}
        /\ UNCHANGED <<CONNECTIONS, open, fdns_fdinuse, age, inbox, result, ready, tries>>
    BY <1>2 DEF poll_none
  <2>2. LoopInv' /\ Range(todo') \subseteq Listed
    BY <1>0, <2>1 DEF LoopInv
  <2>. QED
    BY <1>0, <2>1, <2>2, QuietStep DEF TypeOK
<1>. QED
  BY <1>1, <1>2

LEMMA ServeStep ==
  ASSUME FireDNSInv, NEW c \in Conn,
         serve_reply(c) \/ serve_start(c) \/ serve_skip(c)
  PROVE  FireDNSInv'
<1>. USE DEF FireDNSInv
<1>1. /\ pc = "serve" /\ pc' = pc /\ todo # <<>> /\ c = Head(todo)
      /\ todo' = Tail(todo)
      /\ UNCHANGED <<late, ufds, ready, tries>>
  BY DEF serve_reply, serve_start, serve_skip, ServeNext
<1>2. /\ todo' \in Seq(Conn) /\ Distinct(todo') /\ c \in Range(todo)
      /\ Range(todo') = Range(todo) \ {c}
  BY <1>1, LoopTail DEF TypeOK, LoopInv
<1>3. c \in Listed /\ Range(todo') \subseteq Listed
  BY <1>2 DEF LoopSafe
<1>4. LoopInv'
  BY <1>1, <1>2 DEF LoopInv
<1>5. CASE serve_reply(c)
  <2>1. CASE Close(c) /\ Deliver(c, "REPLY")
    <3>1. c \in open
      BY <1>5 DEF serve_reply
    <3>. QED
      BY <1>1, <2>1, <3>1, LoopClose
  <2>2. CASE KeepWaiting(c) /\ UNCHANGED result
    <3>1. inbox' \subseteq Conn
      BY <2>2 DEF KeepWaiting, TypeOK
    <3>. QED
      BY <1>1, <1>2, <1>3, <1>4, <2>2, <3>1, QuietStep DEF KeepWaiting, TypeOK
  <2>. QED
    BY <1>5, <2>1, <2>2 DEF serve_reply
<1>6. CASE serve_start(c)
  <2>1. /\ c \notin open /\ fdns_fdinuse < dns_fdlimit /\ firedns_doquery(c)
        /\ CONNECTIONS' = CONNECTIONS /\ result' = result
    BY <1>6 DEF serve_start
  <2>2. /\ FdBudget' /\ open' = open \cup {c} /\ open' \subseteq Conn
        /\ fdns_fdinuse' \in Nat
        /\ age' \in [Conn -> 0..MaxAge]
        /\ inbox' \subseteq Conn
    BY <2>1, SendStep
  <2>3. TypeOK'
    BY <1>1, <1>2, <2>1, <2>2 DEF TypeOK
  <2>4. Listed' = Listed
    BY <2>1 DEF Listed
  <2>5. PendingIffListed' /\ LoopSafe'
    BY <1>3, <2>1, <2>2, <2>4 DEF PendingIffListed, LoopSafe
  <2>. QED
    BY <1>4, <2>2, <2>3, <2>5
<1>7. CASE serve_skip(c)
  BY <1>1, <1>2, <1>3, <1>4, <1>7, QuietStep DEF serve_skip, TypeOK
<1>. QED
  BY <1>5, <1>6, <1>7

LEMMA ServeDone ==
  ASSUME FireDNSInv, serve_done
  PROVE  FireDNSInv'
<1>. USE DEF FireDNSInv
<1>0. Cardinality({}) = 0 /\ dns_fdlimit \in Nat
  BY FS_EmptySet, FireDNSConfig DEF FireDNSConfig
<1>1. /\ pc' = "main" /\ todo = <<>> /\ todo' = todo /\ ufds' = {} /\ ready' = {}
      /\ UNCHANGED <<CONNECTIONS, open, fdns_fdinuse, age, inbox, result, late, tries>>
  BY DEF serve_done
<1>2. LoopInv' /\ Range(todo') \subseteq Listed
  BY <1>0, <1>1 DEF LoopInv, LoopSafe
<1>. QED
  BY <1>1, <1>2, QuietStep DEF TypeOK

LEMMA WorldStep ==
  ASSUME FireDNSInv, Tick \/ \E c \in Conn : Arrive(c)
  PROVE  FireDNSInv'
<1>. USE DEF FireDNSInv
<1>1. /\ UNCHANGED <<CONNECTIONS, open, fdns_fdinuse, result, pc, todo, late, ufds,
                     ready, tries>>
  BY DEF Tick, Arrive, cycleVars
<1>2. age' \in [Conn -> 0..MaxAge]
  <2>1. MaxAge \in Nat
    BY FireDNSConfig DEF FireDNSConfig, MaxAge
  <2>2. CASE Tick
    BY <2>1, <2>2 DEF Tick, TypeOK
  <2>3. CASE \E c \in Conn : Arrive(c)
    BY <2>3 DEF Arrive, TypeOK
  <2>. QED
    BY <2>2, <2>3
<1>3. inbox' \subseteq Conn
  BY DEF Tick, Arrive, TypeOK
<1>4. LoopInv' /\ Range(todo') \subseteq Listed
  BY <1>1 DEF LoopInv, LoopSafe, Current
<1>. QED
  BY <1>1, <1>2, <1>3, <1>4, QuietStep DEF TypeOK

-----------------------------------------------------------------------------
(* The invariant, and what follows from it *)

LEMMA FireDNSInvInit == Init => FireDNSInv
<1>. SUFFICES ASSUME Init PROVE FireDNSInv
  OBVIOUS
<1>0. /\ Cardinality({}) = 0 /\ dns_fdlimit \in Nat /\ MaxAge \in Nat
      /\ FIREDNS_TRIES \in Nat
  BY FS_EmptySet, FireDNSConfig DEF FireDNSConfig, MaxAge
<1>1. TypeOK
  BY <1>0 DEF Init, TypeOK
<1>2. Range(CONNECTIONS) = {} /\ Range(todo) = {}
  BY DEF Init, Range
<1>. QED
  BY <1>0, <1>1, <1>2
  DEF Init, FireDNSInv, FdBudget, PendingIffListed, LoopSafe, LoopInv, Distinct, Listed

LEMMA FireDNSInvNext == FireDNSInv /\ [Next]_vars => FireDNSInv'
<1>. SUFFICES ASSUME FireDNSInv, [Next]_vars PROVE FireDNSInv'
  OBVIOUS
<1>1. CASE UNCHANGED vars
  <2>1. LoopInv' /\ Range(todo') \subseteq Listed
    BY <1>1 DEF vars, FireDNSInv, LoopInv, LoopSafe, Current
  <2>. QED
    BY <1>1, <2>1, QuietStep DEF vars, FireDNSInv, TypeOK
<1>2. CASE Working
  BY <1>2, ReapStep, ServeStep, ResolveStep, PollStep, ServeDone DEF Working
<1>. QED
  BY <1>1, <1>2, GetipStep, ResolveStep, CycleStart, WorldStep DEF Next

\* Every behaviour of FireDNS satisfies its inductive invariant.
THEOREM FireDNSInvariant == Spec => []FireDNSInv
<1>. QED
  BY FireDNSInvInit, FireDNSInvNext, PTL DEF Spec

\* The count of sockets is exact and within dns_fdlimit, whatever the order of
\* timeouts, replies, mismatched replies, failed sends and blocking lookups.
THEOREM SocketsBounded == Spec => []FdBudget
<1>1. FireDNSInv => FdBudget
  BY DEF FireDNSInv
<1>. QED
  BY FireDNSInvariant, <1>1, PTL

\* Every lookup that was accepted is in CONNECTIONS until its result is
\* delivered, and none after: no lookup is lost between the two loops.
THEOREM NoLookupLost == Spec => []PendingIffListed
<1>1. FireDNSInv => PendingIffListed
  BY DEF FireDNSInv
<1>. QED
  BY FireDNSInvariant, <1>1, PTL

\* The loops of firedns_cycle only meet nodes that are still in the list,
\* although they remove nodes as they go.
THEOREM ListSafe == Spec => []LoopSafe
<1>1. FireDNSInv => LoopSafe
  BY DEF FireDNSInv
<1>. QED
  BY FireDNSInvariant, <1>1, PTL

\* The first loop leaves early once it has dns_fdlimit sockets: none is then
\* missing from what is polled, whatever is left of the list.
THEOREM PolledAll == Spec => []AllPolled
<1>. QED
  BY FireDNSInvariant, FullMeansAll, PTL

\* FireDNS implements Resolver: one result for each lookup accepted, none for
\* any other.
THEOREM ResolverImplemented == Spec => Implements
<1>1. Init => ResolverPromise!Init
  BY DEF Init, ResolverPromise!Init
<1>2. ASSUME FireDNSInv, [Next]_vars
      PROVE  [ResolverPromise!Next]_result
  <2>. USE DEF ResolverPromise!Next, ResolverPromise!Accept, ResolverPromise!Answer
  <2>1. ASSUME NEW q \in Query, firedns_getip_queue(q) \/ firedns_getip_send(q)
        PROVE  ResolverPromise!Next
    <3>1. /\ result[q] # "pending"
          /\ result' = [result EXCEPT ![q] = "pending"]
      BY <1>2, <2>1 DEF firedns_getip_queue, firedns_getip_send, FireDNSInv,
                        PendingIffListed
    <3>. QED
      BY <3>1
  <2>2. ASSUME NEW c \in open, NEW r \in {"REPLY", "TIMEOUT"}, Deliver(c, r)
        PROVE  ResolverPromise!Next \/ result' = result
    <3>1. CASE c \in Query
      <4>1. result[c] = "pending"
        BY <1>2, <3>1 DEF FireDNSInv, PendingIffListed
      <4>. QED
        BY <2>2, <3>1, <4>1 DEF Deliver
    <3>2. CASE c \notin Query
      BY <2>2, <3>2 DEF Deliver
    <3>. QED
      BY <3>1, <3>2
  <2>3. ASSUME NEW c \in Conn, reap_timeout(c)
        PROVE  ResolverPromise!Next \/ result' = result
    BY <2>2, <2>3 DEF reap_timeout
  <2>4. ASSUME NEW c \in Conn, serve_reply(c)
        PROVE  ResolverPromise!Next \/ result' = result
    BY <2>2, <2>4 DEF serve_reply
  <2>5. CASE Working
    <3>1. ASSUME NEW c \in Conn,
                 \/ reap_queued(c) \/ reap_poll(c) \/ serve_start(c)
                 \/ serve_skip(c) \/ firedns_resolveip_try(c)
          PROVE  result' = result
      BY <3>1 DEF reap_queued, reap_poll, serve_start, serve_skip, firedns_resolveip_try
    <3>2. ASSUME \/ poll_some \/ poll_none \/ serve_done \/ firedns_resolveip_fail
                 \/ firedns_resolveip_nothing \/ firedns_resolveip_reply
          PROVE  result' = result
      BY <3>2 DEF poll_some, poll_none, serve_done, firedns_resolveip_fail,
                  firedns_resolveip_nothing, firedns_resolveip_reply
    <3>. QED
      BY <2>3, <2>4, <2>5, <3>1, <3>2 DEF Working
  <2>6. ASSUME firedns_resolveip \/ firedns_cycle \/ Tick \/ \E c \in Conn : Arrive(c)
        PROVE  result' = result
    BY <2>6 DEF firedns_resolveip, firedns_cycle, Tick, Arrive
  <2>7. CASE UNCHANGED vars
    BY <2>7 DEF vars
  <2>. QED
    BY <1>2, <2>1, <2>5, <2>6, <2>7 DEF Next
<1>. QED
  BY <1>1, <1>2, FireDNSInvariant, PTL DEF Spec, Implements, ResolverPromise!Spec
=============================================================================
