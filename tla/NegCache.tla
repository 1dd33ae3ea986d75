------------------------------ MODULE NegCache ------------------------------
(***************************************************************************)
(* The negative cache (negcache.c): a patricia trie of the addresses that  *)
(* passed their tests, with the time each was last inserted.               *)
(*                                                                         *)
(* The heap maps the addresses of cnodes to their fields; the head is at 0 *)
(* and malloc hands out the next number.  A word is the set of its bits    *)
(* that are 1, bit 0 the lowest, out of maxb.  A link leads down when the  *)
(* node it leads to tests a lower bit, so that no way down is longer than  *)
(* the word: the loops and the recursion below count their steps.          *)
(* GETBIT(x, maxb), which nc_insert evaluates, shifts by the full width of *)
(* the word: undefined in C.  The outcome depends on the machine's shift   *)
(* instruction, and ShiftWraps says which one the build has: the distance  *)
(* is taken modulo maxb (x86), or the result is 0 (PowerPC, 32-bit ARM).   *)
(***************************************************************************)
EXTENDS Integers, Sequences, FiniteSets, FiniteSetsExt, SequencesExt

CONSTANTS
  maxb,         \* bits in an unsigned long
  IPs,          \* client addresses; 0.0.0.0, the head's key, is none
  negcache,     \* OptionsItem->negcache: seconds an entry is good for
  MaxNow,       \* bound on the clock
  MaxNodes,     \* bound on the nodes allocated
  ShiftWraps    \* a shift by maxb is a shift by 0

ASSUME NegCacheConfig ==
  /\ maxb \in Nat \ {0}
  /\ IPs \subseteq (SUBSET (0..(maxb - 1))) \ {{}}
  /\ negcache \in Nat \ {0}
  /\ MaxNow \in Nat /\ MaxNodes \in Nat
  /\ ShiftWraps \in BOOLEAN

VARIABLES
  heap,     \* nc_head and the nodes allocated for it
  now,      \* time(NULL)
  last      \* history: when each address was last inserted, 0 if never

vars == <<heap, now, last>>

Never == 0
head == 0

-----------------------------------------------------------------------------
(* The trie *)

GETBIT(x, k) == IF k < maxb THEN k \in x ELSE ShiftWraps /\ 0 \in x

\* nc_init: a head that points to itself.
nc_init == [n \in {head} |-> [ip |-> {}, seen |-> Never, b |-> maxb, l |-> head, r |-> head]]

Child(h, x, ip) == IF GETBIT(ip, h[x].b) THEN h[x].r ELSE h[x].l

\* The loops of nc_search and nc_insert: p and x go down from the head until an
\* upward link is taken or, in the last loop of nc_insert, bit i is passed.
Descend(h, ip, i) ==
  LET px[k \in 0..maxb] ==
        IF k = 0 THEN <<head, h[head].l>>
        ELSE LET p == px[k - 1][1]
                 x == px[k - 1][2]
             IN  IF h[p].b > h[x].b /\ h[x].b > i THEN <<x, Child(h, x, ip)>> ELSE <<p, x>>
  IN  px[maxb]

Found(h, ip) == Descend(h, ip, -1)[2]

\* The node of ip, or the empty set.
nc_search(h, ip) == {x \in {Found(h, ip)} : h[x].ip = ip}

\* The bits in which ip differs from the key found.
Differing(h, ip) ==
  {k \in 0..maxb : ~ (GETBIT(h[Found(h, ip)].ip, k) <=> GETBIT(ip, k))}

\* A new node for ip that tests bit i goes between p and x.
Attach(h, ip, i) ==
  LET t == Cardinality(DOMAIN h)
      p == Descend(h, ip, i)[1]
      x == Descend(h, ip, i)[2]
      new == [ip |-> ip, seen |-> Never, b |-> i,
              l |-> IF GETBIT(ip, i) THEN x ELSE t,
              r |-> IF GETBIT(ip, i) THEN t ELSE x]
      old == IF GETBIT(ip, h[p].b) THEN [h EXCEPT ![p].r = t] ELSE [h EXCEPT ![p].l = t]
  IN  [n \in DOMAIN h \cup {t} |-> IF n = t THEN new ELSE old[n]]

\* Fault: the lowest bit that differs is taken, not the highest.
nc_insert_LowestBit(h, ip) ==
  IF h[Found(h, ip)].ip = ip THEN h ELSE Attach(h, ip, Min(Differing(h, ip)))

\* Fault: the right link of a new node never leads back to it.
nc_insert_Swapped(h, ip) ==
  IF h[Found(h, ip)].ip = ip THEN h
  ELSE LET i == Max(Differing(h, ip))
       IN  [Attach(h, ip, i) EXCEPT ![Cardinality(DOMAIN h)].r = Descend(h, ip, i)[2]]

\* nc_insert: a key that is not there tests the highest bit in which it differs.
nc_insert(h, ip) ==
  IF h[Found(h, ip)].ip = ip THEN h ELSE Attach(h, ip, Max(Differing(h, ip)))

\* The node nc_insert returns: the one it found, or the new one.
Inserted(h, ip) == IF h[Found(h, ip)].ip = ip THEN Found(h, ip) ELSE Cardinality(DOMAIN h)

\* nc_insert followed by the assignment to seen.
Put(h, ip, time) == [nc_insert(h, ip) EXCEPT ![Inserted(h, ip)].seen = time]

-----------------------------------------------------------------------------
(* Rebuilding *)

\* nc_rebuild's recursion below node n, in the order it frees nodes.
Visit(h, n) ==
  LET below[k \in 0..(maxb + 1)] ==
        [x \in DOMAIN h |->
          IF k = 0 THEN <<>>
          ELSE (IF h[x].b > h[h[x].l].b THEN below[k - 1][h[x].l] ELSE <<>>)
                 \o (IF h[x].b > h[h[x].r].b THEN below[k - 1][h[x].r] ELSE <<>>)
                 \o <<x>>]
  IN  below[maxb + 1][n]

Freed(h) == IF h[head].l = head THEN <<>> ELSE Visit(h, h[head].l)

\* Fault: a rebuild makes every entry new.
nc_rebuild_KeepAll(h) ==
  FoldLeft(LAMBDA new, n : Put(new, h[n].ip, now), nc_init, Freed(h))

\* The entries not too old go into a new trie.
nc_rebuild(h) ==
  LET freed == Freed(h)
      new[k \in 0..Len(freed)] ==
        IF k = 0 THEN nc_init
        ELSE IF now - h[freed[k]].seen < negcache
             THEN Put(new[k - 1], h[freed[k]].ip, h[freed[k]].seen)
             ELSE new[k - 1]
  IN  new[Len(freed)]

-----------------------------------------------------------------------------
(* Operations *)

\* Is the address negatively cached?
check_neg_cache(ip) ==
  \E n \in nc_search(heap, ip) : now - heap[n].seen <= negcache

\* Fault: the time of an address already there is not renewed.
negcache_insert_Once(ip) ==
  /\ Cardinality(DOMAIN heap) < MaxNodes
  /\ heap' = IF nc_search(heap, ip) # {} THEN heap ELSE Put(heap, ip, now)
  /\ last' = [last EXCEPT ![ip] = now]
  /\ UNCHANGED now

\* negcache_insert: the address was seen now.
negcache_insert(ip) ==
  /\ Cardinality(DOMAIN heap) < MaxNodes
  /\ heap' = Put(heap, ip, now)
  /\ last' = [last EXCEPT ![ip] = now]
  /\ UNCHANGED now

negcache_rebuild ==
  /\ heap' = nc_rebuild(heap)
  /\ UNCHANGED <<now, last>>

Tick ==
  /\ now < MaxNow
  /\ now' = now + 1
  /\ UNCHANGED <<heap, last>>

\* The clock is past negcache seconds since 1970 when bopm starts.
Init ==
  /\ heap = nc_init
  /\ now = negcache + 1
  /\ last = [ip \in IPs |-> Never]

Next == (\E ip \in IPs : negcache_insert(ip)) \/ negcache_rebuild \/ Tick

Spec == Init /\ [][Next]_vars

-----------------------------------------------------------------------------
(* Properties *)

\* "If the IP address was previously seen and within an acceptable period of
\* time, it is not scanned again": an address inserted less than negcache
\* seconds ago is found, whatever was inserted and rebuilt in the meantime.
SeenIsCached ==
  \A ip \in IPs : last[ip] # Never /\ now - last[ip] < negcache => check_neg_cache(ip)

\* An address is never reported unless it was inserted recently enough.
CachedWasSeen ==
  \A ip \in IPs : check_neg_cache(ip) => last[ip] # Never /\ now - last[ip] <= negcache

\* The trie "only requires as many nodes as we have IP addresses to store": one
\* node for each address, all of them reached when the trie is rebuilt (and so
\* freed then).
NodePerAddress ==
  /\ ToSet(Freed(heap)) = DOMAIN heap \ {head}
  /\ \A m, n \in DOMAIN heap : heap[m].ip = heap[n].ip => m = n

\* nc_rebuild frees every node once, and follows no link into what it freed:
\* the right link of a node is read after its left subtree is gone.
RebuildSafe ==
  /\ IsInjective(Freed(heap))
  /\ \A n \in ToSet(Freed(heap)) :
       heap[n].b > heap[heap[n].l].b => heap[n].r \notin ToSet(Visit(heap, heap[n].l))
=============================================================================
