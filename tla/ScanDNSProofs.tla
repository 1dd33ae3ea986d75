--------------------------- MODULE ScanDNSProofs ----------------------------
(***************************************************************************)
(* Scans and the resolver put together: the composition implements Scan    *)
(* and FireDNS, so that what ScanProofs and FireDNSProofs establish holds  *)
(* of it, and the results the resolver owes are the ones scans wait for.   *)
(***************************************************************************)
EXTENDS ScanDNS, FiniteSetTheorems, TLAPS

SP == INSTANCE ScanProofs
DP == INSTANCE FireDNSProofs

-----------------------------------------------------------------------------
(* The operators of S and D are those the lemmas of SP and DP are about *)

LEMMA SameConstants ==
  /\ S!USHRT = SP!USHRT /\ S!Freed = SP!Freed
  /\ \A x : S!Cardinality(x) = SP!Cardinality(x)
<1>1. S!USHRT = SP!USHRT
  BY DEF S!USHRT, SP!USHRT
<1>2. S!Freed = SP!Freed
  BY DEF S!Freed, SP!Freed
<1>3. ASSUME NEW x PROVE S!Cardinality(x) = SP!Cardinality(x)
  BY DEF S!Cardinality, SP!Cardinality, S!IsFiniteSet, SP!IsFiniteSet
<1>. QED
  BY <1>1, <1>2, <1>3

LEMMA SameStart ==
  ASSUME NEW a, NEW ip, S!scan_connect(a, ip) \/ S!scan_manual(a, ip)
  PROVE  SP!scan_connect(a, ip) \/ SP!scan_manual(a, ip)
<1>1. ASSUME NEW manual, NEW sent, NEW accepted, S!Start(a, ip, manual, sent, accepted)
      PROVE  SP!Start(a, ip, manual, sent, accepted)
  BY <1>1, SameConstants DEF S!Start, SP!Start
<1>2. /\ S!dnsbl_add(ip) = SP!dnsbl_add(ip)
      /\ \A asked : S!opm_scan(ip, asked) = SP!opm_scan(ip, asked)
      /\ S!check_neg_cache(ip) = SP!check_neg_cache(ip)
  BY DEF S!dnsbl_add, SP!dnsbl_add, S!opm_scan, SP!opm_scan, S!WithProtocols,
         SP!WithProtocols, S!check_neg_cache, SP!check_neg_cache
<1>3. CASE S!scan_connect(a, ip)
  BY <1>1, <1>2, <1>3 DEF S!scan_connect, SP!scan_connect
<1>4. CASE S!scan_manual(a, ip)
  BY <1>1, <1>2, <1>4 DEF S!scan_manual, SP!scan_manual
<1>. QED
  BY <1>3, <1>4

LEMMA SameFinish ==
  ASSUME NEW a, NEW s, S!scan_checkfinished(a, s)
  PROVE  SP!scan_checkfinished(a, s)
BY SameConstants
DEF S!scan_checkfinished, SP!scan_checkfinished, S!Decremented, SP!Decremented,
    S!scan_negative, SP!scan_negative

LEMMA SameResult ==
  ASSUME NEW a, NEW bl
  PROVE  /\ S!dnsbl_result_error(a, bl) => SP!dnsbl_result_error(a, bl)
         /\ S!dnsbl_result(a, bl) => SP!dnsbl_result(a, bl)
<1>1. ASSUME S!dnsbl_result_error(a, bl)
      PROVE  SP!dnsbl_result_error(a, bl)
  BY <1>1, SameFinish DEF S!dnsbl_result_error, SP!dnsbl_result_error
<1>2. ASSUME S!dnsbl_result_clean(a, bl)
      PROVE  SP!dnsbl_result_clean(a, bl)
  BY <1>2, SameFinish DEF S!dnsbl_result_clean, SP!dnsbl_result_clean
<1>3. ASSUME NEW known, S!dnsbl_result_listed(a, bl, known)
      PROVE  SP!dnsbl_result_listed(a, bl, known)
  BY <1>3, SameFinish
  DEF S!dnsbl_result_listed, SP!dnsbl_result_listed, S!dnsbl_positive, SP!dnsbl_positive,
      S!scan_positive, SP!scan_positive, S!scan_irckline, SP!scan_irckline
<1>. QED
  BY <1>1, <1>2, <1>3 DEF S!dnsbl_result, SP!dnsbl_result

LEMMA SameCallback ==
  ASSUME NEW a, NEW sc
  PROVE  /\ S!scan_end(a, sc) => SP!scan_end(a, sc)
         /\ \A p : S!libopm_report(a, sc, p) => SP!libopm_report(a, sc, p)
<1>1. ASSUME S!scan_end(a, sc)
      PROVE  SP!scan_end(a, sc)
  BY <1>1, SameFinish DEF S!scan_end, SP!scan_end
<1>2. ASSUME NEW p, S!libopm_report(a, sc, p)
      PROVE  SP!libopm_report(a, sc, p)
  BY <1>2
  DEF S!libopm_report, SP!libopm_report, S!scan_open_proxy, SP!scan_open_proxy,
      S!scan_negotiation_failed, SP!scan_negotiation_failed, S!scan_timeout,
      SP!scan_timeout, S!scan_handle_error, SP!scan_handle_error, S!Report, SP!Report,
      S!scan_positive, SP!scan_positive, S!scan_irckline, SP!scan_irckline
<1>. QED
  BY <1>1, <1>2

LEMMA SameScan == [S!Next]_(S!vars) => [SP!Next]_(SP!vars)
<1>. SUFFICES ASSUME [S!Next]_(S!vars) PROVE [SP!Next]_(SP!vars)
  OBVIOUS
<1>1. CASE UNCHANGED S!vars
  BY <1>1 DEF S!vars, SP!vars
<1>2. ASSUME NEW a \in Addr, S!scan_manual_unresolved(a)
      PROVE  SP!Next
  BY <1>2, SameConstants DEF S!scan_manual_unresolved, SP!scan_manual_unresolved, SP!Next
<1>3. CASE \E ip \in IPs : S!negcache_expire(ip)
  BY <1>3 DEF S!negcache_expire, SP!negcache_expire, SP!Next
<1>. QED
  BY <1>1, <1>2, <1>3, SameStart, SameResult, SameCallback DEF S!Next, SP!Next

LEMMA SameResolverOps ==
  /\ D!Conn = DP!Conn /\ D!MaxAge = DP!MaxAge /\ D!Listed = DP!Listed
  /\ D!Current = DP!Current
  /\ \A x : D!Cardinality(x) = DP!Cardinality(x)
  /\ \A q, c : D!list_remove(q, c) = DP!list_remove(q, c)
<1>1. ASSUME NEW x PROVE D!Cardinality(x) = DP!Cardinality(x)
  BY DEF D!Cardinality, DP!Cardinality, D!IsFiniteSet, DP!IsFiniteSet
<1>2. ASSUME NEW q, NEW c PROVE D!list_remove(q, c) = DP!list_remove(q, c)
  BY Zenon DEF D!list_remove, DP!list_remove
<1>3. D!Conn = DP!Conn /\ D!MaxAge = DP!MaxAge /\ D!Listed = DP!Listed
  BY DEF D!Conn, DP!Conn, D!MaxAge, DP!MaxAge, D!Listed, DP!Listed, D!Range, DP!Range
<1>4. D!Current = DP!Current
  BY DEF D!Current, DP!Current
<1>. QED
  BY <1>1, <1>2, <1>3, <1>4

LEMMA SameDns == [D!Next]_(D!vars) => [DP!Next]_(DP!vars)
<1>. SUFFICES ASSUME [D!Next]_(D!vars) PROVE [DP!Next]_(DP!vars)
  OBVIOUS
<1>. USE SameResolverOps DEF DP!Next, DP!Working, D!cycleVars, DP!cycleVars
<1>1. CASE UNCHANGED D!vars
  BY <1>1 DEF D!vars, DP!vars
<1>2. ASSUME NEW c PROVE /\ D!firedns_doquery(c) <=> DP!firedns_doquery(c)
                         /\ D!Close(c) <=> DP!Close(c)
                         /\ D!KeepWaiting(c) <=> DP!KeepWaiting(c)
                         /\ \A r : D!Deliver(c, r) <=> DP!Deliver(c, r)
                         /\ \A q : D!list_add(q, c) = DP!list_add(q, c)
  BY DEF D!firedns_doquery, DP!firedns_doquery, D!Close, DP!Close, D!KeepWaiting,
         DP!KeepWaiting, D!Deliver, DP!Deliver, D!list_add, DP!list_add
<1>3. ASSUME NEW q \in Query, D!firedns_getip_queue(q) \/ D!firedns_getip_send(q)
      PROVE  DP!Next
  BY <1>2, <1>3 DEF D!firedns_getip_queue, DP!firedns_getip_queue, D!firedns_getip_send,
                    DP!firedns_getip_send
<1>4. CASE D!firedns_resolveip \/ D!firedns_cycle \/ D!Tick \/ \E c \in D!Conn : D!Arrive(c)
  BY <1>4 DEF D!firedns_resolveip, DP!firedns_resolveip, D!firedns_cycle, DP!firedns_cycle,
              D!Tick, DP!Tick, D!Arrive, DP!Arrive
<1>5. ASSUME NEW c \in D!Conn, D!reap_queued(c) \/ D!reap_timeout(c) \/ D!reap_poll(c)
      PROVE  DP!Next
  <2>1. D!ReapNext(c) <=> DP!ReapNext(c)
    BY DEF D!ReapNext, DP!ReapNext
  <2>. QED
    BY <1>2, <1>5, <2>1 DEF D!reap_queued, DP!reap_queued, D!reap_timeout, DP!reap_timeout,
                            D!reap_poll, DP!reap_poll
<1>6. ASSUME NEW c \in D!Conn, D!serve_reply(c) \/ D!serve_start(c) \/ D!serve_skip(c)
      PROVE  DP!Next
  <2>1. D!ServeNext(c) <=> DP!ServeNext(c)
    BY DEF D!ServeNext, DP!ServeNext
  <2>. QED
    BY <1>2, <1>6, <2>1 DEF D!serve_reply, DP!serve_reply, D!serve_start, DP!serve_start,
                            D!serve_skip, DP!serve_skip
<1>7. ASSUME NEW c \in D!Conn, D!firedns_resolveip_try(c)
      PROVE  DP!Next
  BY <1>2, <1>7 DEF D!firedns_resolveip_try, DP!firedns_resolveip_try
<1>8. CASE D!poll_some \/ D!poll_none \/ D!serve_done
  BY <1>8 DEF D!poll_some, DP!poll_some, D!poll_none, DP!poll_none, D!serve_done,
              DP!serve_done, D!ReapDone, DP!ReapDone
<1>9. CASE \/ D!firedns_resolveip_fail \/ D!firedns_resolveip_nothing
           \/ D!firedns_resolveip_reply
  BY <1>2, <1>9 DEF D!firedns_resolveip_fail, DP!firedns_resolveip_fail,
                    D!firedns_resolveip_nothing, DP!firedns_resolveip_nothing,
                    D!firedns_resolveip_reply, DP!firedns_resolveip_reply
<1>. QED
  BY <1>1, <1>3, <1>4, <1>5, <1>6, <1>7, <1>8, <1>9 DEF D!Next, D!Working

-----------------------------------------------------------------------------
(* The composition implements its two parts *)

\* Every step is a step of Scan, or Scan does not see it.
LEMMA ScanPart == [Next]_vars => [S!Next]_(S!vars)
<1>. SUFFICES ASSUME [Next]_vars PROVE [S!Next]_(S!vars)
  OBVIOUS
<1>1. CASE UNCHANGED scanVars
  BY <1>1 DEF scanVars, S!vars
<1>2. ASSUME NEW a \in Addr, NEW ip \in IPs, start(a, ip) \/ check_resolved(a, ip)
      PROVE  S!Next
  BY <1>2 DEF start, check_resolved, S!Next
<1>3. ASSUME NEW a \in Addr, opm_cycle(a)
      PROVE  S!Next
  BY <1>3 DEF opm_cycle, S!Next
<1>4. ASSUME NEW ip \in IPs, expire(ip)
      PROVE  S!Next
  BY <1>4 DEF expire, S!Next
<1>5. ASSUME NEW a \in Addr, check_unresolved(a)
      PROVE  S!Next
  BY <1>5 DEF check_unresolved, S!Next
<1>6. ASSUME NEW c, timeout(c) \/ reply(c)
      PROVE  [S!Next]_(S!vars)
  <2>1. CASE c \in Query
    <3>1. c[1] \in Addr /\ c[2] \in Blacklists
      BY <2>1 DEF Query
    <3>. QED
      BY <1>1, <1>6, <2>1, <3>1 DEF timeout, reply, S!Next, S!dnsbl_result
  <2>2. CASE c \notin Query
    BY <1>1, <1>6, <2>2 DEF timeout, reply
  <2>. QED
    BY <2>1, <2>2
<1>7. CASE \/ \E q \in Query : hand_over(q)
           \/ cycle_begin \/ resolve_begin \/ cycle \/ resolve \/ tick
           \/ \E c \in Query \cup Anon : arrive(c)
  <2>1. UNCHANGED scanVars
    BY <1>7 DEF hand_over, cycle_begin, resolve_begin, cycle, resolve, tick, arrive
  <2>. QED
    BY <1>1, <2>1
<1>8. CASE UNCHANGED vars
  BY <1>1, <1>8 DEF vars
<1>. QED
  BY <1>2, <1>3, <1>4, <1>5, <1>6, <1>7, <1>8 DEF Next, Working

\* Every step is a step of FireDNS, or FireDNS does not see it.
LEMMA DnsPart == [Next]_vars => [D!Next]_(D!vars)
<1>. SUFFICES ASSUME [Next]_vars PROVE [D!Next]_(D!vars)
  OBVIOUS
<1>. USE DEF D!Next, D!Working, D!Conn
<1>1. CASE UNCHANGED dnsVars
  BY <1>1 DEF dnsVars, D!vars
<1>2. CASE \/ \E a \in Addr, ip \in IPs : start(a, ip)
           \/ \E a \in Addr : opm_cycle(a)
           \/ \E ip \in IPs : expire(ip)
           \/ UNCHANGED vars
  <2>1. UNCHANGED dnsVars
    BY <1>2 DEF start, opm_cycle, expire, vars
  <2>. QED
    BY <1>1, <2>1
<1>3. CASE \E q \in Query : hand_over(q)
  BY <1>3 DEF hand_over
<1>4. CASE cycle_begin \/ resolve_begin \/ tick \/ \E c \in Query \cup Anon : arrive(c)
  BY <1>4 DEF cycle_begin, resolve_begin, tick, arrive
<1>5. CASE \E c \in Query \cup Anon : timeout(c) \/ reply(c)
  BY <1>5 DEF timeout, reply
<1>6. CASE cycle
  BY <1>6 DEF cycle
<1>7. CASE resolve
  BY <1>7 DEF resolve
<1>8. CASE \E a \in Addr : check_unresolved(a) \/ \E ip \in IPs : check_resolved(a, ip)
  BY <1>8 DEF check_unresolved, check_resolved
<1>. QED
  BY <1>2, <1>3, <1>4, <1>5, <1>6, <1>7, <1>8 DEF Next, Working

\* The composition implements Scan: whatever the resolver does, the scans it
\* drives behave as Scan says.
THEOREM ScansAsSpecified == Spec => S!Spec
<1>1. Init => S!Init
  BY DEF Init
<1>. QED
  BY <1>1, ScanPart, PTL DEF Spec, S!Spec

\* The composition implements FireDNS: lookups of scans, and the names that are
\* resolved in between, are a use of the resolver that FireDNS allows.
THEOREM ResolverAsSpecified == Spec => D!Spec
<1>1. Init => D!Init
  BY DEF Init
<1>. QED
  BY <1>1, DnsPart, PTL DEF Spec, D!Spec

-----------------------------------------------------------------------------
(* Who owes what to whom *)

Pending == {q \in Query : result[q] = "pending"}

\* The lookups of scans are the ones still to be handed over and the ones that
\* are with the resolver; the former exist only outside of firedns.c.
Owed ==
  /\ lookups = adding \cup Pending
  /\ adding \cap Pending = {}
  /\ adding # {} => pc = "main"

ScanDNSInv == SP!ScanInv /\ DP!FireDNSInv /\ Owed

\* The parameters are as ScanProofs and FireDNSProofs assume.
LEMMA PartsConfig ==
  /\ SP!IsFiniteSet(Blacklists)
  /\ SP!IsFiniteSet(Scanners)
  /\ BadIPs \subseteq IPs
  /\ IPs # {}
  /\ ProtocolsOf \in [Scanners -> SUBSET Protocols]
  /\ NegCacheOn \in BOOLEAN
  /\ MaxLeaked \in Nat
  /\ SP!Cardinality(Blacklists) + SP!Cardinality(Scanners) < SP!USHRT
  /\ DP!IsFiniteSet(Query) /\ DP!IsFiniteSet(Anon)
  /\ Query \cap Anon = {}
  /\ dns_fdlimit \in Nat \ {0}
  /\ FDNS_TIMEOUT \in Nat
  /\ FIREDNS_TRIES \in Nat \ {0}
<1>1. ASSUME NEW x PROVE SP!IsFiniteSet(x) <=> IsFiniteSet(x)
  BY DEF SP!IsFiniteSet, IsFiniteSet
<1>2. ASSUME NEW x PROVE DP!IsFiniteSet(x) <=> IsFiniteSet(x)
  BY DEF DP!IsFiniteSet, IsFiniteSet
<1>3. ASSUME NEW x PROVE SP!Cardinality(x) = Cardinality(x)
  BY DEF SP!Cardinality, Cardinality, SP!IsFiniteSet, IsFiniteSet
<1>4. IsFiniteSet(Query)
  BY ScanDNSConfig, FS_Product DEF ScanDNSConfig, Query
<1>. QED
  BY <1>1, <1>2, <1>3, <1>4, ScanDNSConfig, SameConstants DEF ScanDNSConfig

\* What ScanProofs proves inductive stays true here, and so does what
\* FireDNSProofs does.
LEMMA PartsStep ==
  ASSUME SP!ScanInv, DP!FireDNSInv, [Next]_vars
  PROVE  SP!ScanInv' /\ DP!FireDNSInv'
<1>1. [SP!Next]_(SP!vars) /\ [DP!Next]_(DP!vars)
  BY ScanPart, DnsPart, SameScan, SameDns
<1>2. SP!ScanInv'
  BY <1>1, PartsConfig, SP!ScanInvNext
<1>3. DP!FireDNSInv'
  BY <1>1, PartsConfig, DP!FireDNSInvNext
<1>. QED
  BY <1>2, <1>3

\* What the parts' invariants say of each other's state.
LEMMA PartsFacts ==
  ASSUME SP!ScanInv, DP!FireDNSInv
  PROVE  /\ lookups \subseteq Query
         /\ \A q \in lookups : q[1] \in live
         /\ \A q \in Query : result[q] = "pending" <=> q \in D!Listed
         /\ open \subseteq D!Listed
         /\ result \in [Query -> {"idle", "pending", "REPLY", "TIMEOUT"}]
<1>1. lookups \subseteq Query /\ \A q \in lookups : q[1] \in live
  BY DEF SP!ScanInv, SP!TypeOK, SP!NoDangling, Query
<1>2. /\ \A q \in Query : result[q] = "pending" <=> q \in D!Listed
      /\ open \subseteq D!Listed
  BY SameResolverOps DEF DP!FireDNSInv, DP!PendingIffListed
<1>3. result \in [Query -> {"idle", "pending", "REPLY", "TIMEOUT"}]
  BY DEF DP!FireDNSInv, DP!TypeOK
<1>. QED
  BY <1>1, <1>2, <1>3

\* A scan starts: its lookups are still to be handed over.
LEMMA StartOwed ==
  ASSUME Owed, adding = {},
         NEW a \in Addr, NEW ip \in IPs, S!scan_connect(a, ip) \/ S!scan_manual(a, ip),
         adding' = lookups' \ lookups, result' = result, pc' = "main"
  PROVE  Owed'
<1>1. PICK manual, sent, accepted : S!Start(a, ip, manual, sent, accepted)
  BY DEF S!scan_connect, S!scan_manual
<1>2. lookups' = lookups \cup ({a} \X sent)
  BY <1>1 DEF S!Start
<1>3. lookups = Pending /\ Pending' = Pending
  BY DEF Owed, Pending
<1>. QED
  BY <1>2, <1>3 DEF Owed

\* The resolver answers a lookup: the scan is told, and waits for it no more.
LEMMA AnswerOwed ==
  ASSUME SP!ScanInv, DP!FireDNSInv, Owed, NEW c \in Query, result[c] = "pending",
         NEW r \in {"REPLY", "TIMEOUT"}, result' = [result EXCEPT ![c] = r],
         S!dnsbl_result(c[1], c[2]), UNCHANGED <<adding, pc>>
  PROVE  Owed'
<1>1. lookups' = lookups \ {c}
  <2>1. c = <<c[1], c[2]>>
    BY DEF Query
  <2>2. lookups' = lookups \ {<<c[1], c[2]>>}
    BY DEF S!dnsbl_result, S!dnsbl_result_listed, S!dnsbl_result_clean, S!dnsbl_result_error
  <2>. QED
    BY <2>1, <2>2
<1>2. Pending' = Pending \ {c}
  <2>1. result \in [Query -> {"idle", "pending", "REPLY", "TIMEOUT"}]
    BY PartsFacts
  <2>. QED
    BY <2>1 DEF Pending
<1>3. c \in Pending
  BY DEF Pending
<1>. QED
  BY <1>1, <1>2, <1>3 DEF Owed

\* A step that changes none of these.
LEMMA QuietOwed ==
  ASSUME Owed, UNCHANGED <<lookups, adding, result>>, adding = {} \/ pc' = pc
  PROVE  Owed'
BY DEF Owed, Pending

\* A node of the first loop that timed out.
LEMMA TimeoutOwed ==
  ASSUME SP!ScanInv, DP!FireDNSInv, Owed, NEW c \in Query \cup Anon, timeout(c)
  PROVE  Owed'
<1>1. /\ c \in open /\ UNCHANGED <<adding, pc>>
      /\ result' = IF c \in Query THEN [result EXCEPT ![c] = "TIMEOUT"] ELSE result
  BY DEF timeout, D!reap_timeout, D!ReapNext, D!Deliver
<1>2. CASE c \in Query
  <2>1. result[c] = "pending"
    BY <1>1, <1>2, PartsFacts
  <2>2. S!dnsbl_result(c[1], c[2])
    BY <1>2 DEF timeout, S!dnsbl_result
  <2>. QED
    BY <1>1, <1>2, <2>1, <2>2, AnswerOwed
<1>3. CASE c \notin Query
  BY <1>1, <1>3, QuietOwed DEF timeout, scanVars
<1>. QED
  BY <1>2, <1>3

\* A node of the second loop with a datagram.
LEMMA ReplyOwed ==
  ASSUME SP!ScanInv, DP!FireDNSInv, SP!ScanInv', DP!FireDNSInv', Owed,
         NEW c \in Query \cup Anon, reply(c)
  PROVE  Owed'
<1>1. /\ c \in open /\ UNCHANGED <<adding, pc>>
      /\ \/ result' = IF c \in Query THEN [result EXCEPT ![c] = "REPLY"] ELSE result
         \/ result' = result /\ CONNECTIONS' = CONNECTIONS
  BY DEF reply, D!serve_reply, D!ServeNext, D!Deliver, D!KeepWaiting
<1>2. /\ \A q \in Query : result'[q] = "pending" <=> q \in D!Listed'
      /\ result \in [Query -> {"idle", "pending", "REPLY", "TIMEOUT"}]
      /\ c \in D!Listed
      /\ \A q \in Query : result[q] = "pending" <=> q \in D!Listed
  <2>1. D!Listed' = DP!Listed'
    BY DEF D!Listed, DP!Listed, D!Range, DP!Range
  <2>. QED
    BY <1>1, <2>1, PartsFacts DEF DP!FireDNSInv, DP!PendingIffListed
<1>3. CASE c \in Query /\ result' = [result EXCEPT ![c] = "REPLY"]
  <2>1. result[c] = "pending" /\ c \notin D!Listed'
    BY <1>2, <1>3
  <2>2. S!dnsbl_result(c[1], c[2])
    BY <1>3, <2>1 DEF reply
  <2>. QED
    BY <1>1, <1>3, <2>1, <2>2, AnswerOwed
<1>4. CASE result' = result /\ (c \notin Query \/ CONNECTIONS' = CONNECTIONS)
  <2>1. c \notin Query \/ c \in D!Listed'
    BY <1>2, <1>4 DEF D!Listed
  <2>2. UNCHANGED scanVars
    BY <2>1 DEF reply
  <2>. QED
    BY <1>1, <1>4, <2>2, QuietOwed DEF scanVars
<1>. QED
  BY <1>1, <1>3, <1>4

\* dnsbl_add hands a lookup over to firedns_getip.
LEMMA HandOverOwed ==
  ASSUME SP!ScanInv, DP!FireDNSInv, Owed, NEW q \in Query, hand_over(q)
  PROVE  Owed'
<1>1. /\ q \in adding /\ adding' = adding \ {q} /\ lookups' = lookups
      /\ pc = "main" /\ pc' = pc /\ result' = [result EXCEPT ![q] = "pending"]
  BY DEF hand_over, scanVars, D!firedns_getip_send, D!firedns_getip_queue
<1>2. Pending' = Pending \cup {q}
  <2>1. result \in [Query -> {"idle", "pending", "REPLY", "TIMEOUT"}]
    BY PartsFacts
  <2>. QED
    BY <1>1, <2>1 DEF Pending
<1>. QED
  BY <1>1, <1>2 DEF Owed

LEMMA OwedNext ==
  ASSUME ScanDNSInv, [Next]_vars
  PROVE  Owed'
<1>1. SP!ScanInv /\ DP!FireDNSInv /\ Owed
  BY DEF ScanDNSInv
<1>2. SP!ScanInv' /\ DP!FireDNSInv'
  BY <1>1, PartsStep
<1>3. ASSUME NEW a \in Addr, NEW ip \in IPs, start(a, ip)
      PROVE  Owed'
  BY <1>1, <1>3, StartOwed DEF start, MainLoop, dnsVars
<1>4. ASSUME NEW a \in Addr, NEW ip \in IPs, check_resolved(a, ip)
      PROVE  Owed'
  <2>1. pc = "select" /\ pc' = "main" /\ result' = result
    BY <1>4 DEF check_resolved, D!firedns_resolveip_reply
  <2>2. adding = {}
    BY <1>1, <2>1 DEF Owed
  <2>. QED
    BY <1>1, <1>4, <2>1, <2>2, StartOwed DEF check_resolved
<1>5. ASSUME NEW a \in Addr, opm_cycle(a)
      PROVE  Owed'
  <2>1. lookups' = lookups
    BY <1>5 DEF opm_cycle, S!scan_end, S!libopm_report, S!scan_open_proxy,
                S!scan_negotiation_failed, S!scan_timeout, S!scan_handle_error
  <2>. QED
    BY <1>1, <1>5, <2>1, QuietOwed DEF opm_cycle, dnsVars
<1>6. ASSUME NEW ip \in IPs, expire(ip)
      PROVE  Owed'
  BY <1>1, <1>6, QuietOwed DEF expire, S!negcache_expire, dnsVars
<1>7. CASE cycle_begin \/ resolve_begin
  <2>1. adding = {} /\ UNCHANGED <<lookups, adding, result>>
    BY <1>7 DEF cycle_begin, resolve_begin, MainLoop, scanVars, D!firedns_cycle,
                D!firedns_resolveip
  <2>. QED
    BY <1>1, <2>1, QuietOwed
<1>8. CASE cycle
  <2>1. pc # "main" /\ UNCHANGED <<lookups, adding, result>>
    BY <1>8 DEF cycle, scanVars, D!poll_some, D!poll_none, D!serve_done, D!ReapDone,
                D!reap_queued, D!reap_poll, D!ReapNext, D!serve_start, D!serve_skip,
                D!ServeNext
  <2>2. adding = {}
    BY <1>1, <2>1 DEF Owed
  <2>. QED
    BY <1>1, <2>1, <2>2, QuietOwed
<1>9. CASE resolve \/ \E a \in Addr : check_unresolved(a)
  <2>1. pc # "main" /\ UNCHANGED <<lookups, adding, result>>
    BY <1>9 DEF resolve, check_unresolved, scanVars, S!scan_manual_unresolved,
                D!firedns_resolveip_try, D!firedns_resolveip_fail,
                D!firedns_resolveip_nothing, D!firedns_resolveip_reply
  <2>2. adding = {}
    BY <1>1, <2>1 DEF Owed
  <2>. QED
    BY <1>1, <2>1, <2>2, QuietOwed
<1>10. CASE tick \/ \E c \in Query \cup Anon : arrive(c)
  BY <1>1, <1>10, QuietOwed DEF tick, arrive, scanVars, D!Tick, D!Arrive
<1>11. CASE UNCHANGED vars
  BY <1>1, <1>11, QuietOwed DEF vars, scanVars, dnsVars
<1>. QED
  BY <1>1, <1>2, <1>3, <1>4, <1>5, <1>6, <1>7, <1>8, <1>9, <1>10, <1>11,
     TimeoutOwed, ReplyOwed, HandOverOwed DEF Next, Working

LEMMA ScanDNSInvInit == Init => ScanDNSInv
<1>. SUFFICES ASSUME Init PROVE ScanDNSInv
  OBVIOUS
<1>1. SP!Init /\ DP!Init
  BY SameConstants, SameResolverOps DEF Init, S!Init, SP!Init, D!Init, DP!Init
<1>2. SP!ScanInv
  BY <1>1, PartsConfig, SP!ScanInvInit
<1>3. DP!FireDNSInv
  BY <1>1, PartsConfig, DP!FireDNSInvInit
<1>4. Owed
  BY DEF Init, S!Init, D!Init, Owed, Pending
<1>. QED
  BY <1>2, <1>3, <1>4 DEF ScanDNSInv

LEMMA ScanDNSInvNext == ScanDNSInv /\ [Next]_vars => ScanDNSInv'
BY PartsStep, OwedNext DEF ScanDNSInv

\* Every behaviour of ScanDNS satisfies the invariants of its parts, and Owed.
THEOREM ScanDNSInvariant == Spec => []ScanDNSInv
<1>. QED
  BY ScanDNSInvInit, ScanDNSInvNext, PTL DEF Spec

\* A scan_struct with a lookup has a positive count.
LEMMA OwnerCounts ==
  ASSUME SP!ScanInv, NEW q \in lookups
  PROVE  q[1] \in live /\ ss[q[1]].scans > 0
<1> DEFINE a == q[1]
<1>1. a \in live /\ q \in Addr \X Blacklists /\ live \subseteq Addr
  BY DEF SP!ScanInv, SP!NoDangling, SP!TypeOK
<1>2. ss[a].scans = SP!Cardinality(SP!LookupsOf(a)) + SP!Cardinality(SP!OpmOf(a))
  BY <1>1 DEF SP!ScanInv, SP!ScansCounted
<1>3. q[2] \in SP!LookupsOf(a)
  <2>1. q = <<q[1], q[2]>> /\ q[2] \in Blacklists
    BY <1>1
  <2>. QED
    BY <2>1 DEF SP!LookupsOf
<1>4. ASSUME NEW x PROVE /\ SP!IsFiniteSet(x) <=> IsFiniteSet(x)
                         /\ SP!Cardinality(x) = Cardinality(x)
  BY DEF SP!IsFiniteSet, IsFiniteSet, SP!Cardinality, Cardinality
<1>5. /\ IsFiniteSet(SP!LookupsOf(a)) /\ IsFiniteSet(SP!OpmOf(a))
  <2>1. SP!LookupsOf(a) \subseteq Blacklists /\ SP!OpmOf(a) \subseteq Scanners
    BY DEF SP!LookupsOf, SP!OpmOf
  <2>. QED
    BY <2>1, FS_Subset, ScanDNSConfig DEF ScanDNSConfig
<1>6. Cardinality(SP!LookupsOf(a)) \in Nat \ {0} /\ Cardinality(SP!OpmOf(a)) \in Nat
  BY <1>3, <1>5, FS_CardinalityType, FS_EmptySet
<1>. QED
  BY <1>1, <1>2, <1>4, <1>6

\* The resolver owes exactly the results scans wait for, and every call of
\* dnsbl_result finds its scan_struct allocated and counting on it, whatever the
\* calls before it in the same walk of CONNECTIONS have freed.
THEOREM ResultsOwned == Spec => []ResultHasOwner
<1>1. ScanDNSInv => ResultHasOwner
  <2>. SUFFICES ASSUME ScanDNSInv PROVE ResultHasOwner
    OBVIOUS
  <2>1. SP!ScanInv /\ DP!FireDNSInv /\ Owed
    BY DEF ScanDNSInv
  <2>2. adding \cap D!Listed = {}
    <3>1. adding \subseteq Query
      BY <2>1, PartsFacts DEF Owed
    <3>. QED
      BY <2>1, <3>1, PartsFacts DEF Owed, Pending
  <2>3. ASSUME NEW q \in Query \cap D!Listed
        PROVE  q[1] \in live /\ ss[q[1]].scans > 0
    <3>1. q \in lookups
      BY <2>1, PartsFacts DEF Owed, Pending
    <3>. QED
      BY <2>1, <3>1, OwnerCounts
  <2>. QED
    BY <2>1, <2>2, <2>3 DEF ResultHasOwner, Owed, Pending
<1>. QED
  BY ScanDNSInvariant, <1>1, PTL
=============================================================================
