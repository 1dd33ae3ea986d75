------------------------------ MODULE ScanDNS -------------------------------
(***************************************************************************)
(* Scans and the resolver together.  In Scan results come from nowhere;    *)
(* here lookups are queries of FireDNS: dnsbl_add hands them to            *)
(* firedns_getip one by one, and a scan learns of one when a loop of       *)
(* firedns_cycle comes to its node and calls dnsbl_result, in the middle   *)
(* of the walk, where it may free the scan_struct other nodes refer to.    *)
(*                                                                         *)
(* A struct dnsbl_scan, the info of a query, is known by its ss and bl.    *)
(***************************************************************************)
EXTENDS Integers, Sequences, FiniteSets, Functions

CONSTANTS Addr, IPs, BadIPs, Blacklists, Scanners, Protocols, ProtocolsOf,
          NegCacheOn, MaxLeaked
CONSTANTS Anon, dns_fdlimit, FDNS_TIMEOUT, FIREDNS_TRIES

VARIABLES live, leaked, ss, lookups, opm, conns, ended, cached, klines
VARIABLES CONNECTIONS, open, fdns_fdinuse, age, inbox, result, pc, todo, late,
          ufds, ready, tries
VARIABLE adding    \* lookups of the scan being set up, not yet with firedns_getip

scanVars == <<live, leaked, ss, lookups, opm, conns, ended, cached, klines>>
dnsVars  == <<CONNECTIONS, open, fdns_fdinuse, age, inbox, result, pc, todo, late,
              ufds, ready, tries>>
vars     == <<scanVars, dnsVars, adding>>

Query == Addr \X Blacklists

S == INSTANCE Scan
D == INSTANCE FireDNS

\* What Scan and FireDNS assume of their parameters.
ASSUME ScanDNSConfig ==
  /\ IsFiniteSet(Addr) /\ IsFiniteSet(Blacklists) /\ IsFiniteSet(Scanners)
  /\ Cardinality(Blacklists) + Cardinality(Scanners) < S!USHRT
  /\ BadIPs \subseteq IPs /\ IPs # {}
  /\ ProtocolsOf \in [Scanners -> SUBSET Protocols]
  /\ NegCacheOn \in BOOLEAN
  /\ MaxLeaked \in Nat
  /\ IsFiniteSet(Anon) /\ Query \cap Anon = {}
  /\ dns_fdlimit \in Nat \ {0}
  /\ FDNS_TIMEOUT \in Nat
  /\ FIREDNS_TRIES \in Nat \ {0}

-----------------------------------------------------------------------------
\* bopm is in its main loop, outside of firedns.c and of dnsbl_add.
MainLoop == pc = "main" /\ adding = {}

\* scan_connect or scan_manual begins a scan.
start(a, ip) ==
  /\ MainLoop
  /\ S!scan_connect(a, ip) \/ S!scan_manual(a, ip)
  /\ adding' = lookups' \ lookups
  /\ UNCHANGED dnsVars

\* dnsbl_add goes on to the next blacklist; a query over the limit is queued.
hand_over(q) ==
  /\ q \in adding
  /\ D!firedns_getip_send(q) \/ D!firedns_getip_queue(q)
  /\ adding' = adding \ {q}
  /\ UNCHANGED scanVars

\* libopm calls back for a.
opm_cycle(a) ==
  /\ MainLoop
  /\ \E sc \in Scanners : \/ S!scan_end(a, sc)
                          \/ \E p \in Protocols : S!libopm_report(a, sc, p)
  /\ UNCHANGED <<dnsVars, adding>>

expire(ip) ==
  /\ MainLoop
  /\ S!negcache_expire(ip)
  /\ UNCHANGED <<dnsVars, adding>>

\* irc_init or an operator's CHECK asks for a name, and waits for the answer or
\* the last try.
resolve_begin ==
  /\ MainLoop
  /\ D!firedns_resolveip
  /\ UNCHANGED <<scanVars, adding>>

resolve ==
  /\ \/ \E c \in Anon : D!firedns_resolveip_try(c)
     \/ D!firedns_resolveip_fail
     \/ D!firedns_resolveip_nothing
     \/ D!firedns_resolveip_reply
  /\ UNCHANGED <<scanVars, adding>>

\* It was a CHECK: scan_manual goes on with the address.
check_resolved(a, ip) ==
  /\ D!firedns_resolveip_reply /\ pc' = "main"
  /\ S!scan_manual(a, ip)
  /\ adding' = lookups' \ lookups

\* Or it gives up, and its scan_struct is lost.
check_unresolved(a) ==
  /\ D!firedns_resolveip_reply \/ D!firedns_resolveip_fail
  /\ pc' = "main"
  /\ S!scan_manual_unresolved(a)
  /\ UNCHANGED adding

-----------------------------------------------------------------------------
(* firedns_cycle *)

cycle_begin ==
  /\ MainLoop
  /\ D!firedns_cycle
  /\ UNCHANGED <<scanVars, adding>>

\* Fault: the scan is not told of a timeout.
timeout_Silent(c) ==
  /\ D!reap_timeout(c)
  /\ UNCHANGED <<scanVars, adding>>

\* FDNS_ERR_TIMEOUT: dnsbl_result is told of an error.
timeout(c) ==
  /\ D!reap_timeout(c)
  /\ IF c \in Query THEN S!dnsbl_result_error(c[1], c[2]) ELSE UNCHANGED scanVars
  /\ UNCHANGED adding

\* A datagram: the reply, of which dnsbl_result is told, or not.
reply(c) ==
  /\ D!serve_reply(c)
  /\ IF c \in Query /\ c \notin D!Listed'
     THEN S!dnsbl_result(c[1], c[2]) ELSE UNCHANGED scanVars
  /\ UNCHANGED adding

\* A node that nothing is told of, and the ends of the loops.
cycle ==
  /\ \/ D!poll_some \/ D!poll_none \/ D!serve_done
     \/ \E c \in Query \cup Anon :
          D!reap_queued(c) \/ D!reap_poll(c) \/ D!serve_start(c) \/ D!serve_skip(c)
  /\ UNCHANGED <<scanVars, adding>>

-----------------------------------------------------------------------------
tick ==
  /\ D!Tick
  /\ UNCHANGED <<scanVars, adding>>

arrive(c) ==
  /\ D!Arrive(c)
  /\ UNCHANGED <<scanVars, adding>>

Init == S!Init /\ D!Init /\ adding = {}

\* Once called, functions go on to their ends.
Working ==
  \/ \E q \in Query : hand_over(q)
  \/ \E c \in Query \cup Anon : timeout(c) \/ reply(c)
  \/ cycle
  \/ resolve
  \/ \E a \in Addr, ip \in IPs : check_resolved(a, ip)
  \/ \E a \in Addr : check_unresolved(a)

Next ==
  \/ \E a \in Addr, ip \in IPs : start(a, ip)
  \/ \E a \in Addr : opm_cycle(a)
  \/ \E ip \in IPs : expire(ip)
  \/ cycle_begin \/ resolve_begin
  \/ Working
  \/ tick
  \/ \E c \in Query \cup Anon : arrive(c)

Spec == Init /\ [][Next]_vars

\* The main loop calls firedns_cycle and opm_cycle again and again (as long as
\* irc_cycle comes back, see Main), functions of firedns.c return, time passes,
\* and libopm times out the connections it waits for.  Nothing is assumed of the
\* name servers.
FairSpec ==
  /\ Spec
  /\ WF_vars(Working)
  /\ SF_vars(cycle_begin)
  /\ WF_vars(tick)
  /\ \A a \in Addr : SF_vars(opm_cycle(a))

-----------------------------------------------------------------------------
(* Properties *)

\* The resolver owes exactly the results that scans wait for, so that every call
\* of dnsbl_result finds its scan_struct, and finds it allocated, also when an
\* earlier node of the same walk has ended other scans.
ResultHasOwner ==
  /\ lookups = adding \cup {q \in Query : result[q] = "pending"}
  /\ adding \cap D!Listed = {}
  /\ \A q \in Query \cap D!Listed : q[1] \in live /\ ss[q[1]].scans > 0

\* The lookups of a scan that have no socket.
Unsent(a) == {q \in lookups : q[1] = a /\ q \notin open}

\* A scan finishes by what the resolver and libopm do, with name servers that
\* never answer, answer late or answer something else, once its lookups have all
\* been sent (one queued at dns_fdlimit may never be), and its scan_struct is
\* freed.  One that scan_manual has lost is not a scan.
SentScanFinishes ==
  \A a \in Addr : a \in live \ leaked /\ Unsent(a) = {} ~> a \notin live
=============================================================================
