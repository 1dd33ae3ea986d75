-------------------------------- MODULE Scan --------------------------------
(***************************************************************************)
(* The life of a scan_struct (scan.c) and of the DNSBL lookups made on its *)
(* behalf (dnsbl.c).  bopm is one thread: each action below is one handler *)
(* or one library callback, run to completion.  A scan_struct is created   *)
(* by a connection notice (scan_connect) or by an operator's CHECK         *)
(* (scan_manual); it is shared, by pointer, by every DNSBL lookup given to *)
(* firedns and by every scan given to libopm, and it is freed by whichever *)
(* of them brings the reference count ss->scans to zero.                   *)
(*                                                                         *)
(* libopm and the resolver appear here only through the calls scan.c and   *)
(* dnsbl.c make and the callbacks they receive.  FireDNS.tla models the    *)
(* resolver; libopm is not part of the repository.                         *)
(*                                                                         *)
(* Left out: wording of messages, logging, the e-mail of dnsbl_report and  *)
(* the write-only counters of stats.c.                                     *)
(***************************************************************************)
EXTENDS Integers, FiniteSets

CONSTANTS
  Addr,          \* addresses malloc can return for a scan_struct
  IPs,           \* client addresses
  BadIPs,        \* those inet_pton and inet_aton reject
  Blacklists,    \* OpmItem->blacklists
  Scanners,      \* SCANNERS
  Protocols,     \* protocol:port pairs that scanners try
  ProtocolsOf,   \* the protocols given to each scanner with opm_addtype
  NegCacheOn,    \* OptionsItem->negcache > 0
  MaxLeaked      \* bound on the scan_structs leaked

USHRT == 65536   \* unsigned short ss->scans wraps modulo 2^16

ASSUME ScanConfig ==
  /\ IsFiniteSet(Blacklists)
  /\ IsFiniteSet(Scanners)
  /\ BadIPs \subseteq IPs
  /\ IPs # {}
  /\ ProtocolsOf \in [Scanners -> SUBSET Protocols]
  /\ NegCacheOn \in BOOLEAN
  /\ MaxLeaked \in Nat

\* The reference count cannot wrap for any configuration with fewer than
\* 2^16 blacklists and scanners together.
ASSUME ScansFit == Cardinality(Blacklists) + Cardinality(Scanners) < USHRT

VARIABLES
  live,      \* addresses holding a scan_struct that was not freed
  leaked,    \* history: those of them that no pointer is left to
  ss,        \* fields of each scan_struct
  lookups,   \* <<a, bl>>: a struct dnsbl_scan for ss a is with the resolver
  opm,       \* <<a, sc>>: libopm owes a scan_end for ss a on scanner sc
  conns,     \* <<a, sc, p>>: libopm has still to report on this connection
  ended,     \* <<a, sc>>: opm_end was called on this scan
  cached,    \* IPs that check_neg_cache would report
  klines     \* history: KLINEs sent on behalf of the last scan_struct at a

vars == <<live, leaked, ss, lookups, opm, conns, ended, cached, klines>>

scan_struct == [ip : IPs, scans : 0..(USHRT - 1), positive : BOOLEAN, manual : BOOLEAN]

\* What a freed scan_struct holds.  Nothing may read it (NoDangling), so one
\* value stands for all: the zeros MyMalloc fills a new one with.
Freed == [ip |-> CHOOSE i \in IPs : TRUE, scans |-> 0, positive |-> FALSE,
          manual |-> FALSE]

LookupsOf(a) == {bl \in Blacklists : <<a, bl>> \in lookups}
OpmOf(a)     == {sc \in Scanners : <<a, sc>> \in opm}

-----------------------------------------------------------------------------
(***************************************************************************)
(* Creation                                                                *)
(***************************************************************************)

\* check_neg_cache, as scan_connect uses it.
check_neg_cache(ip) == NegCacheOn /\ ip \in cached

\* dnsbl_add: the blacklists whose lookup went out or was queued.  An address
\* inet_aton rejects is ignored; firedns_getip can fail for any blacklist, and
\* FDNS_ERR_FDLIMIT is not a failure (the query is queued).
dnsbl_add(ip) == IF ip \in BadIPs THEN {{}} ELSE SUBSET Blacklists

\* The scanners in "asked" that have protocols to try: on the others opm_scan
\* returns OPM_ERR_NOPROTOCOLS.
WithProtocols(asked) == {sc \in asked : ProtocolsOf[sc] # {}}

\* opm_scan over the scanners in "asked": those that returned OPM_SUCCESS.
opm_scan(ip, asked) ==
  IF ip \in BadIPs THEN {{}} ELSE SUBSET WithProtocols(asked)

\* A new scan_struct at address a, registered with the resolver for "sent" and
\* with libopm for "accepted", and freed at once if that left ss->scans at zero.
Start(a, ip, manual, sent, accepted) ==
  LET n == (Cardinality(sent) + Cardinality(accepted)) % USHRT IN
  /\ a \notin live
  /\ IF n = 0
     THEN UNCHANGED <<live, ss>>
     ELSE /\ live' = live \cup {a}
          /\ ss' = [ss EXCEPT ![a] = [ip |-> ip, scans |-> n, positive |-> FALSE,
                                      manual |-> manual]]
  /\ lookups'  = lookups \cup ({a} \X sent)
  /\ opm'      = opm \cup ({a} \X accepted)
  /\ conns'    = conns \cup {c \in {a} \X accepted \X Protocols :
                                c[3] \in ProtocolsOf[c[2]]}
  /\ klines'   = [klines EXCEPT ![a] = 0]
  /\ UNCHANGED <<leaked, ended, cached>>

\* scan_connect: a connection notice that is neither negatively cached nor
\* exempt.  "asked" are the scanners one of whose masks matches the client; the
\* exemption and mask tests are abstracted to a choice.  With the negative
\* cache on, an address inet_pton rejects is turned away first.
scan_connect(a, ip) ==
  /\ ~ check_neg_cache(ip)
  /\ NegCacheOn => ip \notin BadIPs
  /\ \E asked \in SUBSET Scanners :
       \E sent \in dnsbl_add(ip), accepted \in opm_scan(ip, asked) :
         Start(a, ip, FALSE, sent, accepted)

\* scan_manual, once the host is resolved: on every scanner, or on those of the
\* name given (possibly none).
scan_manual(a, ip) ==
  /\ ip \notin BadIPs
  /\ \E asked \in SUBSET Scanners :
       \E sent \in dnsbl_add(ip), accepted \in opm_scan(ip, asked) :
         Start(a, ip, TRUE, sent, accepted)

\* scan_manual when firedns_resolveip4 fails: the handler returns without
\* freeing the scan_struct it has already allocated.
scan_manual_unresolved(a) ==
  /\ a \notin live
  /\ Cardinality(leaked) < MaxLeaked
  /\ live'   = live \cup {a}
  /\ leaked' = leaked \cup {a}
  /\ ss'     = [ss EXCEPT ![a] = Freed]
  /\ klines' = [klines EXCEPT ![a] = 0]
  /\ UNCHANGED <<lookups, opm, conns, ended, cached>>

-----------------------------------------------------------------------------
(***************************************************************************)
(* Completion                                                              *)
(***************************************************************************)

\* ss->scans-- on an unsigned short.
Decremented(a) == (ss[a].scans + (USHRT - 1)) % USHRT

\* scan_negative: the client's address goes into the negative cache.
scan_negative(ip) == IF NegCacheOn THEN cached \cup {ip} ELSE cached

\* Fault: nothing is freed.
scan_checkfinished_Never(a, s) ==
  /\ ss' = [ss EXCEPT ![a] = [s EXCEPT !.scans = Decremented(a)]]
  /\ UNCHANGED <<live, cached>>

\* Fault: a positive is freed at once.
scan_checkfinished_Positive(a, s) ==
  IF Decremented(a) = 0 \/ s.positive
  THEN /\ live' = live \ {a}
       /\ ss' = [ss EXCEPT ![a] = Freed]
       /\ cached' = IF s.manual \/ s.positive THEN cached ELSE scan_negative(s.ip)
  ELSE /\ ss' = [ss EXCEPT ![a] = [s EXCEPT !.scans = Decremented(a)]]
       /\ UNCHANGED <<live, cached>>

\* ss->scans--, then scan_checkfinished on what a holds (s: the fields after
\* this handler's other assignments): cache a negative, then scan_free.
scan_checkfinished(a, s) ==
  IF Decremented(a) = 0
  THEN /\ live' = live \ {a}
       /\ ss' = [ss EXCEPT ![a] = Freed]
       /\ cached' = IF s.manual \/ s.positive THEN cached ELSE scan_negative(s.ip)
  ELSE /\ ss' = [ss EXCEPT ![a] = [s EXCEPT !.scans = Decremented(a)]]
       /\ UNCHANGED <<live, cached>>

\* scan_irckline: the KLINE is formatted and sent.
scan_irckline(a) == klines' = [klines EXCEPT ![a] = @ + 1]

\* Fault: ss->positive is not tested.
scan_positive_Again(a) ==
  /\ scan_irckline(a)
  /\ ended' = ended \cup {x \in opm : x[1] = a}

\* Fault: the scans of a positive go on.
scan_positive_GoOn(a) ==
  /\ IF ss[a].positive THEN UNCHANGED klines ELSE scan_irckline(a)
  /\ UNCHANGED ended

\* scan_positive, up to the assignment to ss->positive: one KLINE, then opm_end
\* on every scanner, unless the scan is already a positive.
scan_positive(a) ==
  IF ss[a].positive
  THEN UNCHANGED <<klines, ended>>
  ELSE /\ scan_irckline(a)
       /\ ended' = ended \cup {x \in opm : x[1] = a}

-----------------------------------------------------------------------------
(***************************************************************************)
(* DNSBL results (dnsbl_result, called by firedns_cycle)                   *)
(***************************************************************************)

\* dnsbl_positive acts on the scan: the listing is of a known type (or
\* ban_unknown is set) and it is neither manual nor already a positive.
dnsbl_positive(a, known) == known /\ ~ ss[a].manual /\ ~ ss[a].positive

\* FDNS_ERR_NONE: the client is listed.  "known" abstracts the comparison of
\* the answer with the replies configured for the blacklist.
dnsbl_result_listed(a, bl, known) ==
  /\ <<a, bl>> \in lookups
  /\ lookups' = lookups \ {<<a, bl>>}
  /\ IF dnsbl_positive(a, known)
     THEN /\ scan_positive(a)
          /\ scan_checkfinished(a, [ss[a] EXCEPT !.positive = TRUE])
     ELSE /\ UNCHANGED <<klines, ended>>
          /\ scan_checkfinished(a, ss[a])
  /\ UNCHANGED <<leaked, opm, conns>>

\* FDNS_ERR_NXDOMAIN: the client is not listed.
dnsbl_result_clean(a, bl) ==
  /\ <<a, bl>> \in lookups
  /\ lookups' = lookups \ {<<a, bl>>}
  /\ scan_checkfinished(a, ss[a])
  /\ UNCHANGED <<leaked, opm, conns, ended, klines>>

\* Fault: a lookup that ends in an error is not counted as done.
dnsbl_result_error_Uncounted(a, bl) ==
  /\ <<a, bl>> \in lookups
  /\ lookups' = lookups \ {<<a, bl>>}
  /\ UNCHANGED <<live, leaked, ss, opm, conns, ended, cached, klines>>

\* Any other error, a timeout included: reported, and counted as done.
dnsbl_result_error(a, bl) ==
  /\ <<a, bl>> \in lookups
  /\ lookups' = lookups \ {<<a, bl>>}
  /\ scan_checkfinished(a, ss[a])
  /\ UNCHANGED <<leaked, opm, conns, ended, klines>>

dnsbl_result(a, bl) ==
  \/ \E known \in BOOLEAN : dnsbl_result_listed(a, bl, known)
  \/ dnsbl_result_clean(a, bl)
  \/ dnsbl_result_error(a, bl)

-----------------------------------------------------------------------------
(***************************************************************************)
(* Callbacks from libopm.  A connection is reported on at most once; a     *)
(* connection of a scan that opm_end was called on may still be reported,  *)
(* which scan_positive allows for.                                         *)
(***************************************************************************)

\* libopm is done with one connection.
Report(a, sc, p) ==
  /\ <<a, sc, p>> \in conns
  /\ conns' = conns \ {<<a, sc, p>>}

\* Fault: ss->positive is not set.
scan_open_proxy_Unmarked(a, sc, p) ==
  /\ Report(a, sc, p)
  /\ IF ss[a].manual THEN UNCHANGED <<klines, ended>> ELSE scan_positive(a)
  /\ UNCHANGED <<live, leaked, ss, lookups, opm, cached>>

\* An open proxy: KLINE unless this is an operator's check.
scan_open_proxy(a, sc, p) ==
  /\ Report(a, sc, p)
  /\ IF ss[a].manual
     THEN UNCHANGED <<klines, ended, ss>>
     ELSE /\ scan_positive(a)
          /\ ss' = [ss EXCEPT ![a].positive = TRUE]
  /\ UNCHANGED <<live, leaked, lookups, opm, cached>>

\* The negotiation failed: only logged.
scan_negotiation_failed(a, sc, p) ==
  /\ Report(a, sc, p)
  /\ UNCHANGED <<live, leaked, ss, lookups, opm, ended, cached, klines>>

\* The negotiation timed out: only logged.
scan_timeout(a, sc, p) ==
  /\ Report(a, sc, p)
  /\ UNCHANGED <<live, leaked, ss, lookups, opm, ended, cached, klines>>

\* An error on one connection, only logged.
scan_handle_error(a, sc, p) ==
  /\ Report(a, sc, p)
  /\ UNCHANGED <<live, leaked, ss, lookups, opm, ended, cached, klines>>

\* All protocols of the scan are done, or the scan was ended early.
scan_end(a, sc) ==
  /\ <<a, sc>> \in opm
  /\ \/ <<a, sc>> \in ended
     \/ \A p \in Protocols : <<a, sc, p>> \notin conns
  /\ opm'   = opm \ {<<a, sc>>}
  /\ ended' = ended \ {<<a, sc>>}
  /\ conns' = {c \in conns : <<c[1], c[2]>> # <<a, sc>>}
  /\ scan_checkfinished(a, ss[a])
  /\ UNCHANGED <<leaked, lookups, klines>>

\* A negative cache entry becomes too old (check_neg_cache) or is dropped by
\* negcache_rebuild; NegCache.tla models when.
negcache_expire(ip) ==
  /\ ip \in cached
  /\ cached' = cached \ {ip}
  /\ UNCHANGED <<live, leaked, ss, lookups, opm, conns, ended, klines>>

-----------------------------------------------------------------------------
Init ==
  /\ live = {} /\ leaked = {}
  /\ ss = [a \in Addr |-> Freed]
  /\ lookups = {} /\ opm = {} /\ conns = {} /\ ended = {}
  /\ cached = {}
  /\ klines = [a \in Addr |-> 0]

\* libopm's reports on one connection.
libopm_report(a, sc, p) ==
  \/ scan_open_proxy(a, sc, p)
  \/ scan_negotiation_failed(a, sc, p)
  \/ scan_timeout(a, sc, p)
  \/ scan_handle_error(a, sc, p)

Next ==
  \/ \E a \in Addr, ip \in IPs : scan_connect(a, ip) \/ scan_manual(a, ip)
  \/ \E a \in Addr : scan_manual_unresolved(a)
  \/ \E a \in Addr, bl \in Blacklists : dnsbl_result(a, bl)
  \/ \E a \in Addr, sc \in Scanners, p \in Protocols : libopm_report(a, sc, p)
  \/ \E a \in Addr, sc \in Scanners : scan_end(a, sc)
  \/ \E ip \in IPs : negcache_expire(ip)

Spec == Init /\ [][Next]_vars

-----------------------------------------------------------------------------
(***************************************************************************)
(* Properties                                                              *)
(***************************************************************************)

\* Every variable has its type.  (ss->scans is in the range of an unsigned short
\* by its arithmetic; that it does not wrap is part of ScansCounted.)
TypeOK ==
  /\ live \subseteq Addr
  /\ leaked \subseteq live
  /\ ss \in [Addr -> scan_struct]
  /\ lookups \subseteq Addr \X Blacklists
  /\ opm \subseteq Addr \X Scanners
  /\ conns \subseteq Addr \X Scanners \X Protocols
  /\ ended \subseteq opm
  /\ cached \subseteq IPs
  /\ klines \in [Addr -> Nat]

\* The reference count is exact: ss->scans is the number of lookups and scans
\* still outstanding for the scan_struct, whatever failed when they were
\* started and in whatever order their callbacks come.
ScansCounted ==
  \A a \in live : ss[a].scans = Cardinality(LookupsOf(a)) + Cardinality(OpmOf(a))

\* scan_free "should only be done if the scan struct has no scans left": no
\* lookup and no scan still to call back refers to a freed scan_struct, and no
\* connection outlives the scan it belongs to.
NoDangling ==
  /\ \A x \in lookups : x[1] \in live
  /\ \A x \in opm : x[1] \in live
  /\ \A x \in conns : <<x[1], x[2]>> \in opm

\* A scan_struct stays allocated with no callback to come that would free it if
\* and only if it is one that scan_manual lost when its host did not resolve.
LeakedIffIdle ==
  \A a \in live : LookupsOf(a) = {} /\ OpmOf(a) = {} <=> a \in leaked

\* A client is KLINEd at most once per connection however many tests find it
\* positive, and never on an operator's CHECK; ss->positive says which.
KlineOnce ==
  \A a \in live : /\ klines[a] = (IF ss[a].positive THEN 1 ELSE 0)
                  /\ ss[a].manual => ~ ss[a].positive

\* "Close all scans prematurely" (scan_positive): once a blacklist or a proxy has
\* made a client positive, opm_end has been called on every scan libopm still
\* holds for it, and on no scan of an address's later or other clients.
PositiveEndsScans ==
  \A a \in live : \A sc \in OpmOf(a) : <<a, sc>> \in ended <=> ss[a].positive

\* The negative cache gains exactly the addresses of finished connection scans
\* on whose behalf no KLINE was sent, by the last callback included.
CachedIffClean ==
  [][ /\ \A a \in live \ live' :
           cached' = IF NegCacheOn /\ ~ ss[a].manual /\ klines'[a] = 0
                     THEN cached \cup {ss[a].ip} ELSE cached
      /\ live \subseteq live' => cached' \subseteq cached ]_vars
=============================================================================
