----------------------------- MODULE ScanProofs -----------------------------
(***************************************************************************)
(* The safety properties of Scan, for every set of blacklists, scanners,   *)
(* addresses and clients.  The inductive invariant is ScanInv: the exact   *)
(* reference count needs NoDangling (an address just allocated has no      *)
(* lookups left over), and NoDangling needs the exact count (the last      *)
(* callback is the one that finds the count at one).                       *)
(***************************************************************************)
EXTENDS Scan, FiniteSetTheorems, TLAPS

ScanInv ==
  /\ TypeOK
  /\ ScansCounted
  /\ NoDangling
  /\ LeakedIffIdle
  /\ KlineOnce
  /\ PositiveEndsScans

\* What remains outstanding for the scan_struct at a.
Outstanding(a) == Cardinality(LookupsOf(a)) + Cardinality(OpmOf(a))

-----------------------------------------------------------------------------
(* Counting *)

\* All the proofs need of the width of ss->scans.
LEMMA WordSize == USHRT \in Nat /\ USHRT > 1
BY DEF USHRT

\* The lookups and scans of one scan_struct are finite sets, no larger than
\* the configuration.
LEMMA OutstandingFinite ==
  ASSUME NEW a
  PROVE  /\ IsFiniteSet(LookupsOf(a)) /\ IsFiniteSet(OpmOf(a))
         /\ Cardinality(LookupsOf(a)) \in Nat /\ Cardinality(OpmOf(a)) \in Nat
         /\ Outstanding(a) \in 0..(USHRT - 1)
         /\ Outstanding(a) = 0 <=> LookupsOf(a) = {} /\ OpmOf(a) = {}
<1>1. /\ LookupsOf(a) \subseteq Blacklists
      /\ OpmOf(a) \subseteq Scanners
  BY DEF LookupsOf, OpmOf
<1>2. /\ IsFiniteSet(LookupsOf(a))
      /\ Cardinality(LookupsOf(a)) <= Cardinality(Blacklists)
  BY <1>1, FS_Subset, ScanConfig DEF ScanConfig
<1>3. /\ IsFiniteSet(OpmOf(a))
      /\ Cardinality(OpmOf(a)) <= Cardinality(Scanners)
  BY <1>1, FS_Subset, ScanConfig DEF ScanConfig
<1>4. /\ Cardinality(LookupsOf(a)) \in Nat /\ Cardinality(OpmOf(a)) \in Nat
      /\ Cardinality(Blacklists) \in Nat /\ Cardinality(Scanners) \in Nat
  BY <1>2, <1>3, FS_CardinalityType, ScanConfig DEF ScanConfig
<1>5. /\ Cardinality(LookupsOf(a)) = 0 <=> LookupsOf(a) = {}
      /\ Cardinality(OpmOf(a)) = 0 <=> OpmOf(a) = {}
  BY <1>2, <1>3, FS_EmptySet
<1>. QED
  BY <1>2, <1>3, <1>4, <1>5, ScansFit, WordSize DEF Outstanding, ScansFit

\* ss->scans-- does not wrap while something is outstanding.
LEMMA DecrementedIs ==
  ASSUME NEW a, ss[a].scans \in 1..(USHRT - 1)
  PROVE  Decremented(a) = ss[a].scans - 1
<1>1. \A U \in Nat : \A x \in 1..(U - 1) : U > 1 => (x + (U - 1)) % U = x - 1
  OBVIOUS
<1>. QED
  BY <1>1, WordSize DEF Decremented

\* A callback for one lookup or scan of a leaves one less outstanding for a and
\* the same for every other scan_struct.
LEMMA LookupDone ==
  ASSUME NEW a, NEW bl \in Blacklists, <<a, bl>> \in lookups,
         lookups' = lookups \ {<<a, bl>>}, opm' = opm
  PROVE  /\ Outstanding(a)' = Outstanding(a) - 1
         /\ Outstanding(a) # 0
         /\ \A b : b # a => LookupsOf(b)' = LookupsOf(b)
         /\ \A b : OpmOf(b)' = OpmOf(b)
<1>1. /\ LookupsOf(a)' = LookupsOf(a) \ {bl}
      /\ bl \in LookupsOf(a)
  BY DEF LookupsOf
<1>2. Cardinality(LookupsOf(a)') = Cardinality(LookupsOf(a)) - 1
  BY <1>1, FS_RemoveElement, OutstandingFinite
<1>3. \A b : b # a => LookupsOf(b)' = LookupsOf(b)
  BY DEF LookupsOf
<1>4. \A b : OpmOf(b)' = OpmOf(b)
  BY DEF OpmOf
<1>5. Cardinality(OpmOf(a)') = Cardinality(OpmOf(a))
  BY <1>4
<1>6. Outstanding(a) # 0
  BY <1>1, OutstandingFinite
<1>7. Outstanding(a)' = Cardinality(LookupsOf(a)') + Cardinality(OpmOf(a)')
  BY DEF Outstanding
<1>. QED
  BY <1>2, <1>3, <1>4, <1>5, <1>6, <1>7, OutstandingFinite DEF Outstanding

LEMMA ScanDone ==
  ASSUME NEW a, NEW sc \in Scanners, <<a, sc>> \in opm,
         opm' = opm \ {<<a, sc>>}, lookups' = lookups
  PROVE  /\ Outstanding(a)' = Outstanding(a) - 1
         /\ Outstanding(a) # 0
         /\ \A b : LookupsOf(b)' = LookupsOf(b)
         /\ \A b : b # a => OpmOf(b)' = OpmOf(b)
<1>1. /\ OpmOf(a)' = OpmOf(a) \ {sc}
      /\ sc \in OpmOf(a)
  BY DEF OpmOf
<1>2. Cardinality(OpmOf(a)') = Cardinality(OpmOf(a)) - 1
  BY <1>1, FS_RemoveElement, OutstandingFinite
<1>3. \A b : b # a => OpmOf(b)' = OpmOf(b)
  BY DEF OpmOf
<1>4. \A b : LookupsOf(b)' = LookupsOf(b)
  BY DEF LookupsOf
<1>5. Cardinality(LookupsOf(a)') = Cardinality(LookupsOf(a))
  BY <1>4
<1>6. Outstanding(a) # 0
  BY <1>1, OutstandingFinite
<1>7. Outstanding(a)' = Cardinality(LookupsOf(a)') + Cardinality(OpmOf(a)')
  BY DEF Outstanding
<1>. QED
  BY <1>2, <1>3, <1>4, <1>5, <1>6, <1>7, OutstandingFinite DEF Outstanding

-----------------------------------------------------------------------------
(* Completion *)

\* What a freed scan_struct is taken to hold has the type of a scan_struct.
LEMMA FreedType == Freed \in scan_struct
<1>1. (CHOOSE i \in IPs : TRUE) \in IPs
  BY ScanConfig DEF ScanConfig
<1>. QED
  BY <1>1, WordSize DEF Freed, scan_struct

\* The step every completion handler ends with: one less is outstanding for a,
\* and scan_checkfinished frees it exactly when that was the last.
LEMMA FinishStep ==
  ASSUME ScanInv, NEW a \in live, NEW s \in scan_struct,
         scan_checkfinished(a, s), leaked' = leaked,
         Outstanding(a)' = Outstanding(a) - 1,
         Outstanding(a) # 0,
         \A b : b # a => LookupsOf(b)' = LookupsOf(b) /\ OpmOf(b)' = OpmOf(b)
  PROVE  /\ live \ {a} \subseteq live' /\ live' \subseteq live
         /\ leaked \subseteq live'
         /\ a \notin live' => LookupsOf(a)' = {} /\ OpmOf(a)' = {}
         /\ ss' \in [Addr -> scan_struct]
         /\ \A b \in live' : b # a => ss'[b] = ss[b]
         /\ a \in live' => ss'[a].positive = s.positive /\ ss'[a].manual = s.manual
         /\ cached' \subseteq IPs
         /\ ScansCounted'
         /\ LeakedIffIdle'
<1>. USE DEF ScanInv
<1>1. /\ a \in Addr /\ live \subseteq Addr
      /\ ss \in [Addr -> scan_struct]
      /\ cached \subseteq IPs
  BY DEF TypeOK
<1>0. leaked \subseteq live \ {a}
  BY OutstandingFinite DEF LeakedIffIdle, TypeOK
<1>2. ss[a].scans = Outstanding(a)
  BY DEF ScansCounted, Outstanding
<1>3. Outstanding(a) \in 1..(USHRT - 1)
  BY OutstandingFinite, WordSize
<1>4. Decremented(a) = Outstanding(a)'
  BY <1>2, <1>3, DecrementedIs, WordSize
<1>5. Outstanding(a)' \in 0..(USHRT - 1)
  BY <1>3, WordSize
<1>6. /\ Outstanding(a)' = Cardinality(LookupsOf(a)') + Cardinality(OpmOf(a)')
      /\ Outstanding(a)' = 0 <=> LookupsOf(a)' = {} /\ OpmOf(a)' = {}
  <2>1. /\ LookupsOf(a)' \subseteq Blacklists
        /\ OpmOf(a)' \subseteq Scanners
    BY DEF LookupsOf, OpmOf
  <2>2. /\ IsFiniteSet(LookupsOf(a)') /\ IsFiniteSet(OpmOf(a)')
    BY <2>1, FS_Subset, ScanConfig DEF ScanConfig
  <2>3. /\ Cardinality(LookupsOf(a)') \in Nat /\ Cardinality(OpmOf(a)') \in Nat
        /\ Cardinality(LookupsOf(a)') = 0 <=> LookupsOf(a)' = {}
        /\ Cardinality(OpmOf(a)') = 0 <=> OpmOf(a)' = {}
    BY <2>2, FS_CardinalityType, FS_EmptySet
  <2>. QED
    BY <2>3 DEF Outstanding
<1>7. CASE Decremented(a) = 0
  <2>1. /\ live' = live \ {a}
        /\ ss' = [ss EXCEPT ![a] = Freed]
        /\ cached' \subseteq IPs
    BY <1>1, <1>7 DEF scan_checkfinished, scan_negative, scan_struct
  <2>2. LookupsOf(a)' = {} /\ OpmOf(a)' = {}
    BY <1>4, <1>6, <1>7
  <2>3. ss' \in [Addr -> scan_struct] /\ \A b \in live' : ss'[b] = ss[b]
    BY <1>1, <2>1, FreedType
  <2>4. ScansCounted'
    BY <1>1, <2>1, <2>3 DEF ScansCounted
  <2>5. LeakedIffIdle'
    BY <2>1 DEF LeakedIffIdle
  <2>. QED
    BY <1>0, <2>1, <2>2, <2>3, <2>4, <2>5
<1>8. CASE Decremented(a) # 0
  <2>1. /\ live' = live
        /\ ss' = [ss EXCEPT ![a] = [s EXCEPT !.scans = Decremented(a)]]
        /\ cached' = cached
    BY <1>8 DEF scan_checkfinished
  <2>2. [s EXCEPT !.scans = Decremented(a)] \in scan_struct
    BY <1>4, <1>5 DEF scan_struct
  <2>3. /\ ss' \in [Addr -> scan_struct]
        /\ \A b \in live' : b # a => ss'[b] = ss[b]
        /\ ss'[a].scans = Outstanding(a)'
        /\ ss'[a].positive = s.positive /\ ss'[a].manual = s.manual
    BY <1>1, <1>4, <2>1, <2>2 DEF scan_struct
  <2>4. ScansCounted'
    BY <1>6, <2>1, <2>3 DEF ScansCounted
  <2>5. LeakedIffIdle'
    BY <1>0, <1>4, <1>6, <1>8, <2>1 DEF LeakedIffIdle
  <2>. QED
    BY <1>0, <1>1, <2>1, <2>3, <2>4, <2>5
<1>. QED
  BY <1>7, <1>8

-----------------------------------------------------------------------------
(* Every step preserves the invariant *)

\* Any dnsbl_result: s holds the fields after dnsbl_positive.
LEMMA LookupStep ==
  ASSUME ScanInv, NEW a \in Addr, NEW bl \in Blacklists, NEW s \in scan_struct,
         <<a, bl>> \in lookups,
         lookups' = lookups \ {<<a, bl>>},
         scan_checkfinished(a, s),
         s.manual = ss[a].manual,
         \/ s.positive = ss[a].positive /\ UNCHANGED <<klines, ended>>
         \/ /\ s.positive /\ ~ s.manual
            /\ ~ ss[a].positive
            /\ scan_positive(a),
         UNCHANGED <<leaked, opm, conns>>
  PROVE  ScanInv'
<1>. USE DEF ScanInv
<1>1. a \in live
  BY DEF NoDangling
<1>2. /\ Outstanding(a)' = Outstanding(a) - 1
      /\ Outstanding(a) # 0
      /\ \A b : b # a => LookupsOf(b)' = LookupsOf(b) /\ OpmOf(b)' = OpmOf(b)
  BY LookupDone
<1>3. /\ live \ {a} \subseteq live' /\ live' \subseteq live
      /\ leaked \subseteq live'
      /\ a \notin live' => LookupsOf(a)' = {} /\ OpmOf(a)' = {}
      /\ ss' \in [Addr -> scan_struct]
      /\ \A b \in live' : b # a => ss'[b] = ss[b]
      /\ a \in live' => ss'[a].positive = s.positive /\ ss'[a].manual = s.manual
      /\ cached' \subseteq IPs
      /\ ScansCounted'
      /\ LeakedIffIdle'
  BY <1>1, <1>2, FinishStep
<1>4. TypeOK'
  BY <1>3 DEF TypeOK, scan_positive, scan_irckline
<1>5. NoDangling'
  <2>1. ASSUME NEW x \in lookups'
        PROVE  x[1] \in live'
    <3>1. x \in Addr \X Blacklists /\ x \in lookups
      BY DEF TypeOK
    <3>2. CASE x[1] = a
      BY <1>3, <3>1, <3>2 DEF LookupsOf
    <3>. QED
      BY <1>3, <3>1, <3>2 DEF NoDangling
  <2>2. ASSUME NEW x \in opm'
        PROVE  x[1] \in live'
    <3>1. x \in Addr \X Scanners /\ x \in opm
      BY DEF TypeOK
    <3>2. CASE x[1] = a
      BY <1>3, <3>1, <3>2 DEF OpmOf
    <3>. QED
      BY <1>3, <3>1, <3>2 DEF NoDangling
  <2>. QED
    BY <2>1, <2>2 DEF NoDangling
<1>6. KlineOnce'
  <2>1. ASSUME NEW b \in live'
        PROVE  /\ klines'[b] = (IF ss'[b].positive THEN 1 ELSE 0)
               /\ ss'[b].manual => ~ ss'[b].positive
    <3>0. b \in live /\ b \in Addr /\ klines \in [Addr -> Nat]
      BY <1>3 DEF TypeOK
    <3>1. CASE b # a
      BY <1>3, <3>0, <3>1 DEF KlineOnce, scan_positive, scan_irckline
    <3>2. CASE b = a
      BY <1>3, <3>0, <3>2 DEF KlineOnce, scan_positive, scan_irckline
    <3>. QED
      BY <3>1, <3>2
  <2>. QED
    BY <2>1 DEF KlineOnce
<1>7. PositiveEndsScans'
  <2>1. ASSUME NEW b \in live', NEW sc \in OpmOf(b)'
        PROVE  <<b, sc>> \in ended' <=> ss'[b].positive
    <3>0. b \in live /\ sc \in OpmOf(b) /\ <<b, sc>> \in opm
      BY <1>3 DEF OpmOf
    <3>1. CASE b # a
      BY <1>3, <3>0, <3>1 DEF PositiveEndsScans, scan_positive, scan_irckline
    <3>2. CASE b = a
      BY <1>3, <3>0, <3>2 DEF PositiveEndsScans, scan_positive, scan_irckline
    <3>. QED
      BY <3>1, <3>2
  <2>. QED
    BY <2>1 DEF PositiveEndsScans
<1>. QED
  BY <1>3, <1>4, <1>5, <1>6, <1>7

\* dnsbl_result, whatever the answer.
LEMMA DnsblStep ==
  ASSUME ScanInv, NEW a \in Addr, NEW bl \in Blacklists, dnsbl_result(a, bl)
  PROVE  ScanInv'
<1>1. /\ ss[a] \in scan_struct
      /\ [ss[a] EXCEPT !.positive = TRUE] \in scan_struct
      /\ [ss[a] EXCEPT !.positive = TRUE].positive = TRUE
      /\ [ss[a] EXCEPT !.positive = TRUE].manual = ss[a].manual
  BY DEF ScanInv, TypeOK, scan_struct
<1>2. ASSUME NEW known \in BOOLEAN, dnsbl_result_listed(a, bl, known)
      PROVE  ScanInv'
  <2>1. CASE dnsbl_positive(a, known)
    BY <1>1, <1>2, <2>1, LookupStep DEF dnsbl_result_listed, dnsbl_positive
  <2>2. CASE ~ dnsbl_positive(a, known)
    BY <1>1, <1>2, <2>2, LookupStep DEF dnsbl_result_listed
  <2>. QED
    BY <2>1, <2>2
<1>3. CASE dnsbl_result_clean(a, bl)
  BY <1>1, <1>3, LookupStep DEF dnsbl_result_clean
<1>4. CASE dnsbl_result_error(a, bl)
  BY <1>1, <1>4, LookupStep DEF dnsbl_result_error
<1>. QED
  BY <1>2, <1>3, <1>4 DEF dnsbl_result

\* scan_end: libopm is done with one scan.
LEMMA EndStep ==
  ASSUME ScanInv, NEW a \in Addr, NEW sc \in Scanners, scan_end(a, sc)
  PROVE  ScanInv'
<1>. USE DEF ScanInv
<1>1. /\ a \in live /\ ss[a] \in scan_struct
      /\ <<a, sc>> \in opm
      /\ opm' = opm \ {<<a, sc>>}
      /\ ended' = ended \ {<<a, sc>>}
      /\ conns' = {c \in conns : <<c[1], c[2]>> # <<a, sc>>}
      /\ lookups' = lookups /\ klines' = klines
      /\ leaked' = leaked
      /\ scan_checkfinished(a, ss[a])
  BY DEF scan_end, NoDangling, TypeOK
<1>2. /\ Outstanding(a)' = Outstanding(a) - 1
      /\ Outstanding(a) # 0
      /\ \A b : b # a => LookupsOf(b)' = LookupsOf(b) /\ OpmOf(b)' = OpmOf(b)
  BY <1>1, ScanDone
<1>3. /\ live \ {a} \subseteq live' /\ live' \subseteq live
      /\ leaked \subseteq live'
      /\ a \notin live' => LookupsOf(a)' = {} /\ OpmOf(a)' = {}
      /\ ss' \in [Addr -> scan_struct]
      /\ \A b \in live' : b # a => ss'[b] = ss[b]
      /\ a \in live' => ss'[a].positive = ss[a].positive /\ ss'[a].manual = ss[a].manual
      /\ cached' \subseteq IPs
      /\ ScansCounted'
      /\ LeakedIffIdle'
  BY <1>1, <1>2, FinishStep
<1>4. TypeOK'
  BY <1>1, <1>3 DEF TypeOK
<1>5. NoDangling'
  <2>1. ASSUME NEW x \in lookups'
        PROVE  x[1] \in live'
    <3>1. x \in Addr \X Blacklists /\ x \in lookups
      BY <1>1 DEF TypeOK
    <3>2. CASE x[1] = a
      BY <1>1, <1>3, <3>1, <3>2 DEF LookupsOf
    <3>. QED
      BY <1>3, <3>1, <3>2 DEF NoDangling
  <2>2. ASSUME NEW x \in opm'
        PROVE  x[1] \in live'
    <3>1. x \in Addr \X Scanners /\ x \in opm
      BY <1>1 DEF TypeOK
    <3>2. CASE x[1] = a
      BY <1>1, <1>3, <3>1, <3>2 DEF OpmOf
    <3>. QED
      BY <1>3, <3>1, <3>2 DEF NoDangling
  <2>. QED
    BY <1>1, <2>1, <2>2 DEF NoDangling
<1>6. KlineOnce'
  BY <1>1, <1>3 DEF KlineOnce
<1>7. PositiveEndsScans'
  <2>1. ASSUME NEW b \in live', NEW c \in OpmOf(b)'
        PROVE  <<b, c>> \in ended' <=> ss'[b].positive
    <3>0. b \in live /\ c \in OpmOf(b) /\ <<b, c>> # <<a, sc>>
      BY <1>1, <1>3 DEF OpmOf
    <3>. QED
      BY <1>1, <1>3, <3>0 DEF PositiveEndsScans
  <2>. QED
    BY <2>1 DEF PositiveEndsScans
<1>. QED
  BY <1>3, <1>4, <1>5, <1>6, <1>7

\* A report on one connection changes at most what scan_positive does.
LEMMA ReportStep ==
  ASSUME ScanInv, NEW a \in Addr, NEW sc \in Scanners, NEW p \in Protocols,
         libopm_report(a, sc, p)
  PROVE  ScanInv'
<1>. USE DEF ScanInv
<1>1. ASSUME ss' = ss, klines' = klines, ended' = ended,
             Report(a, sc, p), UNCHANGED <<live, leaked, lookups, opm, cached>>
      PROVE  ScanInv'
  <2>1. /\ \A b : LookupsOf(b)' = LookupsOf(b)
        /\ \A b : OpmOf(b)' = OpmOf(b)
    BY <1>1 DEF LookupsOf, OpmOf
  <2>2. TypeOK'
    BY <1>1 DEF TypeOK, Report
  <2>3. NoDangling'
    BY <1>1 DEF NoDangling, Report
  <2>. QED
    BY <1>1, <2>1, <2>2, <2>3
    DEF ScansCounted, LeakedIffIdle, KlineOnce, PositiveEndsScans
<1>2. CASE scan_open_proxy(a, sc, p)
  <2>1. CASE ss[a].manual
    BY <1>1, <1>2, <2>1 DEF scan_open_proxy, TypeOK
  <2>2. CASE ~ ss[a].manual
    <3>1. /\ ss' = [ss EXCEPT ![a].positive = TRUE]
          /\ scan_positive(a)
          /\ <<a, sc, p>> \in conns
          /\ conns' = conns \ {<<a, sc, p>>}
          /\ UNCHANGED <<live, leaked, lookups, opm, cached>>
      BY <1>2, <2>2 DEF scan_open_proxy, Report
    <3>2. /\ \A b : LookupsOf(b)' = LookupsOf(b)
          /\ \A b : OpmOf(b)' = OpmOf(b)
      BY <3>1 DEF LookupsOf, OpmOf
    <3>3. a \in live /\ live \subseteq Addr
      BY <3>1 DEF NoDangling, TypeOK
    <3>4. /\ ss \in [Addr -> scan_struct]
          /\ ss' \in [Addr -> scan_struct]
          /\ ss'[a].positive = TRUE /\ ss'[a].manual = FALSE
          /\ ss'[a].scans = ss[a].scans
          /\ \A b \in Addr : b # a => ss'[b] = ss[b]
      BY <2>2, <3>1 DEF TypeOK, scan_struct
    <3>5. TypeOK'
      BY <3>1, <3>4 DEF TypeOK, scan_positive, scan_irckline
    <3>6. ScansCounted' /\ LeakedIffIdle'
      BY <3>1, <3>2, <3>3, <3>4 DEF ScansCounted, LeakedIffIdle
    <3>7. NoDangling'
      BY <3>1 DEF NoDangling
    <3>8. KlineOnce'
      BY <2>2, <3>1, <3>3, <3>4 DEF KlineOnce, scan_positive, scan_irckline, TypeOK
    <3>9. PositiveEndsScans'
      <4>1. ASSUME NEW b \in live', NEW c \in OpmOf(b)'
            PROVE  <<b, c>> \in ended' <=> ss'[b].positive
        <5>1. b \in live /\ c \in OpmOf(b) /\ <<b, c>> \in opm
          BY <3>1, <3>2 DEF OpmOf
        <5>2. CASE b = a
          BY <3>1, <3>4, <5>1, <5>2 DEF PositiveEndsScans, scan_positive, scan_irckline
        <5>3. CASE b # a
          BY <3>1, <3>3, <3>4, <5>1, <5>3 DEF PositiveEndsScans, scan_positive, scan_irckline
        <5>. QED
          BY <5>2, <5>3
      <4>. QED
        BY <4>1 DEF PositiveEndsScans
    <3>. QED
      BY <3>5, <3>6, <3>7, <3>8, <3>9
  <2>. QED
    BY <2>1, <2>2
<1>3. CASE scan_negotiation_failed(a, sc, p)
  BY <1>1, <1>3 DEF scan_negotiation_failed, TypeOK
<1>4. CASE scan_timeout(a, sc, p)
  BY <1>1, <1>4 DEF scan_timeout, TypeOK
<1>5. CASE scan_handle_error(a, sc, p)
  BY <1>1, <1>5 DEF scan_handle_error, TypeOK
<1>. QED
  BY <1>2, <1>3, <1>4, <1>5 DEF libopm_report

\* scan_connect and scan_manual: whatever part of the tests could be started.
LEMMA StartStep ==
  ASSUME ScanInv, NEW a \in Addr, NEW ip \in IPs, NEW manual \in BOOLEAN,
         NEW sent \in SUBSET Blacklists,
         NEW accepted \in SUBSET Scanners,
         Start(a, ip, manual, sent, accepted)
  PROVE  ScanInv'
<1>. USE DEF ScanInv
<1> DEFINE n == (Cardinality(sent) + Cardinality(accepted)) % USHRT
<1>1. /\ a \notin live
      /\ lookups' = lookups \cup ({a} \X sent)
      /\ opm' = opm \cup ({a} \X accepted)
      /\ conns' = conns \cup {c \in {a} \X accepted \X Protocols :
                                c[3] \in ProtocolsOf[c[2]]}
      /\ klines' = [klines EXCEPT ![a] = 0]
      /\ UNCHANGED <<leaked, ended, cached>>
      /\ n = 0 => UNCHANGED <<live, ss>>
      /\ n # 0 => /\ live' = live \cup {a}
                  /\ ss' = [ss EXCEPT ![a] = [ip |-> ip, scans |-> n,
                               positive |-> FALSE, manual |-> manual]]
  BY DEF Start, TypeOK
<1>2. /\ LookupsOf(a)' = sent
      /\ OpmOf(a)' = accepted
      /\ \A b : b # a => LookupsOf(b)' = LookupsOf(b) /\ OpmOf(b)' = OpmOf(b)
  BY <1>1 DEF LookupsOf, OpmOf, NoDangling
<1>3. /\ IsFiniteSet(sent) /\ Cardinality(sent) \in Nat
      /\ Cardinality(sent) <= Cardinality(Blacklists)
      /\ IsFiniteSet(accepted) /\ Cardinality(accepted) \in Nat
      /\ Cardinality(accepted) <= Cardinality(Scanners)
      /\ Cardinality(Blacklists) \in Nat /\ Cardinality(Scanners) \in Nat
  BY FS_Subset, FS_CardinalityType, ScanConfig DEF ScanConfig
<1>4. /\ n = Cardinality(sent) + Cardinality(accepted)
      /\ n \in 0..(USHRT - 1)
  <2>1. \A x, U \in Nat : x < U => x % U = x
    OBVIOUS
  <2>. QED
    BY <1>3, <2>1, ScansFit, WordSize DEF ScansFit
<1>5. n = 0 <=> sent = {} /\ accepted = {}
  <2>1. /\ Cardinality(sent) = 0 <=> sent = {}
        /\ Cardinality(accepted) = 0 <=> accepted = {}
    BY <1>3, FS_EmptySet
  <2>. QED
    BY <1>3, <1>4, <2>1
<1>6. CASE n = 0
  <2>1. UNCHANGED <<live, ss, lookups, opm, conns>>
    BY <1>1, <1>5, <1>6
  <2>2. \A b \in live : LookupsOf(b)' = LookupsOf(b) /\ OpmOf(b)' = OpmOf(b)
    BY <1>1, <1>2
  <2>3. TypeOK'
    BY <1>1, <2>1 DEF TypeOK
  <2>4. KlineOnce'
    BY <1>1, <2>1 DEF KlineOnce, TypeOK
  <2>. QED
    BY <1>1, <2>1, <2>2, <2>3, <2>4
    DEF ScansCounted, NoDangling, LeakedIffIdle, PositiveEndsScans
<1>7. CASE n # 0
  <2> DEFINE s == [ip |-> ip, scans |-> n, positive |-> FALSE, manual |-> manual]
  <2>1. live' = live \cup {a} /\ ss' = [ss EXCEPT ![a] = s]
    BY <1>1, <1>7
  <2>2. s \in scan_struct
    BY <1>4 DEF scan_struct
  <2>3. /\ ss' \in [Addr -> scan_struct]
        /\ ss'[a] = s
        /\ \A b \in live : ss'[b] = ss[b] /\ b # a
    BY <1>1, <2>1, <2>2 DEF TypeOK
  <2>4. TypeOK'
    BY <1>1, <2>1, <2>3 DEF TypeOK
  <2>5. ScansCounted'
    <3>1. ss'[a].scans = Cardinality(LookupsOf(a)') + Cardinality(OpmOf(a)')
      BY <1>2, <1>4, <2>3
    <3>. QED
      BY <1>2, <2>1, <2>3, <3>1 DEF ScansCounted
  <2>6. NoDangling'
    BY <1>1, <2>1 DEF NoDangling
  <2>7. LeakedIffIdle'
    <3>1. a \notin leaked /\ leaked' = leaked
      BY <1>1 DEF TypeOK
    <3>. QED
      BY <1>2, <1>5, <1>7, <2>1, <2>3, <3>1 DEF LeakedIffIdle
  <2>8. KlineOnce'
    <3>1. klines'[a] = 0 /\ \A b \in live : klines'[b] = klines[b]
      BY <1>1 DEF TypeOK
    <3>2. ~ ss'[a].positive
      BY <2>3
    <3>. QED
      BY <2>1, <2>3, <3>1, <3>2 DEF KlineOnce
  <2>9. PositiveEndsScans'
    <3>1. \A sc : <<a, sc>> \notin ended'
      BY <1>1 DEF TypeOK, NoDangling
    <3>2. ~ ss'[a].positive
      BY <2>3
    <3>3. ASSUME NEW b \in live', NEW sc \in OpmOf(b)'
          PROVE  <<b, sc>> \in ended' <=> ss'[b].positive
      <4>1. CASE b = a
        BY <3>1, <3>2, <4>1
      <4>2. CASE b # a
        <5>1. b \in live /\ sc \in OpmOf(b)
          BY <1>2, <2>1, <3>3, <4>2
        <5>. QED
          BY <1>1, <2>3, <5>1 DEF PositiveEndsScans
      <4>. QED
        BY <4>1, <4>2
    <3>. QED
      BY <3>3 DEF PositiveEndsScans
  <2>. QED
    BY <2>4, <2>5, <2>6, <2>7, <2>8, <2>9
<1>. QED
  BY <1>6, <1>7

\* scan_manual, host not resolved: a scan_struct that nothing refers to.
LEMMA UnresolvedStep ==
  ASSUME ScanInv, NEW a \in Addr, scan_manual_unresolved(a)
  PROVE  ScanInv'
<1>. USE DEF ScanInv
<1>1. /\ a \notin live
      /\ live' = live \cup {a} /\ leaked' = leaked \cup {a}
      /\ ss' = [ss EXCEPT ![a] = Freed] /\ klines' = [klines EXCEPT ![a] = 0]
      /\ UNCHANGED <<lookups, opm, conns, ended, cached>>
  BY DEF scan_manual_unresolved
<1>2. /\ LookupsOf(a)' = {} /\ OpmOf(a)' = {}
      /\ \A b : LookupsOf(b)' = LookupsOf(b) /\ OpmOf(b)' = OpmOf(b)
  BY <1>1 DEF LookupsOf, OpmOf, NoDangling
<1>3. /\ ss' \in [Addr -> scan_struct] /\ klines' \in [Addr -> Nat]
      /\ ss'[a] = Freed /\ klines'[a] = 0
      /\ \A b \in live : ss'[b] = ss[b] /\ klines'[b] = klines[b] /\ b # a
  BY <1>1, FreedType DEF TypeOK
<1>4. Freed.scans = 0 /\ ~ Freed.positive
  BY DEF Freed
<1>5. TypeOK'
  BY <1>1, <1>3 DEF TypeOK
<1>6. ScansCounted'
  <2>1. ss'[a].scans = Cardinality(LookupsOf(a)') + Cardinality(OpmOf(a)')
    BY <1>2, <1>3, <1>4, FS_EmptySet
  <2>. QED
    BY <1>1, <1>2, <1>3, <2>1 DEF ScansCounted
<1>7. NoDangling'
  BY <1>1 DEF NoDangling
<1>8. LeakedIffIdle'
  BY <1>1, <1>2 DEF LeakedIffIdle
<1>9. KlineOnce'
  BY <1>1, <1>3, <1>4 DEF KlineOnce
<1>10. PositiveEndsScans'
  BY <1>1, <1>2, <1>3 DEF PositiveEndsScans
<1>. QED
  BY <1>5, <1>6, <1>7, <1>8, <1>9, <1>10

-----------------------------------------------------------------------------
(* The invariant, and what follows from it *)

LEMMA ScanInvInit == Init => ScanInv
<1>1. Init => TypeOK
  BY FreedType, ScanConfig DEF Init, TypeOK, ScanConfig
<1>. QED
  BY <1>1 DEF Init, ScanInv, ScansCounted, NoDangling, LeakedIffIdle, KlineOnce,
              PositiveEndsScans

LEMMA ScanInvNext == ScanInv /\ [Next]_vars => ScanInv'
<1>. SUFFICES ASSUME ScanInv, [Next]_vars PROVE ScanInv'
  OBVIOUS
<1>1. ASSUME NEW a \in Addr, NEW ip \in IPs, scan_connect(a, ip)
      PROVE  ScanInv'
  BY <1>1, StartStep DEF scan_connect, dnsbl_add, opm_scan, WithProtocols
<1>2. ASSUME NEW a \in Addr, NEW ip \in IPs, scan_manual(a, ip)
      PROVE  ScanInv'
  BY <1>2, StartStep DEF scan_manual, dnsbl_add, opm_scan, WithProtocols
<1>3. ASSUME UNCHANGED <<live, leaked, ss, lookups, opm, conns, ended, klines>>,
             cached' \subseteq IPs
      PROVE  ScanInv'
  <2>1. \A b : LookupsOf(b)' = LookupsOf(b) /\ OpmOf(b)' = OpmOf(b)
    BY <1>3 DEF LookupsOf, OpmOf
  <2>2. TypeOK'
    BY <1>3 DEF ScanInv, TypeOK
  <2>. QED
    BY <1>3, <2>1, <2>2 DEF ScanInv, ScansCounted, NoDangling, LeakedIffIdle, KlineOnce,
                            PositiveEndsScans
<1>4. ASSUME NEW a \in Addr, scan_manual_unresolved(a)
      PROVE  ScanInv'
  BY <1>4, UnresolvedStep
<1>5. ASSUME NEW ip \in IPs, negcache_expire(ip)
      PROVE  ScanInv'
  BY <1>3, <1>5 DEF negcache_expire, ScanInv, TypeOK
<1>6. CASE UNCHANGED vars
  BY <1>3, <1>6 DEF vars, ScanInv, TypeOK
<1>. QED
  BY <1>1, <1>2, <1>4, <1>5, <1>6, DnsblStep, ReportStep, EndStep DEF Next

\* Every behaviour of Scan satisfies its inductive invariant.
THEOREM ScanInvariant == Spec => []ScanInv
<1>. QED
  BY ScanInvInit, ScanInvNext, PTL DEF Spec

\* Every variable keeps its type, whatever the configuration.
THEOREM TypeCorrect == Spec => []TypeOK
<1>1. ScanInv => TypeOK
  BY DEF ScanInv
<1>. QED
  BY ScanInvariant, <1>1, PTL

\* The reference count of a scan_struct is the number of lookups and scans
\* outstanding in every reachable state; the unsigned short never wraps, given
\* fewer than 2^16 blacklists and scanners.
THEOREM ReferenceCounting == Spec => []ScansCounted
<1>1. ScanInv => ScansCounted
  BY DEF ScanInv
<1>. QED
  BY ScanInvariant, <1>1, PTL

\* No lookup and no scan is left with a pointer to a freed scan_struct, in
\* whatever order results, errors and ends of scans come in.
THEOREM NoUseAfterFree == Spec => []NoDangling
<1>1. ScanInv => NoDangling
  BY DEF ScanInv
<1>. QED
  BY ScanInvariant, <1>1, PTL

\* A scan_struct is freed as soon as nothing refers to it, and none stays allocated
\* with no callback to come, except those that scan_manual loses when the host of a
\* CHECK does not resolve.
THEOREM OnlyUnresolvedLeak == Spec => []LeakedIffIdle
<1>1. ScanInv => LeakedIffIdle
  BY DEF ScanInv
<1>. QED
  BY ScanInvariant, <1>1, PTL

\* At most one KLINE per connection scan and none for an operator's CHECK.
THEOREM PositiveHandling == Spec => []KlineOnce
<1>1. ScanInv => KlineOnce
  BY DEF ScanInv
<1>. QED
  BY ScanInvariant, <1>1, PTL

\* When a scan becomes positive all the scans libopm still holds for it have been
\* ended, and no others.
THEOREM PositiveScansEnded == Spec => []PositiveEndsScans
<1>1. ScanInv => PositiveEndsScans
  BY DEF ScanInv
<1>. QED
  BY ScanInvariant, <1>1, PTL

\* The negative cache gains exactly the addresses of finished connection scans
\* that led to no KLINE: scan_negative runs for those and for no other.
THEOREM NegativeCaching == Spec => CachedIffClean
<1> DEFINE Step == /\ \A a \in live \ live' :
                        cached' = IF NegCacheOn /\ ~ ss[a].manual /\ klines'[a] = 0
                                  THEN cached \cup {ss[a].ip} ELSE cached
                   /\ live \subseteq live' => cached' \subseteq cached
<1>1. ASSUME ScanInv, [Next]_vars
      PROVE  Step
  <2>1. ASSUME live \subseteq live', cached' \subseteq cached
        PROVE  Step
    BY <2>1
  <2>2. ASSUME NEW a \in live, NEW s, s.manual = ss[a].manual, s.ip = ss[a].ip,
               s.manual \/ s.positive <=> s.manual \/ klines'[a] # 0,
               scan_checkfinished(a, s)
        PROVE  Step
    <3>1. CASE Decremented(a) = 0
      BY <2>2, <3>1 DEF scan_checkfinished, scan_negative
    <3>2. CASE Decremented(a) # 0
      BY <2>2, <3>2 DEF scan_checkfinished
    <3>. QED
      BY <3>1, <3>2
  <2>3. ASSUME NEW a \in live
        PROVE  /\ ss[a] \in scan_struct /\ klines \in [Addr -> Nat] /\ a \in Addr
               /\ ss[a].positive <=> klines[a] # 0
    BY <1>1 DEF ScanInv, TypeOK, KlineOnce, scan_struct
  <2>4. ASSUME NEW a \in Addr, NEW ip \in IPs,
               scan_connect(a, ip) \/ scan_manual(a, ip)
        PROVE  Step
    BY <2>1, <2>4 DEF scan_connect, scan_manual, Start
  <2>5. ASSUME NEW a \in Addr, NEW bl \in Blacklists, dnsbl_result(a, bl)
        PROVE  Step
    <3>1. a \in live
      BY <1>1, <2>5 DEF dnsbl_result, dnsbl_result_listed, dnsbl_result_clean,
                        dnsbl_result_error, ScanInv, NoDangling
    <3>2. ASSUME NEW known \in BOOLEAN, dnsbl_result_listed(a, bl, known)
          PROVE  Step
      <4>1. CASE dnsbl_positive(a, known)
        <5>1. /\ klines'[a] # 0
              /\ scan_checkfinished(a, [ss[a] EXCEPT !.positive = TRUE])
          BY <2>3, <3>1, <3>2, <4>1
          DEF dnsbl_result_listed, dnsbl_positive, scan_positive, scan_irckline
        <5>2. /\ [ss[a] EXCEPT !.positive = TRUE].manual = ss[a].manual
              /\ [ss[a] EXCEPT !.positive = TRUE].ip = ss[a].ip
              /\ [ss[a] EXCEPT !.positive = TRUE].positive
          BY <2>3, <3>1 DEF scan_struct
        <5>. QED
          BY <2>2, <3>1, <5>1, <5>2
      <4>2. CASE ~ dnsbl_positive(a, known)
        BY <2>2, <2>3, <3>1, <3>2, <4>2 DEF dnsbl_result_listed
      <4>. QED
        BY <4>1, <4>2
    <3>3. CASE dnsbl_result_clean(a, bl)
      BY <2>2, <2>3, <3>1, <3>3 DEF dnsbl_result_clean
    <3>4. CASE dnsbl_result_error(a, bl)
      BY <2>2, <2>3, <3>1, <3>4 DEF dnsbl_result_error
    <3>. QED
      BY <2>5, <3>2, <3>3, <3>4 DEF dnsbl_result
  <2>6. ASSUME NEW a \in Addr, NEW sc \in Scanners, NEW p \in Protocols,
               libopm_report(a, sc, p)
        PROVE  Step
    BY <2>1, <2>6 DEF libopm_report, scan_open_proxy, scan_negotiation_failed,
                      scan_timeout, scan_handle_error
  <2>7. ASSUME NEW a \in Addr, NEW sc \in Scanners, scan_end(a, sc)
        PROVE  Step
    <3>1. a \in live
      BY <1>1, <2>7 DEF scan_end, ScanInv, NoDangling
    <3>. QED
      BY <2>2, <2>3, <2>7, <3>1 DEF scan_end
  <2>8. ASSUME NEW a \in Addr, scan_manual_unresolved(a)
        PROVE  Step
    BY <2>1, <2>8 DEF scan_manual_unresolved
  <2>9. ASSUME NEW ip \in IPs, negcache_expire(ip)
        PROVE  Step
    BY <2>1, <2>9 DEF negcache_expire
  <2>10. CASE UNCHANGED vars
    BY <2>1, <2>10 DEF vars
  <2>. QED
    BY <1>1, <2>4, <2>5, <2>6, <2>7, <2>8, <2>9, <2>10 DEF Next
<1>2. ScanInv /\ [Next]_vars => [Step]_vars
  BY <1>1
<1>. QED
  BY ScanInvariant, <1>2, PTL DEF Spec, CachedIffClean
=============================================================================
