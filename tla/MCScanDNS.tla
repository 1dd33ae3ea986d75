------------------------------ MODULE MCScanDNS -----------------------------
(* An instance of ScanDNS for TLC. *)
EXTENDS ScanDNS, TLC

CONSTANTS s1, p1

OneScanner == s1 :> {p1}
=============================================================================
