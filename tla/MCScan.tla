------------------------------- MODULE MCScan -------------------------------
(* An instance of Scan for TLC. *)
EXTENDS Scan, TLC

CONSTANTS s1, s2, p1, p2

\* A scanner with two protocols and one with one.
TwoAndOne == s1 :> {p1, p2} @@ s2 :> {p1}
=============================================================================
