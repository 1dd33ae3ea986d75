------------------------------ MODULE Resolver ------------------------------
(***************************************************************************)
(* What dnsbl.c relies on from the resolver: a lookup accepted by          *)
(* firedns_getip gets one result, and a result is only given for a lookup  *)
(* that is waiting for one.  Scan.tla uses the resolver through this       *)
(* promise (its variable lookups holds the pending lookups).               *)
(***************************************************************************)
CONSTANT Query       \* struct dnsbl_scan addresses that lookups are made for

VARIABLE result      \* what became of the last lookup made for each

Outcomes == {"idle", "pending", "REPLY", "TIMEOUT"}

Init == result = [q \in Query |-> "idle"]

Accept(q) ==
  /\ result[q] # "pending"
  /\ result' = [result EXCEPT ![q] = "pending"]

Answer(q) ==
  /\ result[q] = "pending"
  /\ \E r \in {"REPLY", "TIMEOUT"} : result' = [result EXCEPT ![q] = r]

Next == \E q \in Query : Accept(q) \/ Answer(q)

Spec == Init /\ [][Next]_result
=============================================================================
