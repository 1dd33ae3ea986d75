SPECIFICATION FairSpec
CONSTANTS
  s1 = s1
  p1 = p1
  Addr = {a1}
  IPs = {ip}
  BadIPs = {}
  Blacklists = {b1, b2}
  Scanners = {s1}
  Protocols = {p1}
  ProtocolsOf <- OneScanner
  NegCacheOn = TRUE
  MaxLeaked = 1
  Anon = {n1}
  dns_fdlimit = 2
  FDNS_TIMEOUT = 0
  FIREDNS_TRIES = 1
INVARIANT ResultHasOwner
PROPERTY SentScanFinishes
