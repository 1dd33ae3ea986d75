SPECIFICATION Spec
CONSTANTS
  s1 = s1
  s2 = s2
  p1 = p1
  p2 = p2
  Addr = {a1, a2}
  IPs = {good, bad}
  BadIPs = {bad}
  Blacklists = {b1, b2}
  Scanners = {s1, s2}
  Protocols = {p1, p2}
  ProtocolsOf <- TwoAndOne
  NegCacheOn = TRUE
  MaxLeaked = 1
INVARIANTS
  ScansCounted
  NoDangling
  LeakedIffIdle
  KlineOnce
  PositiveEndsScans
PROPERTY
  CachedIffClean
