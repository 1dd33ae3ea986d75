SPECIFICATION FairSpec
CONSTANTS
  Query = {q1, q2}
  Anon = {n1, n2}
  dns_fdlimit = 2
  FDNS_TIMEOUT = 1
  FIREDNS_TRIES = 2
INVARIANTS
  FdBudget
  PendingIffListed
  AllPolled
  LoopSafe
PROPERTY
  Implements
  SentIsFinished
