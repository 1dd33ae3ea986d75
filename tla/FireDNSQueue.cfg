SPECIFICATION FairSpec
CONSTANTS
  Query = {q1, q2}
  Anon = {}
  dns_fdlimit = 1
  FDNS_TIMEOUT = 1
  FIREDNS_TRIES = 1
PROPERTY
  AcceptedIsAnswered
