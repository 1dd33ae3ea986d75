SPECIFICATION FairSpec
CONSTANTS
  NODATA_TIMEOUT = 4
  RECONNECTINTERVAL = 2
  OPT_DEBUG = FALSE
  MaxInput = 2
INVARIANT PartOnlyAtEof
PROPERTIES
  HealthyKept
  DeadIsDropped
  SilenceNoticed
CHECK_DEADLOCK FALSE
