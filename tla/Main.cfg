SPECIFICATION FairSpec
CONSTANTS
  OPT_DEBUG = FALSE
  NEG_CACHE_REBUILD = 3
PROPERTIES
  TimersRun
  CacheRebuilt
  LogsReopened
CHECK_DEADLOCK FALSE
