SPECIFICATION Spec
CONSTANTS
  maxb = 3
  IPs = {{0}, {1}, {0, 2}, {1, 2}, {0, 1, 2}}
  negcache = 2
  MaxNow = 6
  MaxNodes = 6
  ShiftWraps = TRUE
INVARIANT SeenIsCached
