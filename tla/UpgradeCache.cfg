CONSTANTS
  Procs = {1, 2, 3}
  a = a
  b = b
  Config <- MCConfig
  MaxEvents = 2
  None = None
SPECIFICATION Spec
INVARIANT CacheIsWhole
CHECK_DEADLOCK FALSE
