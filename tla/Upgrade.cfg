CONSTANTS
  Procs = {1, 2, 3}
  a = a
  b = b
  Config <- MCConfig
  MaxEvents = 2
  None = None
SPECIFICATION FairSpec
INVARIANTS  MainLives NeverHalfHanded 
PROPERTIES UpgradesEnd
CHECK_DEADLOCK FALSE
