CONSTANTS
  a = a
  p = p
  q = q
  CountMax = 2
  Backends = {a}
  Pools = {p, q}
  Configs <- OnePool
  NoPools <- MCNoPools
  Handles = {h1, h2}
  Loops = {l1, l2}
  None = None
SPECIFICATION FairSpec
PROPERTY PassingBackendsRecover
CHECK_DEADLOCK FALSE
