CONSTANTS
  a = a
  p = p
  q = q
  CountMax = 2
  Backends = {a}
  Pools = {p, q}
  Configs <- MCConfigs
  NoPools <- MCNoPools
  Handles = {h1, h2, h3}
  Loops = {l1, l2}
  None = None
SPECIFICATION Spec
SYMMETRY Identities
INVARIANT RestartedLoopDecides
CHECK_DEADLOCK FALSE
