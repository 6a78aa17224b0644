CONSTANTS
  Addrs = {a, b}
  Conns = {c1, c2, c3}
  Loops = {l1, l2}
  MaxConnections = 2
  MaxConnectionsPerListener = 1
  None = None
SPECIFICATION FairSpec
INVARIANTS AdmissionIsKept CommitFindsItsSockets DrainSeesAll
PROPERTY TotalIsALimit DrainEnds
CHECK_DEADLOCK FALSE
