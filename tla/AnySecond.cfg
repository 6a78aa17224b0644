CONSTANTS
  Callers = {c1, c2, c3, c4, c5}
  Max = 2
  NoMax = NoMax
  PerSecond = 2
  Burst = 2
  TicksPerSecond = 3
  Never = Never
  MaxTime = 8
  Times <- MCTimes
  Keys = {k1, k2, k3}
  Capacity = 2
  SweepInterval = 3
  MaxUntracked = 2
  CountMax = 3
  MaxProbes = 6
  Lookups = {d1, d2}
  Ttl = 2
  LastTime = 4
  MaxAddresses = 2
  Unknown = Unknown
  Targets = {"access", "proxy"}
  FileOnly = {"access"}
  QueueLines = 1
  RotationCheck = 2
  MaxLines = 2
  MaxFiles = 2
  EndOfTime = 4
  Selectors = {1, 2}
  Weights <- MCWeights
  Points <- MCPoints
  HashKeys = {2, 5}
  Replicas = 1
  RingLimit = 4
  CounterWidth = 4
  MaxPicks = 5
  Lowercase <- MCLowercase
  Size <- MCSize
  RouteListeners = {1}
  RouteHosts <- MCRouteHosts
  RoutePaths <- MCRoutePaths
  AskedHosts <- MCAskedHosts
  AskedPaths <- MCAskedPaths
  MaxRoutes = 3
  NoRoute = 0
  Configs <- MCConfigs
  Snis <- MCSnis
  Clients = {1, 2}
  Authorities <- MCAuthorities
  MaxHandshakes = 3
  NoName = NoName
  DynamicConfigs <- MCDynamicConfigs
  NodeConfigs <- MCNodeConfigs
  NoConfig = NoConfig
  NoCheck = NoCheck
  NoPool = NoPool
  NoStatus = NoStatus
  Hops = 2
  ClientHeads <- MCClientHeads
  BackendHeads <- MCBackendHeads
  Opaque = Opaque
  NoHead = NoHead
  Hsts = Hsts
  Outgoing = {3}
  ListenerNames = {"a", "b"}
  NoListener = "gone"
  TableSize = 2
  RingSize = 2
  CloseReasons = {"closed", "drain"}
  MaxBytes = 1
  NotYet = NotYet
SPECIFICATION PartsSpec
INVARIANT AtMostTheRateInAnySecond
CHECK_DEADLOCK FALSE
