CONSTANTS
  Requests = {1, 2}
  Kinds <- MCKinds
  Weight <- MCWeight
  Hash <- MCHash
  Key <- MCKey
  Policy = "LeastRequest"
  RingReplicas = 1
  MaxRingPoints = 9
  FirstByte = 2
  RequestTotal = 3
  MaxBody = 1
  NotCompleted = NotCompleted
  MaxInFlight = 1
  RateLimits = TRUE
  Early = {"NoRoute"}
  Reported = {"ConnectRefused", "Reset", "ConnectionLimit"}
  MaxReply = 1
  CounterMax = 3
  None = None
  HandshakeTimeout = 1
  HeaderTimeout = 5
  IdleTimeout = 2
  DrainIdleGrace = 2
  CloseGrace = 1
  Streams = {1, 2}
  Late = 1
  MaxTime = 9
  Never = Never
  Sends = {1, 2}
  Slots = {s1, s2}
  MaxConnections = 1
  ConnectTimeout = 1
  Unlimited = Unlimited
  Nobody = Nobody
SPECIFICATION ServingSpec
INVARIANTS PlacesAreHeld NeverSentTwice HandlerPromises ClientPromises
PROPERTIES PoolIsALimit GivesUpFairly Answered 
CHECK_DEADLOCK FALSE
