CONSTANTS
  Good = {A, B}
  Invalid = {I}
  Unreadable = Unreadable
  Secure = {A, I}
  None = None
  MaxRotation = 1
  BindsMayFail = TRUE
SPECIFICATION FairSpec
INVARIANTS ServedIsOneConfig NoChangeIsMissed CacheIsWhatIsServed
PROPERTY NothingAppliedOnceLeaving ServedOrReported RunningNodeConverges
