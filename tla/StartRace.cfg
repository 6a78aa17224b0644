CONSTANTS
  Good = {A, B}
  Invalid = {I}
  Unreadable = Unreadable
  Secure = {A, I}
  None = None
  MaxRotation = 0
  BindsMayFail = FALSE
SPECIFICATION Spec
INVARIANT ChecksFollowTheConfig
