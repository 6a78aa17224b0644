CONSTANTS
  Good = {A, B}
  Invalid = {I}
  Unreadable = Unreadable
  Secure = {A, I}
  None = None
  MaxRotation = 1
  BindsMayFail = FALSE
SPECIFICATION FairSpec
PROPERTY RestartedNodeConverges
