SPECIFICATION FairSpec
CONSTANTS
  d1 = d1
  d2 = d2
  l1 = l1
  l2 = l2
  r1 = r1
  r2 = r2
  i1 = i1
  i2 = i2
  k1 = k1
  k2 = k2
  a1 = a1
  none = none
  Devices <- TwoDevices
  Logins <- TwoLogins
  Requests <- TwoRequests
  Intents <- TwoIntents
  Workloads <- SixWorkloads
  None = none
  DeviceLimit = 2
  PendingLimit = 1
  ReadLimit = 1
  Window = 1
  SessionEnd = 2
  Horizon = 2
  Restarts = 1
INVARIANTS
  OneGrantPerKey
PROPERTIES
  SentToCurrent
  ResultsAreCurrent
  StopFreezesDeadline
  EverythingAnswered
CHECK_DEADLOCK FALSE
