SPECIFICATION Spec
CONSTANTS
  a1 = a1
  a2 = a2
  x1 = x1
  x2 = x2
  none = none
  Modes <- BothModes
  Attempts <- TwoAttempts
  Cancellers <- OneCanceller
  NoAttempt = none
  LastPoll = 1
  Window = 1
  Limit = 2
  OtherRuns = 1
  Faults <- AnyFault
CONSTRAINT TwoInFlight
SYMMETRY ProcSymmetry
INVARIANTS
  FamilyCapacity
  SingleCreator
  CancelSafe
PROPERTIES
  ChildHistory
CHECK_DEADLOCK FALSE
