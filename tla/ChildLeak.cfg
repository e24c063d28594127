SPECIFICATION FairSpec
CONSTANTS
  a1 = a1
  a2 = a2
  x1 = x1
  x2 = x2
  none = none
  Modes <- Awaited
  Attempts <- OneAttempt
  Cancellers <- Nobody
  NoAttempt = none
  LastPoll = 2
  Window = 1
  Limit = 3
  OtherRuns = 0
  Faults <- StepTimeout
PROPERTIES
  ClaimReleases
CHECK_DEADLOCK FALSE
