SPECIFICATION FairSpec
CONSTANTS
  r1 = r1
  r2 = r2
  r3 = r3
  c1 = c1
  c2 = c2
  w1 = w1
  k1 = k1
  none = none
  Workflows <- OneWorkflow
  NoKey = none
  Runs <- OneRun
  Callers <- OneCaller
  Keys <- OneKey
  Origins <- OwnerOnly
  MaxVersion = 1
  HeavyVersions <- Nothing
  RetiredVersions <- Nothing
  Legacy <- Nothing
  Limit = 2
PROPERTIES
  AdmissionSettles
CHECK_DEADLOCK FALSE
