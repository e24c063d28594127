SPECIFICATION Spec
CONSTANTS
  r1 = r1
  r2 = r2
  r3 = r3
  c1 = c1
  c2 = c2
  w1 = w1
  k1 = k1
  none = none
  Workflows <- OneWorkflow
  NoKey = none
  Runs <- ThreeRuns
  Callers <- TwoCallers
  Keys <- KeyedOrNot
  Origins <- EveryOrigin
  MaxVersion = 2
  HeavyVersions <- Second
  RetiredVersions <- First
  Legacy <- LegacyRun
  Limit = 3
CONSTRAINT OneKind
SYMMETRY CallerSymmetry
INVARIANTS
  ExecOwnsRun
  StartedIsReal
  OneExecutionPerKey
  CapacityBound
  DeletedIsQuiet
PROPERTIES
  RowsStay
CHECK_DEADLOCK FALSE
