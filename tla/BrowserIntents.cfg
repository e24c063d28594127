SPECIFICATION FairSpec
CONSTANTS
  a1 = a1
  a2 = a2
  i1 = i1
  i2 = i2
  r1 = r1
  r2 = r2
  o1 = o1
  c1 = c1
  Intents <- TwoIntents
  Reads <- TwoReads
  Documents = 2
  Sockets = 2
  Attempts <- TwoAttempts
  OwnerStops <- OneOwnerStop
  LocalStops <- OneLocalStop
  UnknownLimit = 2
  Workloads <- TwelveWorkloads
INVARIANTS
  OneAtATime
  OffStaysOff
PROPERTIES
  PagesAreGuarded
  ImplementsOnceEffect
  DispatchEnds
CHECK_DEADLOCK FALSE
