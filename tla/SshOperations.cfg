SPECIFICATION FairSpec
CONSTANTS
  c1 = c1
  c2 = c2
  c3 = c3
  a = a
  b = b
  d = d
  h1 = h1
  h2 = h2
  h3 = h3
  none = none
  Calls <- ThreeCalls
  Ops <- ThreeOps
  Hosts <- ThreeHosts
  Workloads <- TenWorkloads
  None = none
  TotalLimit = 2
  HostLimit = 1
  StorageFaults = 3
  Restarts = 1
INVARIANTS
  HonestReplies
  ConnectionsBounded
PROPERTIES
  StoppedIsQuiet
  ImplementsOnceEffect
  LeasesReturn
CHECK_DEADLOCK FALSE
