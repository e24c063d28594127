SPECIFICATION FairSpec
CONSTANTS
  s1 = s1
  s2 = s2
  d1 = d1
  d2 = d2
  r1 = r1
  r2 = r2
  self = self
  Check = self
  Steps <- TwoSteps
  Types <- OnlySessions
  Offered <- Polling
  Slots <- OneSlot
  Dispatchers <- OneDispatcher
  Requests <- OneRequest
  Conclusions <- Definite
  LastPoll = 0
  Faults <- NoFault
INVARIANTS
  PhysicalQuota
PROPERTIES
  SlotReturns
CHECK_DEADLOCK FALSE
