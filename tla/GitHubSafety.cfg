SPECIFICATION Spec
CONSTANTS
  s1 = s1
  s2 = s2
  d1 = d1
  d2 = d2
  r1 = r1
  r2 = r2
  self = self
  Check = self
  Steps <- OneStep
  Types <- SessionOrTask
  Offered <- Everything
  Slots <- OneSlot
  Dispatchers <- TwoDispatchers
  Requests <- TwoRequests
  Conclusions <- WithAmbiguous
  LastPoll = 0
  Faults <- AnyFault
CONSTRAINT TwoInFlight
SYMMETRY Symmetry
INVARIANTS
  SlotCoversJob
  OncePosted
  AnswersArePhysical
PROPERTIES
  SessionHistory
CHECK_DEADLOCK FALSE
