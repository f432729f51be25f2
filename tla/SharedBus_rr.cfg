SPECIFICATION FairSpec
CONSTANTS
  N = 3
  AddressCycles = 1
  DataCycles = 2
  QueueDepth = 2
  ReceiveSlots = 2
  StarvationThreshold = 1
  FixedPriority = FALSE
  Flows <- ClientFlows
  MaxMessages = 5
INVARIANTS CreditConservation BoundedOvertaking IInv RefusalsExplained
PROPERTIES BusSpec
