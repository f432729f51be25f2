SPECIFICATION FairSpec
CONSTANTS
  N = 2
  AddressCycles = 1
  DataCycles = 1
  QueueDepth = 3
  ReceiveSlots = 2
  StarvationThreshold = 1
  FixedPriority = TRUE
  Flows <- AllFlows
  MaxMessages = 4
PROPERTIES BusFairSpec
