SPECIFICATION FairSpec
CONSTANTS
  Node <- Ring4
  Port <- Ring4
  PortsAt <- OnePortEach
  Route <- DoubleRing4
  ChannelCount = 2
  Width <- TwoChannels
  LinkWidth = 1
  RouteLatency = 2
  Congestion = TRUE
  BufferLimit = 1
  High = 1
  Low = 0
  Slots = 2
  Flows <- ClientFlows
  Counts = {1, 2}
  MaxMessages = 3
  NoPacket = NoPacket
INVARIANTS RefusalsExplained BuffersBounded
PROPERTIES BusFairSpec ReassemblyFinishes
