SPECIFICATION FairSpec
CONSTANTS
  Node <- Torus9
  Port <- Torus9
  PortsAt <- OnePortEach
  Route <- Torus3x3
  ChannelCount = 1
  Width <- OneChannel
  LinkWidth = 1
  RouteLatency = 1
  Congestion = TRUE
  BufferLimit = 1
  High = 1
  Low = 0
  Slots = 2
  Flows <- CrossFlows
  Counts = {7}
  MaxMessages = 3
  NoPacket = NoPacket
PROPERTIES ReassemblyFinishes
