SPECIFICATION FairSpec
CONSTANTS
  Node <- Line
  Port <- LinePort
  PortsAt <- LinePortsAt
  Route <- LineRoute
  ChannelCount = 1
  Width <- OneChannel
  LinkWidth = 1
  RouteLatency = 1
  Congestion = TRUE
  BufferLimit = 2
  High = 2
  Low = 0
  Slots = 0
  Flows <- LineFlows
  Counts = {1, 3}
  MaxMessages = 3
  NoPacket = NoPacket
INVARIANTS PacketsConserved MessagesWhole
PROPERTIES CongestionClears
