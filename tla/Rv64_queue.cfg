SPECIFICATION FairSpec
CONSTANTS
  Cores = 2
  Address = {0, 1, 2, 3}
  Byte = {0, 1}
  IdSpace = 8
  ServiceLatency = 1
  QueueCapacity = 2
  Radix = 2
  WindowBase = 8
  AddressLimit = 1024
  Depth = 2
  Image <- WholeImage
  AccessSize = {1}
  Entries <- QueueEntries
  VectorIssue = 2
  ToHost = 2
INVARIANTS TypeOK CommandsInOrder
PROPERTIES MemorySpec ProgramsSucceed
