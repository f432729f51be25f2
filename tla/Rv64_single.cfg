SPECIFICATION FairSpec
CONSTANTS
  Cores = 2
  Address = {0, 1, 2, 3}
  Byte = {0, 1}
  IdSpace = 2
  ServiceLatency = 1
  QueueCapacity = 1
  Radix = 2
  WindowBase = 8
  AddressLimit = 1024
  Depth = 1
  Image <- WholeImage
  AccessSize = {1}
  Entries <- SingleEntries
  VectorIssue = 2
  ToHost = 2
INVARIANTS NoStolenResponse
PROPERTIES FenceDrains MemorySpec ProgramsSucceed
