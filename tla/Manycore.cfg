SPECIFICATION FairSpec
CONSTANTS
  Cores = 3
  Address = {0, 1}
  Byte = {0, 1, 2}
  IdSpace = 2
  ServiceLatency = 2
  QueueCapacity = 1
  Op <- Ops
  Programs <- ThreeHarts
  NoOp = NoOp
INVARIANTS NoUnexpectedResponse
PROPERTIES MemorySpec Termination
