SPECIFICATION Spec
CONSTANTS
  Illegal = Illegal
  Pending = Pending
  XLEN = 8
  ByteBits = 3
  VLenBytes = 4
  Half <- MCHalf
  Single <- MCSingle
  Double <- MCDouble
  Halves <- MCNone
  Words32 <- MCNone
  IntegerCalls <- MCNone
  SoftCalls <- MCNone
  HalfCalls <- MCNone
  FloatCalls <- MCMsubCalls
  VectorCalls <- MCNone
  AccessCalls <- MCNone
  HartCalls <- MCNone
  MessageCalls <- MCNone
  kProtocolVersion = 1
  kRequestTag = 5
  kResponseTag = 6
  Timings <- MCTimings

INVARIANT MsubNegatesAddend
CHECK_DEADLOCK FALSE
