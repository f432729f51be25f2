SPECIFICATION Spec
CONSTANTS
  Illegal = Illegal
  Pending = Pending
  XLEN = 8
  ByteBits = 3
  VLenBytes = 4
  Half <- MCHalf
  Single <- MCSingle
  Double <- MCDouble
  Halves <- MCNone
  Words32 <- MCNone
  IntegerCalls <- MCNone
  SoftCalls <- MCNone
  HalfCalls <- MCNone
  FloatCalls <- MCNone
  VectorCalls <- MCNone
  AccessCalls <- MCNone
  HartCalls <- MCJumpCalls
  MessageCalls <- MCNone
  kProtocolVersion = 1
  kRequestTag = 5
  kResponseTag = 6
  Timings <- MCTimings

INVARIANT JumpsFollowRegister
CHECK_DEADLOCK FALSE
