SPECIFICATION Spec
CONSTANTS
  Illegal = Illegal
  Pending = Pending
  XLEN = 8
  ByteBits = 3
  VLenBytes = 4
  Half <- MCHalf
  Single <- MCSingle
  Double <- MCDouble
  Halves <- MCHalves
  Words32 <- MCWords32
  IntegerCalls <- MCIntegerCalls
  SoftCalls <- MCSoftCalls
  HalfCalls <- MCHalfCalls
  FloatCalls <- MCFloatCalls
  VectorCalls <- MCVectorCalls
  AccessCalls <- MCAccessCalls
  HartCalls <- MCHartCalls
  MessageCalls <- MCMessageCalls
  kProtocolVersion = 1
  kRequestTag = 5
  kResponseTag = 6
  Timings <- MCTimings

INVARIANT NothingLost
INVARIANT CompressedExpands
INVARIANT IntegerLaws
INVARIANT RoundedExactly
INVARIANT HalvesAgree
INVARIANT OrderConsistent
INVARIANT ResumedAgrees
INVARIANT CarryChain
INVARIANT FixedPointExact
INVARIANT StaysWithinRequest
INVARIANT VectorFollowsScalar
INVARIANT AccessesCover
INVARIANT UnitStrideMoves
INVARIANT MessagesReadBack
CHECK_DEADLOCK FALSE
