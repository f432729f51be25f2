---------------------------- MODULE MemoryProtocol ----------------------------
(***************************************************************************)
(* The messages between the harts and the memory controller as bytes       *)
(* (memory_protocol.cpp): a header, fields of 1, 2, 4 and 8 bytes in       *)
(* little-endian order, and the data that is left.                         *)
(***************************************************************************)
EXTENDS Words, SequencesExt

CONSTANTS ByteBits, kProtocolVersion, kRequestTag, kResponseTag,
          Refused \* a runtime_error is thrown

\* enum class MemoryOp
ReadOp == 1
WriteOp == 2

Byte == Word(ByteBits)
MemoryRequest ==
  [op : {ReadOp, WriteOp}, hart_id : Word(4 * ByteBits), transaction_id : Word(4 * ByteBits),
   address : Word(8 * ByteBits), size : Word(2 * ByteBits), data : Seq(Byte)]
MemoryResponse ==
  [status : {0, 1}, hart_id : Word(4 * ByteBits), transaction_id : Word(4 * ByteBits),
   data : Seq(Byte)]

append_le(value, n) ==
  [i \in 1 .. n |-> Extract(value, i * ByteBits - 1, (i - 1) * ByteBits)]
take_le(bytes, pos, n) ==
  FoldRight(LAMBDA byte, high : byte + 2 ^ ByteBits * high, SubSeq(bytes, pos + 1, pos + n), 0)
HasHeader(bytes, tag, length) ==
  Len(bytes) >= length /\ bytes[1] = kProtocolVersion /\ bytes[2] = tag
Payload(bytes, length) == SubSeq(bytes, length + 1, Len(bytes))

RequestHeader == 21
encode_request(r) ==
  IF r.size = 0 \/ (r.op = WriteOp /\ Len(r.data) # r.size) THEN Refused
  ELSE <<kProtocolVersion, kRequestTag, r.op>> \o append_le(r.hart_id, 4)
         \o append_le(r.transaction_id, 4) \o append_le(r.address, 8) \o append_le(r.size, 2)
         \o r.data
ParsedRequest(bytes) ==
  [op |-> bytes[3], hart_id |-> take_le(bytes, 3, 4), transaction_id |-> take_le(bytes, 7, 4),
   address |-> take_le(bytes, 11, 8), size |-> take_le(bytes, 19, 2),
   data |-> Payload(bytes, RequestHeader)]
WellFormed(r) ==
  /\ r.size # 0
  /\ \/ r.op = ReadOp /\ r.data = <<>>
     \/ r.op = WriteOp /\ Len(r.data) = r.size
decode_request(bytes) ==
  IF HasHeader(bytes, kRequestTag, RequestHeader) /\ WellFormed(ParsedRequest(bytes))
  THEN ParsedRequest(bytes) ELSE Refused

ResponseHeader == 13
\* Mutant: the size of the data is sent in one byte.
SizeField_Byte(data) == append_le(Len(data) % 2 ^ ByteBits, 2)
\* The size is cut to 16 bits.
SizeField(data) == append_le(Len(data), 2)
encode_response(r) ==
  <<kProtocolVersion, kResponseTag, r.status>> \o append_le(r.hart_id, 4)
    \o append_le(r.transaction_id, 4) \o SizeField(r.data) \o r.data
decode_response(bytes) ==
  IF HasHeader(bytes, kResponseTag, ResponseHeader)
       /\ Len(bytes) - ResponseHeader = take_le(bytes, 11, 2)
  THEN [status |-> bytes[3], hart_id |-> take_le(bytes, 3, 4),
        transaction_id |-> take_le(bytes, 7, 4), data |-> Payload(bytes, ResponseHeader)]
  ELSE Refused
==============================================================================
