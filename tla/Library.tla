-------------------------------- MODULE Library --------------------------------
(***************************************************************************)
(* Calls of the instruction set library and of the register half of a      *)
(* hart: each takes its operands and returns once.  The properties compare *)
(* what the functions return with each other, with exact arithmetic, and   *)
(* with what the repository says of them.                                  *)
(*                                                                         *)
(*   Halves, Words32   decode_rvc and decode                               *)
(*   IntegerCalls      exec_op and its kind, on registers of XLEN bits     *)
(*   SoftCalls         functions of the floating-point library             *)
(*   HalfCalls         those of float16_t, at its own width                *)
(*   FloatCalls        exec_opfp and exec_madd and its kind                *)
(*   VectorCalls       exec_opv of a decoded instruction                   *)
(*   AccessCalls       parse_load_vector, parse_store_vector and, without  *)
(*                     elements, the scalar ones                           *)
(*   HartCalls         execute_ready_instruction and the answers to its    *)
(*                     requests, for a decoded word, a hart and a memory   *)
(*   MessageCalls      encode_request, decode_request, encode_response and *)
(*                     decode_response                                     *)
(***************************************************************************)
EXTENDS CoreExecute

CONSTANTS Illegal, Pending, XLEN,
          Halves, Words32, IntegerCalls, SoftCalls, HalfCalls, FloatCalls, VectorCalls, AccessCalls,
          HartCalls, MessageCalls,
          kProtocolVersion, kRequestTag, kResponseTag,
          Timings \* an InstructionLatencyConfig

Dec == INSTANCE VectorDecode
Reg == INSTANCE IntegerOps
F16 == INSTANCE HalfFloat
Bytes == INSTANCE MemoryProtocol WITH Refused <- Illegal

\* A byte has at most the 8 bits of the code's.  The calls of the functions on
\* registers are told apart by the unit they name, and a message is encoded from
\* the types of memory_protocol.hpp and decoded from any bytes.
ASSUME CallsAssumption ==
  /\ ByteBits \in 1 .. 8 /\ kRequestTag # kResponseTag
  /\ \A c \in IntegerCalls :
        c.unit \in {"branch", "op", "opimm", "op32", "opimm32", "csr", "amo"}
  /\ \A m \in MessageCalls :
        /\ m.name = "encode_request" => m.of \in Bytes!MemoryRequest
        /\ m.name = "encode_response" => m.of \in Bytes!MemoryResponse
        /\ m.name \in {"decode_request", "decode_response"} => m.of \in Seq(Bytes!Byte)

\* The law of powers, for the fields of a message.
ASSUME PowersAssumption ==
  \A k \in 0 .. 7 : 2 ^ ((k + 1) * ByteBits) = 2 ^ ByteBits * 2 ^ (k * ByteBits)

VARIABLES call, result
vars == <<call, result>>

Init ==
  /\ \/ \E w \in Halves : call = [unit |-> "half", bits |-> w]
     \/ \E w \in Words32 : call = [unit |-> "word", fields |-> w]
     \/ call \in IntegerCalls
     \/ \E c \in SoftCalls : call = [unit |-> "soft", function |-> c]
     \/ \E c \in HalfCalls : call = [unit |-> "half float", function |-> c]
     \/ \E c \in FloatCalls : call = [unit |-> "float", instruction |-> c]
     \/ \E c \in VectorCalls : call = [unit |-> "vector", operation |-> c]
     \/ \E c \in AccessCalls : call = [unit |-> "access", request |-> c]
     \/ \E c \in MessageCalls : call = [unit |-> "message", message |-> c]
     \/ \E c \in HartCalls : call = [unit |-> "hart", step |-> c]
  /\ result = Pending

Return(unit, value) ==
  /\ result = Pending /\ call.unit = unit
  /\ result' = value
  /\ UNCHANGED call

DecodeHalf == Return("half", Dec!DecodeRvc(call.bits))
DecodeFull == Return("word", Dec!DecodeWord(call.fields))
Branch == Return("branch", Reg!ExecBranch(call.name, call.a, call.b, call.pc, call.imm))
Op == Return("op", Reg!ExecOp(call.name, call.a, call.b))
OpImm == Return("opimm", Reg!ExecOpImm(call.name, call.a, call.imm))
Op32 == Return("op32", Reg!ExecOp32(call.name, call.a, call.b))
OpImm32 == Return("opimm32", Reg!ExecOpImm32(call.name, call.a, call.imm))
Csr == Return("csr", Reg!ExecCsr(call.op, call.hi, call.lo, call.a, call.b))
Amo == Return("amo", Reg!ExecAmo(call.name, call.order, call.a, call.b))

SoftResult(f) ==
  CASE f.name = "add" -> Add(f.F, f.a, f.b, f.rm)
    [] f.name = "sub" -> Sub(f.F, f.a, f.b, f.rm)
    [] f.name = "mul" -> Mul(f.F, f.a, f.b, f.rm)
    [] f.name = "div" -> Div(f.F, f.a, f.b, f.rm)
    [] f.name = "sqrt" -> Sqrt(f.F, f.a, f.rm)
    [] f.name = "mulAdd" -> MulAdd(f.F, f.a, f.b, f.c, "", f.rm)
    [] f.name = "fromInteger" -> FromInteger(f.F, f.a, f.rm)
    [] f.name = "toInteger" -> ToInteger(f.F, f.a, f.signed, f.n, f.rm)
    [] f.name = "convert" -> Convert(f.F, f.G, f.a, f.rm)
    [] f.name = "recip7" -> Recip7(f.F, f.a, f.rm)
    [] f.name = "rsqrt7" -> Rsqrt7(f.F, f.a)
Soft == call.unit = "soft" /\ Return("soft", SoftResult(call.function))
HalfResult(f) ==
  CASE f.name = "f16_add" -> F16!Add16(f.a, f.b, f.rm)
    [] f.name = "f16_sub" -> F16!Sub16(f.a, f.b, f.rm)
    [] f.name = "f16_mul" -> F16!Mul16(f.a, f.b, f.rm)
    [] f.name = "f16_div" -> F16!Div16(f.a, f.b, f.rm)
    [] f.name = "f16_sqrt" -> F16!Sqrt16(f.a, f.rm)
SoftHalf == call.unit = "half float" /\ Return("half float", HalfResult(call.function))
Float ==
  /\ call.unit = "float"
  /\ Return("float", IF call.instruction.op = "MADD" THEN ExecMulAdd(call.instruction)
                     ELSE ExecOpFp(call.instruction))
\* vd, vs1 and vs2 are large enough for the widest view.
Performed(c) == ExecOpv(c.inst, c.ctx, c.vd, c.vs1, c.vs2, c.frm)
Vector == call.unit = "vector" /\ Return("vector", Performed(call.operation))
ParsedAs(c) ==
  IF c.inst.control \in {"load", "store"}
  THEN ParseScalar(c.inst, c.base, c.data, c.boundary, c.strict)
  ELSE ParseVector(c.inst, c.ctx, c.base, c.vs2, c.vs3, c.boundary, c.strict, c.garbage)
Access == call.unit = "access" /\ Return("access", ParsedAs(call.request))
\* The hart that is left when all its accesses are answered, and the memory.
Answered(c, r) ==
  LET memory == r.kind = "memory"
  IN [latency |-> InstructionLatency(c.inst, Timings, c.hart.vl),
      kind |-> r.kind, code |-> r.code, accesses |-> r.accesses,
      hart |-> IF memory THEN AfterMemory(r, c.inst, c.mem).hart ELSE r.hart,
      mem |-> IF memory THEN MemoryAfter(r, c.inst, c.mem) ELSE c.mem]
Stepped(c) == Answered(c, Execute(c.hart, c.inst))
Step == call.unit = "hart" /\ Return("hart", Stepped(call.step))

Message ==
  \/ call.unit = "message" /\ call.message.name = "encode_request"
       /\ Return("message", Bytes!encode_request(call.message.of))
  \/ call.unit = "message" /\ call.message.name = "encode_response"
       /\ Return("message", Bytes!encode_response(call.message.of))
  \/ call.unit = "message" /\ call.message.name = "decode_request"
       /\ Return("message", Bytes!decode_request(call.message.of))
  \/ call.unit = "message" /\ call.message.name = "decode_response"
       /\ Return("message", Bytes!decode_response(call.message.of))

Next ==
  \/ DecodeHalf \/ DecodeFull
  \/ Branch \/ Op \/ OpImm \/ Op32 \/ OpImm32 \/ Csr \/ Amo
  \/ Soft \/ SoftHalf \/ Float \/ Vector \/ Access \/ Step \/ Message
Spec == Init /\ [][Next]_vars
==============================================================================
