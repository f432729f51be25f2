----------------------------- MODULE CoreExecute ------------------------------
(***************************************************************************)
(* What executing an instruction does to a hart (rv64_atomic_core.cpp),    *)
(* and how long it takes (instruction_latency.cpp).  Rv64Core has the      *)
(* states of a hart, its requests and its window; here are its registers.  *)
(* A hart is a record:                                                     *)
(*   pc, x, v         registers; a vector register is a function of bytes  *)
(*   sew, lmul, vl, vstart, vcsr, vtype    the vector context              *)
(*   csr              the CSRs kept in csr_                                *)
(*   ticks, retired, id                                                    *)
(* Executing gives the hart, how it ended, and the accesses it asks for.   *)
(***************************************************************************)
EXTENDS VectorMemory

Alu == INSTANCE IntegerOps WITH XLEN <- XLen

\* kVectorIllegal, which no vtype that was set has.
VectorIllegal == 2 ^ (XLen - 1)
WriteReg(h, index, value) == IF index = 0 THEN h ELSE [h EXCEPT !.x[index] = value]

\* The values of the registers of the window are those of Rv64Core.
CsrAddress ==
  [vstart |-> 8, vxsat |-> 9, vxrm |-> 10, vcsr |-> 15, cycle |-> 3072, instret |-> 3074,
   vl |-> 3104, vtype |-> 3105, vlenb |-> 3106, mhartid |-> 3860]
ReadCsr(h, address) ==
  CASE address = CsrAddress.vstart -> h.vstart
    [] address = CsrAddress.vxsat -> h.vcsr % 2
    [] address = CsrAddress.vxrm -> (h.vcsr \div 2) % 4
    [] address = CsrAddress.vcsr -> h.vcsr % 8
    [] address = CsrAddress.vl -> h.vl
    [] address = CsrAddress.vtype -> h.vtype
    [] address = CsrAddress.vlenb -> VLenBytes
    [] address = CsrAddress.cycle -> h.ticks
    [] address = CsrAddress.instret -> h.retired
    [] address = CsrAddress.mhartid -> h.id
    [] OTHER -> IF address \in DOMAIN h.csr THEN h.csr[address] ELSE 0
ReadOnly == {CsrAddress[n] : n \in {"vl", "vtype", "vlenb", "cycle", "instret", "mhartid"}}
WriteCsr(h, address, value) ==
  CASE address = CsrAddress.vstart -> [h EXCEPT !.vstart = value % 2 ^ (XLen \div 2)]
    [] address = CsrAddress.vxsat -> [h EXCEPT !.vcsr = 2 * (@ \div 2) + (value % 2)]
    [] address = CsrAddress.vxrm ->
         [h EXCEPT !.vcsr = 8 * (@ \div 8) + (@ % 2) + 2 * (value % 4)]
    [] address = CsrAddress.vcsr -> [h EXCEPT !.vcsr = value % 8]
    [] address \in ReadOnly -> h
    [] OTHER -> [h EXCEPT !.csr = (address :> value) @@ @]

\* execute_csr: with a set or a clear of nothing, nothing is written.
ExecuteCsr(h, inst) ==
  LET address == inst.imm % 4096
      old == ReadCsr(h, address)
      source == IF inst.funct3 >= 5 THEN inst.rs1 ELSE h.x[inst.rs1]
      mode == inst.funct3 % 4
      value == CASE mode = 1 -> source
                 [] mode = 2 -> OrBits(old, source, XLen)
                 [] mode = 3 -> AndBits(old, NotBits(source, XLen), XLen)
      read == WriteReg(h, inst.rd, old)
  IN IF mode = 1 \/ source # 0 THEN WriteCsr(read, address, value) ELSE read

-------------------------------------------------------------------------------
\* execute_vector_config
Lmuls == <<"m1", "m2", "m4", "m8">>
ApplicationLength(h, inst) ==
  CASE inst.name = "vsetivli" -> inst.rs1
    [] inst.name # "vsetivli" /\ inst.rs1 # 0 -> h.x[inst.rs1]
    [] inst.name # "vsetivli" /\ inst.rs1 = 0 -> IF inst.rd # 0 THEN 2 ^ XLen - 1 ELSE h.vl
ExecuteVectorConfig(h, inst) ==
  LET vtype == IF inst.name = "vsetvl" THEN h.x[inst.rs2] ELSE Unsigned(inst.imm, XLen)
      vlmul == vtype % 8
      vsew == (vtype \div 8) % 8
      avl == ApplicationLength(h, inst)
      vlmax == MaxVectorLength(2 ^ vsew, Lmuls[vlmul + 1])
      configured ==
        IF vtype > 255 \/ vlmul > 3 \/ vsew > 3
        THEN [h EXCEPT !.vstart = 0, !.vtype = VectorIllegal, !.vl = 0]
        ELSE [h EXCEPT !.vstart = 0, !.vtype = vtype, !.sew = 2 ^ vsew,
                       !.lmul = Lmuls[vlmul + 1], !.vl = IF avl < vlmax THEN avl ELSE vlmax]
  IN WriteReg(configured, inst.rd, configured.vl)

\* Groups of registers: a group begins at a multiple of its size.
GroupRegisters(h) == Groups(h.lmul)[1]
Aligned(h, base) == base % GroupRegisters(h) = 0
ReadGroup(h, base) ==
  [b \in 0 .. GroupRegisters(h) * VLenBytes - 1 |-> h.v[base + b \div VLenBytes][b % VLenBytes]]
WriteGroup(h, base, bytes) ==
  [h EXCEPT !.v = [r \in DOMAIN @ |->
     IF r \in base .. base + GroupRegisters(h) - 1
     THEN [b \in 0 .. VLenBytes - 1 |-> bytes[(r - base) * VLenBytes + b]] ELSE @[r]]]
\* vector_operand
RegisterBytes(word) == [b \in 0 .. 7 |-> Extract(word, ByteBits * b + ByteBits - 1, ByteBits * b)]
RegisterWord(bytes) == MapThenSumSet(LAMBDA b : bytes[b] * 2 ^ (ByteBits * b), 0 .. 7)
VectorOperand(h, type, index) ==
  CASE type = "none" -> RegisterBytes(0)
    [] type = "gpreg" -> RegisterBytes(h.x[index])
    [] type = "vreg" -> ReadGroup(h, index)
OperandFits(h, type, index) == type # "freg" /\ (type = "vreg" => Aligned(h, index))
Context(h) ==
  [sew |-> h.sew, lmul |-> h.lmul, vl |-> h.vl, vstart |-> h.vstart, vcsr |-> h.vcsr,
   vmask |-> h.v[0], beyond |-> 0]

\* is_supported_vector_integer_instruction
SupportedVector ==
  {"vadd", "vsub", "vminu", "vmin", "vmaxu", "vmax", "vand", "vor", "vxor"} \X {"vv", "vx"}
    \union {"vadd", "vrsub", "vand", "vor", "vxor"} \X {"vi"}
    \union {<<"vrsub", "vx">>, <<"vmv_v", "vv">>, <<"vmv_v", "vi">>, <<"vmv_x", "s">>,
            <<"vmv_s", "x">>}

Ends(kind, h, accesses, code) == [kind |-> kind, hart |-> h, accesses |-> accesses, code |-> code]
Commits(h, pc) == Ends("commit", [h EXCEPT !.pc = pc, !.retired = @ + 1, !.x[0] = 0], <<>>, 0)
Faults(h) == Ends("fault", h, <<>>, 125)

\* execute_vector_alu: scalar results keep the bytes that are not written.
VectorDone(h, inst, nextPc, r) ==
  LET after == [h EXCEPT !.vstart = r.vstart, !.vcsr = r.vcsr]
  IN IF r.status # "success" THEN Faults(h)
     ELSE Commits(IF inst.rdType = "gpreg" THEN WriteReg(after, inst.rd, RegisterWord(r.vd))
                  ELSE WriteGroup(after, inst.rd, r.vd), nextPc)
ExecuteVectorAlu(h, inst, nextPc) ==
  LET old == IF inst.rdType = "gpreg" THEN RegisterBytes(h.x[inst.rd]) ELSE ReadGroup(h, inst.rd)
      fits == /\ <<inst.name, inst.form>> \in SupportedVector
              /\ OperandFits(h, inst.rs1Type, inst.rs1) /\ OperandFits(h, inst.rs2Type, inst.rs2)
              /\ inst.rdType \in {"gpreg", "vreg"} /\ OperandFits(h, inst.rdType, inst.rd)
  IN IF h.vtype = VectorIllegal \/ ~ fits THEN Faults(h)
     ELSE VectorDone(h, inst, nextPc,
                     ExecOpv(inst, Context(h), old, VectorOperand(h, inst.rs1Type, inst.rs1),
                             VectorOperand(h, inst.rs2Type, inst.rs2), 0))

-------------------------------------------------------------------------------
\* Mutant: the place in the register is that of the access in the sequence.
NormalizedLoads_Packed(base, descs) ==
  LET before(n) == FoldSet(LAMBDA k, sum : sum + Len(descs[k].bytes), 0, 1 .. n - 1)
  IN MergedDescriptors([n \in DOMAIN descs |-> [descs[n] EXCEPT !.addr = base + before(n)]],
                       8, TRUE)
\* The accesses of a unit-stride instruction, put at the addresses that
\* parse_load_vector and parse_store_vector do not give them.
NormalizedLoads(base, descs) ==
  MergedDescriptors([n \in DOMAIN descs |-> [descs[n] EXCEPT !.addr = base + Head(descs[n].bytes)]],
                    8, TRUE)
\* The offset counts from the first access, whichever element that is of.
NormalizedStores(base, descs) ==
  LET before(n) == FoldSet(LAMBDA k, sum : sum + Len(descs[k].bytes), 0, 1 .. n - 1)
  IN MergedDescriptors([n \in DOMAIN descs |-> [descs[n] EXCEPT !.addr = base + before(n)]],
                       8, FALSE)
\* prepare_vector_load and prepare_vector_store.  The widths of elements that
\* the instruction has are those of ElementView.
MemoryElement == 0 :> 1 @@ 5 :> 2 @@ 6 :> 4 @@ 7 :> 8
VectorParsed(h, inst, nextPc, base, r) ==
  LET after == [h EXCEPT !.vstart = r.vstart]
  IN IF r.status # "success" THEN Faults(h)
     ELSE IF r.desc = <<>> THEN Commits(after, nextPc)
     ELSE Ends("memory", after, IF inst.control = "vload" THEN NormalizedLoads(base, r.desc)
                                ELSE NormalizedStores(base, r.desc), 0)
ExecuteVectorMemory(h, inst, nextPc) ==
  LET load == inst.control = "vload"
      data == IF load THEN inst.rd ELSE inst.rs3
      base == h.x[inst.rs1]
      fits == /\ inst.name = IF load THEN "vleX" ELSE "vseX"
              /\ inst.funct7 % 2 = 1 /\ Extract(inst.funct7, 6, 4) = 0
              /\ MemoryElement[inst.funct3] = h.sew
              /\ Aligned(h, data)
  IN IF ~ fits THEN Faults(h)
     ELSE VectorParsed(h, inst, nextPc, base,
                       ParseVector(inst, Context(h), base,
                                   VectorOperand(h, inst.rs2Type, inst.rs2),
                                   ReadGroup(h, data), 8, FALSE, 0))

\* What a hart has done once its accesses were answered, from the memory they
\* found: finish_vector_memory_response and receive_memory_response.
Fetched(access, mem) == [k \in DOMAIN access.bytes |-> mem[access.addr + k - 1]]
SignedBits == [zero |-> XLen, sign8 |-> ByteBits, sign16 |-> 2 * ByteBits, sign32 |-> 4 * ByteBits]
Extended(inst, bytes) ==
  LET value == MapThenSumSet(LAMBDA k : bytes[k] * 2 ^ (ByteBits * (k - 1)), DOMAIN bytes)
      n == SignedBits[inst.rdExt]
  IN Unsigned(Signed(value % 2 ^ n, n), XLen)
FilledGroup(h, inst, accesses, mem) ==
  FoldLeft(LAMBDA buffer, a :
             [b \in DOMAIN buffer |->
                IF \E k \in DOMAIN a.bytes : a.bytes[k] = b
                THEN Fetched(a, mem)[CHOOSE k \in DOMAIN a.bytes : a.bytes[k] = b] ELSE buffer[b]],
           ReadGroup(h, inst.rd), accesses)
AfterMemory(r, inst, mem) ==
  LET h == r.hart
  IN Commits(CASE inst.control = "load" ->
                    WriteReg(h, inst.rd, Extended(inst, Fetched(r.accesses[1], mem)))
               [] inst.control = "vload" ->
                    WriteGroup(h, inst.rd, FilledGroup(h, inst, r.accesses, mem))
               [] inst.control \in {"store", "vstore"} -> h, h.pc + 4)
MemoryAfter(r, inst, mem) ==
  IF inst.control \in {"load", "vload"} THEN mem
  ELSE FoldLeft(LAMBDA m, a : [p \in DOMAIN m |-> IF p \in a.addr .. a.addr + Len(a.bytes) - 1
                                                 THEN a.bytes[p - a.addr + 1] ELSE m[p]],
                mem, r.accesses)

-------------------------------------------------------------------------------
\* What an instruction without control computes.
Computed(h, inst) ==
  LET a == h.x[inst.rs1]
      b == h.x[inst.rs2]
  IN CASE inst.opcode = "lui" -> Unsigned(inst.imm, XLen)
       [] inst.opcode = "auipc" -> Unsigned(h.pc + inst.imm, XLen)
       [] inst.opcode = "opimm" -> Alu!ExecOpImm(inst.name, a, inst.imm)
       [] inst.opcode = "opimm32" -> Alu!ExecOpImm32(inst.name, a, inst.imm)
       [] inst.opcode = "op" -> Alu!ExecOp(inst.name, a, b)
       [] inst.opcode = "op32" -> Alu!ExecOp32(inst.name, a, b)
ComputingOpcodes == {"lui", "auipc", "opimm", "opimm32", "op", "op32"}
ConfigNames == {"vsetvli", "vsetivli", "vsetvl"}

\* The jumps write the link first.  A call goes to an address relative to pc,
\* also when it is a jalr.
Jumped(h, inst) ==
  LET linked == WriteReg(h, inst.rd, Unsigned(h.pc + 4, XLen))
      there == Unsigned(linked.x[inst.rs1] + inst.imm, XLen)
  IN IF inst.control \in {"direct_jump", "call"}
     THEN Commits(linked, Unsigned(h.pc + inst.imm, XLen))
     ELSE Commits(linked, 2 * (there \div 2))
Branched(h, inst) ==
  LET r == Alu!ExecBranch(inst.name, h.x[inst.rs1], h.x[inst.rs2], h.pc, inst.imm)
  IN Commits(h, IF r.taken THEN r.pc ELSE h.pc + 4)
ScalarAccess(h, inst) ==
  LET word == RegisterBytes(h.x[inst.rs2])
  IN Ends("memory", h, ParseScalar(inst, h.x[inst.rs1], [k \in 1 .. 8 |-> word[k - 1]], 0,
                                   FALSE).desc, 0)

\* execute_ready_instruction, for a hart whose window is not busy.
Execute(h, inst) ==
  LET next == h.pc + 4
  IN CASE inst.control = "none" /\ inst.opcode = "opv" ->
            IF inst.name \in ConfigNames THEN Commits(ExecuteVectorConfig(h, inst), next)
            ELSE ExecuteVectorAlu(h, inst, next)
       [] inst.control = "none" /\ inst.opcode \in ComputingOpcodes ->
            Commits(WriteReg(h, inst.rd, Computed(h, inst)), next)
       [] inst.control = "none" /\ inst.opcode \notin ComputingOpcodes \union {"opv"} -> Faults(h)
       [] inst.control = "branch" -> Branched(h, inst)
       [] inst.control \in {"direct_jump", "call", "indirect_jump", "ret"} -> Jumped(h, inst)
       [] inst.control \in {"load", "store"} -> ScalarAccess(h, inst)
       [] inst.control \in {"vload", "vstore"} -> ExecuteVectorMemory(h, inst, next)
       [] inst.control = "csr" -> Commits(ExecuteCsr(h, inst), next)
       [] inst.control \in {"fence", "fencei", "fence_tso"} -> Commits(h, next)
       [] inst.control = "ecall" -> Ends("halt", h, <<>>, h.x[10])
       [] inst.control = "ebreak" -> Ends("halt", h, <<>>, 0)
       [] inst.control \in {"amo", "mret", "sret", "uret", "wfi", "sfence_vma"} -> Faults(h)

-------------------------------------------------------------------------------
\* cycles of a timing, and instruction_latency of a configuration t whose
\* entries are those of the timing table; zero cycles are refused.
Cycles(timing, vl) ==
  timing.base + (IF timing.lanes = 0 THEN 0 ELSE (vl + timing.lanes - 1) \div timing.lanes)
Timing(base, lanes) == [base |-> base, lanes |-> lanes]
ClassLatency(inst, t) ==
  CASE inst.opcode = "opv" ->
         IF inst.name \in ConfigNames THEN Timing(t.vector_config, 0)
         ELSE IF t.vector_lanes = 0 THEN Timing(t.vector_integer_alu, 0)
         ELSE Timing(t.vector_base, t.vector_lanes)
    [] inst.opcode # "opv" ->
         Timing(CASE inst.control \in {"branch", "direct_jump", "indirect_jump", "call", "ret"} ->
                       t.branch_jump
                  [] inst.control \in {"load", "store", "vload", "vstore"} -> t.memory_issue
                  [] inst.control = "csr" -> t.csr
                  [] inst.control \in {"fence", "fencei", "fence_tso"} -> t.fence
                  [] OTHER ->
                       IF inst.opcode \in {"op", "op32"} /\ inst.funct7 = 1
                       THEN IF inst.funct3 >= 4 THEN t.integer_divide ELSE t.integer_multiply
                       ELSE t.integer_alu, 0)
\* A key is the name of an instruction with its form, and for unit-stride
\* accesses the width of the elements.
TimingKey(inst) ==
  IF inst.name \in {"vleX", "vseX"} THEN <<inst.name, ToString(MemoryElement[inst.funct3])>>
  ELSE <<inst.name, inst.form>>
InstructionLatency(inst, t, vl) ==
  LET key == TimingKey(inst)
      n == Cycles(IF key \in DOMAIN t.instructions THEN t.instructions[key]
                  ELSE ClassLatency(inst, t), vl)
  IN IF n = 0 THEN "invalid timing" ELSE n
==============================================================================
