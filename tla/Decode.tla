------------------------------- MODULE Decode -------------------------------
(***************************************************************************)
(* The decoder of 32-bit instructions (decode) outside the vector opcodes. *)
(* A word is the record of the fields every format cuts it into: f7 is     *)
(* bits 31 to 25, rs2 bits 24 to 20, rs1 bits 19 to 15, f3 bits 14 to 12,  *)
(* rd bits 11 to 7; op is the name of the opcode in bits 6 to 0.           *)
(***************************************************************************)
EXTENDS Instructions

Named(name, form, inst) == [inst EXCEPT !.name = name, !.form = form]

\* setupR, setupI, setupS, setupB, setupU, setupJ and setupR4.
SetupR(w) ==
  [opcode |-> w.op, rd |-> w.rd, rs1 |-> w.rs1, rs2 |-> w.rs2, funct3 |-> w.f3,
   funct7 |-> w.f7, rdType |-> "gpreg", rs1Type |-> "gpreg", rs2Type |-> "gpreg"] @@ Blank
ImmI(w) == SignExtend(32 * w.f7 + w.rs2, 11)
SetupI(w) ==
  [SetupR(w) EXCEPT !.imm = ImmI(w), !.rs2 = 0, !.rs2Type = "none"]
ImmS(w) == SignExtend(32 * w.f7 + w.rd, 11)
SetupS(w) ==
  [SetupR(w) EXCEPT !.imm = ImmS(w), !.rd = 0, !.rdType = "none"]
\* Mutant: bit 11 is taken for the sign, as in an S immediate.
ImmBranch_Store(w) == SignExtend(2 ^ 5 * w.f7 + w.rd, 11)
ImmBranch(w) ==
  SignExtend(2 ^ 12 * Bit(w.f7, 6) + 2 ^ 11 * Bit(w.rd, 0)
             + 2 ^ 5 * Extract(w.f7, 5, 0) + 2 * Extract(w.rd, 4, 1), 12)
SetupB(w) ==
  [SetupR(w) EXCEPT !.imm = ImmBranch(w), !.rd = 0, !.rdType = "none"]
\* Bits 31 to 12 of the word.
Upper(w) == 2 ^ 13 * w.f7 + 2 ^ 8 * w.rs2 + 2 ^ 3 * w.rs1 + w.f3
SetupU(w) ==
  [opcode |-> w.op, rd |-> w.rd, rdType |-> "gpreg",
   imm |-> 2 ^ 12 * SignExtend(Upper(w), 19)] @@ Blank
ImmJump(w) ==
  SignExtend(2 ^ 20 * Bit(w.f7, 6) + 2 ^ 12 * (2 ^ 3 * w.rs1 + w.f3)
             + 2 ^ 11 * Bit(w.rs2, 0)
             + 2 * (2 ^ 4 * Extract(w.f7, 5, 0) + Extract(w.rs2, 4, 1)), 20)
SetupJ(w) ==
  [opcode |-> w.op, rd |-> w.rd, rdType |-> "gpreg", imm |-> ImmJump(w)] @@ Blank
SetupR4(w) ==
  [SetupR(w) EXCEPT !.rs3 = Extract(w.f7, 6, 2), !.funct7 = w.f7 % 4, !.rdType = "freg",
     !.rs1Type = "freg", !.rs2Type = "freg", !.rs3Type = "freg"]

-------------------------------------------------------------------------------
\* The tables of rvi/bitpack.hpp: functions from the function bits to names.
LoadName ==
  0 :> "lb" @@ 1 :> "lh" @@ 2 :> "lw" @@ 3 :> "ld" @@ 4 :> "lbu" @@ 5 :> "lhu" @@ 6 :> "lwu"
StoreName == 0 :> "sb" @@ 1 :> "sh" @@ 2 :> "sw" @@ 3 :> "sd"
BranchName ==
  0 :> "beq" @@ 1 :> "bne" @@ 4 :> "blt" @@ 5 :> "bge" @@ 6 :> "bltu" @@ 7 :> "bgeu"

\* RV64IntOP73: funct7 and funct3 side by side.
IntOp(f7, f3) == 8 * f7 + f3
Op64Name ==
  0 :> "add" @@ 256 :> "sub" @@ 1 :> "sll" @@ 2 :> "slt" @@ 3 :> "sltu" @@ 4 :> "xor"
    @@ 5 :> "srl" @@ 261 :> "sra" @@ 6 :> "or" @@ 7 :> "and" @@ 8 :> "mul" @@ 9 :> "mulh"
    @@ 10 :> "mulhsu" @@ 11 :> "mulhu" @@ 12 :> "div" @@ 13 :> "divu" @@ 14 :> "rem"
    @@ 15 :> "remu"
Imm64Name ==
  0 :> "addi" @@ 2 :> "slti" @@ 3 :> "sltiu" @@ 4 :> "xori" @@ 6 :> "ori" @@ 7 :> "andi"
Op32Name ==
  0 :> "addw" @@ 256 :> "subw" @@ 1 :> "sllw" @@ 5 :> "srlw" @@ 261 :> "sraw" @@ 8 :> "mulw"
    @@ 12 :> "divw" @@ 13 :> "divuw" @@ 14 :> "remw" @@ 15 :> "remuw"
Imm32Name == 0 :> "addiw"

\* The table of rva/bitpack.hpp, by funct7 without its aq and rl bits.
AmoStem ==
  0 :> "amoadd" @@ 1 :> "amoswap" @@ 2 :> "lr" @@ 3 :> "sc" @@ 4 :> "amoxor"
    @@ 12 :> "amoand" @@ 8 :> "amoor" @@ 16 :> "amomin" @@ 20 :> "amomax"
    @@ 24 :> "amominu" @@ 28 :> "amomaxu"
AmoForm == 2 :> "w" @@ 3 :> "d"

\* The tables of rvf/bitpack.hpp.  The result is a pair of stem and form,
\* <<"illegal", "">> where the table has no entry.
Width2 == <<"s", "d", "h", "q">>
FormatOf(code) == Width2[(code % 4) + 1]
Stem(table, key, form) ==
  IF key \in DOMAIN table THEN <<table[key], form>> ELSE <<"illegal", "">>
Plain == 0 :> "fadd" @@ 1 :> "fsub" @@ 2 :> "fmul" @@ 3 :> "fdiv" @@ 11 :> "fsqrt"
SignName(f3, form) == Stem(0 :> "fsgnj" @@ 1 :> "fsgnjn" @@ 2 :> "fsgnjx", f3, form)
MinMaxName(f3, form) == Stem(0 :> "fmin" @@ 1 :> "fmax", f3, form)
FormatName(form, rs2) ==
  IF FormatOf(rs2) = form THEN <<"illegal", "">> ELSE <<CvtTo[form], FormatOf(rs2)>>
CompareName(f3, form) == Stem(2 :> "feq" @@ 1 :> "flt" @@ 0 :> "fle", f3, form)
IntegerWidth == 0 :> "w" @@ 1 :> "wu" @@ 2 :> "l" @@ 3 :> "lu"
ToIntegerName(form, rs2) ==
  IF rs2 % 8 \in DOMAIN IntegerWidth
    THEN <<CvtTo[IntegerWidth[rs2 % 8]], form>> ELSE <<"illegal", "">>
FromIntegerName(form, rs2) ==
  IF rs2 % 8 \in DOMAIN IntegerWidth
    THEN <<CvtTo[form], IntegerWidth[rs2 % 8]>> ELSE <<"illegal", "">>
MoveOutName(f3, form) ==
  CASE f3 = 0 /\ form # "q" ->
         Stem("s" :> "fmv_x_w" @@ "d" :> "fmv_x_d" @@ "h" :> "fmv_x_h", form, "")
    [] f3 = 1 -> <<"fclass", form>>
    [] OTHER -> <<"illegal", "">>
MoveInName(form) == Stem("s" :> "fmv_w_x" @@ "d" :> "fmv_d_x" @@ "h" :> "fmv_h_x", form, "")

\* rv64_fpop_inst_name
FloatName(f7, f3, rs2) ==
  LET op == f7 \div 4
      form == FormatOf(f7)
  IN CASE op \in DOMAIN Plain -> <<Plain[op], form>>
       [] op = 4 -> SignName(f3, form)
       [] op = 5 -> MinMaxName(f3, form)
       [] op = 8 -> FormatName(form, rs2)
       [] op = 20 -> CompareName(f3, form)
       [] op = 24 -> ToIntegerName(form, rs2)
       [] op = 26 -> FromIntegerName(form, rs2)
       [] op = 28 -> MoveOutName(f3, form)
       [] op = 30 -> MoveInName(form)
       [] OTHER -> <<"illegal", "">>

\* rv64_fpop_is_valid
FloatIsValid(f7, f3, rs2) ==
  LET op == f7 \div 4
  IN \/ op \in DOMAIN Plain
     \/ op \in {4, 20} /\ f3 <= 2
     \/ op \in {5, 28} /\ f3 <= 1
     \/ op \in {8, 24, 26} /\ rs2 <= 3
     \/ op = 30 /\ f3 = 0

\* rv64_fpop_is_i_rd, rv64_fpop_is_i_s1, rv64_fpop_has_s2
IntegerResult == {20, 24, 28}
IntegerSource == {26, 30}
SecondSource == {0, 1, 2, 3, 4, 5, 20}

DecodeFloat(w) ==
  LET n == FloatName(w.f7, w.f3, w.rs2)
      op == w.f7 \div 4
  IN IF n[1] = "illegal" \/ ~ FloatIsValid(w.f7, w.f3, w.rs2) THEN Illegal
     ELSE [Named(n[1], n[2], SetupR(w)) EXCEPT
             !.rdType = IF op \in IntegerResult THEN "gpreg" ELSE "freg",
             !.rs1Type = IF op \in IntegerSource THEN "gpreg" ELSE "freg",
             !.rs2Type = IF op \in SecondSource THEN "freg" ELSE "none"]

\* rv64_fmadd_inst_name and its three siblings.
FusedStem ==
  "madd" :> "fmadd" @@ "msub" :> "fmsub" @@ "nmsub" :> "fnmsub" @@ "nmadd" :> "fnmadd"
DecodeFused(w) == Named(FusedStem[w.op], FormatOf(w.f7), SetupR4(w))

-------------------------------------------------------------------------------
DecodeLoad(w) ==
  IF w.f3 \notin DOMAIN LoadName THEN Illegal
  ELSE [Named(LoadName[w.f3], "", SetupI(w)) EXCEPT !.control = "load",
          !.rdExt = CASE w.f3 = 0 -> "sign8" [] w.f3 = 1 -> "sign16"
                      [] w.f3 = 2 -> "sign32" [] OTHER -> "zero"]
DecodeStore(w) ==
  IF w.f3 \notin DOMAIN StoreName THEN Illegal
  ELSE [Named(StoreName[w.f3], "", SetupS(w)) EXCEPT !.control = "store"]
DecodeBranch(w) ==
  IF w.f3 \notin DOMAIN BranchName THEN Illegal
  ELSE [Named(BranchName[w.f3], "", SetupB(w)) EXCEPT !.control = "branch"]
DecodeFence(w) ==
  CASE w.f3 = 0 -> [Named("fence", "", SetupI(w)) EXCEPT !.control = "fence"]
    [] w.f3 = 1 -> [Named("fence_i", "", SetupI(w)) EXCEPT !.control = "fencei"]
    [] OTHER -> Illegal

\* opimm: a shift has six bits of amount and the other six select it.
DecodeOpImm(w) ==
  LET funct6 == w.f7 \div 2
      shift(name) == Named(name, "", SetupI(w))
  IN CASE w.f3 = 1 /\ funct6 = 0 -> shift("slli")
       [] w.f3 = 5 /\ funct6 = 0 -> shift("srli")
       [] w.f3 = 5 /\ funct6 = 16 -> shift("srai")
       [] w.f3 \in DOMAIN Imm64Name -> Named(Imm64Name[w.f3], "", SetupI(w))
       [] OTHER -> Illegal

\* opimm32: a shift has five bits of amount and funct7 selects it.
DecodeOpImm32(w) ==
  LET word(name) == [Named(name, "", SetupI(w)) EXCEPT !.rdExt = "sign32"]
  IN CASE w.f3 = 1 /\ w.f7 = 0 -> word("slliw")
       [] w.f3 = 5 /\ w.f7 = 0 -> word("srliw")
       [] w.f3 = 5 /\ w.f7 = 32 -> word("sraiw")
       [] w.f3 \in DOMAIN Imm32Name -> word(Imm32Name[w.f3])
       [] OTHER -> Illegal

DecodeOp(w) ==
  IF IntOp(w.f7, w.f3) \in DOMAIN Op64Name
    THEN Named(Op64Name[IntOp(w.f7, w.f3)], "", SetupR(w)) ELSE Illegal
DecodeOp32(w) ==
  IF IntOp(w.f7, w.f3) \in DOMAIN Op32Name
    THEN [Named(Op32Name[IntOp(w.f7, w.f3)], "", SetupR(w)) EXCEPT !.rdExt = "sign32"]
    ELSE Illegal
DecodeAmo(w) ==
  IF w.f7 \div 4 \in DOMAIN AmoStem /\ w.f3 \in DOMAIN AmoForm
    THEN [Named(AmoStem[w.f7 \div 4], AmoForm[w.f3], SetupR(w)) EXCEPT !.control = "amo",
            !.rdExt = IF w.f3 = 2 THEN "sign32" ELSE "zero"]
    ELSE Illegal

\* jalr returns, calls or jumps; jal calls or jumps.
DecodeJalr(w) ==
  [Named("jalr", "", SetupI(w)) EXCEPT
     !.control = CASE w.rd = 1 /\ w.rs1 # 1 -> "call" [] w.rd = 0 /\ w.rs1 = 1 -> "ret"
                   [] OTHER -> "indirect_jump"]
DecodeJal(w) ==
  [Named("jal", "", SetupJ(w)) EXCEPT
     !.control = IF w.rd \in {1, 5} THEN "call" ELSE "direct_jump"]

\* system: sfence.vma, the environment calls, and the CSR instructions.
SystemName ==
  0 :> "ecall" @@ 1 :> "ebreak" @@ 258 :> "sret" @@ 770 :> "mret" @@ 1970 :> "uret"
    @@ 261 :> "wfi"
CsrName ==
  1 :> "csrrw" @@ 2 :> "csrrs" @@ 3 :> "csrrc"
    @@ 5 :> "csrrwi" @@ 6 :> "csrrsi" @@ 7 :> "csrrci"
DecodeSystem(w) ==
  LET csr == 32 * w.f7 + w.rs2
      system == [SetupR(w) EXCEPT !.imm = csr, !.rs2 = 0,
                   !.rdType = "none", !.rs1Type = "none", !.rs2Type = "none"]
      special(name) == [Named(name, "", system) EXCEPT !.control = name]
  IN CASE w.f7 = 9 -> special("sfence_vma")
       [] w.f7 # 9 /\ w.f3 = 0 ->
            IF csr \in DOMAIN SystemName THEN special(SystemName[csr]) ELSE Illegal
       [] w.f7 # 9 /\ w.f3 \in DOMAIN CsrName ->
            [Named(CsrName[w.f3], "", system) EXCEPT !.control = "csr", !.rdType = "gpreg",
               !.rs1Type = IF w.f3 < 4 THEN "gpreg" ELSE "none"]
       [] OTHER -> Illegal
-------------------------------------------------------------------------------
(***************************************************************************)
(* The decoder of compressed instructions (decode_rvc), a function from    *)
(* words of 16 bits to decoded instructions; a word that is refused gives  *)
(* Illegal.                                                                *)
(***************************************************************************)
\* The shapes the decoder gives them.
Unary(opcode, name, rd, rs1, imm) ==
  [opcode |-> opcode, name |-> name, rd |-> rd, rs1 |-> rs1, imm |-> imm,
   rdType |-> "gpreg", rs1Type |-> "gpreg"] @@ Blank
Binary(opcode, name, rd, rs2) ==
  [Unary(opcode, name, rd, rd, 0) EXCEPT !.rs2 = rs2, !.rs2Type = "gpreg"]
\* Mutant: the value loaded is never sign-extended.
LoadOf_Zero(name, type, rd, rs1, imm, funct3) ==
  [Unary(IF type = "freg" THEN "loadfp" ELSE "load", name, rd, rs1, imm) EXCEPT
     !.control = "load", !.funct3 = funct3, !.rdType = type]
LoadOf(name, type, rd, rs1, imm, funct3) ==
  [Unary(IF type = "freg" THEN "loadfp" ELSE "load", name, rd, rs1, imm) EXCEPT
     !.control = "load", !.funct3 = funct3, !.rdType = type,
     !.rdExt = IF name = "lw" THEN "sign32" ELSE "zero"]
StoreOf(name, type, rs2, rs1, imm, funct3) ==
  [Unary(IF type = "freg" THEN "storefp" ELSE "store", name, 0, rs1, imm) EXCEPT
     !.control = "store", !.funct3 = funct3, !.rs2 = rs2, !.rs2Type = type]

\* A register of three bits, x8 to x15.
Short(w, hi) == 8 + Extract(w, hi, hi - 2)
Full(w) == Extract(w, 11, 7)
Low(w) == Extract(w, 6, 2)

-------------------------------------------------------------------------------
UImmD(w) == 8 * Extract(w, 12, 10) + 64 * Extract(w, 6, 5)
\* Mutant: the two low bits are swapped.
UImmW_Swapped(w) == 8 * Extract(w, 12, 10) + 64 * Bit(w, 6) + 4 * Bit(w, 5)
UImmW(w) == 8 * Extract(w, 12, 10) + 64 * Bit(w, 5) + 4 * Bit(w, 6)
UImm4spn(w) ==
  16 * Extract(w, 12, 11) + 64 * Extract(w, 10, 7) + 4 * Bit(w, 6) + 8 * Bit(w, 5)

\* _decode_rvc_op0
Quadrant0(w) ==
  LET f == Extract(w, 15, 13)
      r == Short(w, 4)
      base == Short(w, 9)
  IN CASE f = 0 -> IF r = 8 THEN Illegal ELSE Unary("opimm", "addi", r, 2, UImm4spn(w))
       [] f = 1 -> LoadOf("fld", "freg", r, base, UImmD(w), 3)
       [] f = 2 -> LoadOf("lw", "gpreg", r, base, UImmW(w), 2)
       [] f = 3 -> LoadOf("ld", "gpreg", r, base, UImmD(w), 3)
       [] f = 5 -> StoreOf("fsd", "freg", r, base, UImmD(w), 3)
       [] f = 6 -> StoreOf("sw", "gpreg", r, base, UImmW(w), 2)
       [] f = 7 -> StoreOf("sd", "gpreg", r, base, UImmD(w), 3)
       [] OTHER -> Illegal

Imm5(w) == SignExtend(32 * Bit(w, 12) + Low(w), 5)
ImmB(w) ==
  SignExtend(256 * Bit(w, 12) + 8 * Extract(w, 11, 10) + 64 * Extract(w, 6, 5)
             + 2 * Extract(w, 4, 3) + 32 * Bit(w, 2), 8)
Imm16sp(w) ==
  SignExtend(512 * Bit(w, 12) + 128 * Extract(w, 4, 3) + 64 * Bit(w, 5)
             + 32 * Bit(w, 2) + 16 * Bit(w, 6), 9)
Imm17(w) == SignExtend(2 ^ 17 * Bit(w, 12) + 2 ^ 12 * Low(w), 17)
ImmJ(w) ==
  SignExtend(2 ^ 11 * Bit(w, 12) + 2 ^ 10 * Bit(w, 8) + 256 * Extract(w, 10, 9)
             + 128 * Bit(w, 6) + 64 * Bit(w, 7) + 32 * Bit(w, 2) + 16 * Bit(w, 11)
             + 2 * Extract(w, 5, 3), 11)

\* c.addi16sp or c.lui, by the destination.
AddSpOrLui(w) ==
  IF Full(w) = 2
    THEN IF Imm16sp(w) = 0 THEN Illegal ELSE Unary("opimm", "addi", 2, 2, Imm16sp(w))
    ELSE IF Imm17(w) = 0 THEN Illegal ELSE Unary("lui", "lui", Full(w), 0, Imm17(w))

\* Name, funct3 and funct7 of the register operations, by bits 12, 6 and 5.
RegisterOp ==
  0 :> <<"sub", 0, 32>> @@ 1 :> <<"xor", 4, 0>> @@ 2 :> <<"or", 6, 0>> @@ 3 :> <<"and", 7, 0>>
    @@ 4 :> <<"subw", 0, 32>> @@ 5 :> <<"addw", 0, 0>>
\* The arithmetic of case 4, by bits 11 and 10, bit 12 and bits 6 and 5.
Arithmetic(w) ==
  LET r == Short(w, 9)
      register(name, f3, f7) ==
        [Binary(IF Bit(w, 12) = 1 THEN "op32" ELSE "op", name, r, Short(w, 4)) EXCEPT
           !.funct3 = f3, !.funct7 = f7,
           !.rdExt = IF Bit(w, 12) = 1 THEN "sign32" ELSE "zero"]
      immediate(name, imm, f3, f7) ==
        [Unary("opimm", name, r, r, imm) EXCEPT !.funct3 = f3, !.funct7 = f7]
      sub == Extract(w, 11, 10)
      which == Extract(w, 6, 5)
  IN CASE sub = 0 -> IF Bit(w, 12) = 0 THEN immediate("srli", Low(w), 5, 0)
                                       ELSE immediate("srai", Low(w), 5, 32)
       [] sub = 1 -> immediate("andi", Imm5(w), 7, 0)
       [] sub = 2 /\ 4 * Bit(w, 12) + which \in DOMAIN RegisterOp ->
            LET row == RegisterOp[4 * Bit(w, 12) + which] IN register(row[1], row[2], row[3])
       [] OTHER -> Illegal

BranchOf(name, w, funct3) ==
  [Unary("branch", name, 0, Short(w, 9), ImmB(w)) EXCEPT
     !.control = "branch", !.funct3 = funct3, !.rdType = "none", !.rs2Type = "gpreg"]

JumpOnly(w) ==
  [opcode |-> "jal", name |-> "jal", control |-> "direct_jump", imm |-> ImmJ(w),
   rdType |-> "gpreg"] @@ Blank

\* _decode_rvc_op1
Quadrant1(w) ==
  LET f == Extract(w, 15, 13)
      r == Full(w)
  IN CASE f = 0 -> Unary("opimm", "addi", r, r, Imm5(w))
       [] f = 1 -> IF r = 0 THEN Illegal
                   ELSE [Unary("opimm32", "addiw", r, r, Imm5(w)) EXCEPT !.rdExt = "sign32"]
       [] f = 2 -> IF r = 0 THEN Illegal ELSE Unary("opimm", "addi", r, 0, Imm5(w))
       [] f = 3 -> AddSpOrLui(w)
       [] f = 4 -> Arithmetic(w)
       [] f = 5 -> JumpOnly(w)
       [] f = 6 -> BranchOf("beq", w, 0)
       [] f = 7 -> BranchOf("bne", w, 1)

UImmDsp(w) == 32 * Bit(w, 12) + 8 * Extract(w, 6, 5) + 64 * Extract(w, 4, 2)
UImmWsp(w) == 32 * Bit(w, 12) + 4 * Extract(w, 6, 4) + 64 * Extract(w, 3, 2)
UImmDssp(w) == 8 * Extract(w, 12, 10) + 64 * Extract(w, 9, 7)
UImmWssp(w) == 4 * Extract(w, 12, 9) + 64 * Extract(w, 8, 7)

\* c.jr, c.mv, c.ebreak, c.jalr and c.add.
JumpOrMove(w) ==
  LET r == Full(w)
      jump(rd, control) == [Unary("jalr", "jalr", rd, r, 0) EXCEPT !.control = control]
  IN CASE Bit(w, 12) = 0 /\ r = 0 -> Illegal
       [] Bit(w, 12) = 0 /\ r # 0 /\ Low(w) = 0 -> jump(0, "indirect_jump")
       [] Bit(w, 12) = 0 /\ r # 0 /\ Low(w) # 0 -> Unary("opimm", "addi", r, 0, Low(w))
       [] Bit(w, 12) = 1 /\ r = 0 /\ Low(w) = 0 ->
            [Unary("system", "ebreak", 0, 0, 1) EXCEPT !.control = "ebreak"]
       [] Bit(w, 12) = 1 /\ r = 0 /\ Low(w) # 0 -> Illegal
       [] Bit(w, 12) = 1 /\ r # 0 /\ Low(w) = 0 -> jump(1, "call")
       [] Bit(w, 12) = 1 /\ r # 0 /\ Low(w) # 0 -> Binary("op", "add", r, Low(w))

\* Unlike the stores of quadrant 0, they leave rdType as it is.
StackStore(w) ==
  LET store(name, type, imm, funct3) ==
        [StoreOf(name, type, Low(w), 2, imm, funct3) EXCEPT !.rdType = "none"]
  IN CASE w \div 2 ^ 13 = 5 -> store("fsd", "freg", UImmDssp(w), 3)
       [] w \div 2 ^ 13 = 6 -> store("sw", "gpreg", UImmWssp(w), 2)
       [] w \div 2 ^ 13 = 7 -> store("sd", "gpreg", UImmDssp(w), 3)

\* _decode_rvc_op2
Quadrant2(w) ==
  LET f == Extract(w, 15, 13)
      r == Full(w)
  IN CASE f \in {0, 2, 3} /\ r = 0 -> Illegal
       [] f = 0 /\ r # 0 ->
            [Unary("opimm", "slli", r, r, 32 * Bit(w, 12) + Low(w)) EXCEPT !.funct3 = 1]
       [] f = 1 -> LoadOf("fld", "freg", r, 2, UImmDsp(w), 3)
       [] f = 2 /\ r # 0 -> LoadOf("lw", "gpreg", r, 2, UImmWsp(w), 2)
       [] f = 3 /\ r # 0 -> LoadOf("ld", "gpreg", r, 2, UImmDsp(w), 3)
       [] f = 4 -> JumpOrMove(w)
       [] f >= 5 -> StackStore(w)

\* decode_rvc
DecodeRvc(w) ==
  CASE w % 4 = 0 -> Quadrant0(w)
    [] w % 4 = 1 -> Quadrant1(w)
    [] w % 4 = 2 -> Quadrant2(w)
    [] OTHER -> Illegal
=============================================================================
