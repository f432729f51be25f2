------------------------------ MODULE LibraryLaws ------------------------------
(***************************************************************************)
(* What the functions of the library are measured by: each other, exact    *)
(* arithmetic, and what the repository says of them.                       *)
(***************************************************************************)
EXTENDS Library

Returned(unit) == result # Pending /\ call.unit = unit

-------------------------------------------------------------------------------
(***************************************************************************)
(* The assembler: the word an instruction stands for.                      *)
(***************************************************************************)
FieldsOf(i) == [op |-> i.opcode, f7 |-> i.funct7, rs2 |-> i.rs2, rs1 |-> i.rs1,
              f3 |-> i.funct3, rd |-> i.rd]
AssembleI(i) == [FieldsOf(i) EXCEPT !.f7 = Extract(i.imm % 4096, 11, 5), !.rs2 = i.imm % 32]
AssembleS(i) == [FieldsOf(i) EXCEPT !.f7 = Extract(i.imm % 4096, 11, 5), !.rd = i.imm % 32]
AssembleB(i) ==
  LET v == i.imm % 2 ^ 13
  IN [FieldsOf(i) EXCEPT !.f7 = 64 * Bit(v, 12) + Extract(v, 10, 5),
                       !.rd = 2 * Extract(v, 4, 1) + Bit(v, 11)]
\* The fields above rd, from a number of 20 bits.
Above(i, v) ==
  [FieldsOf(i) EXCEPT !.f7 = Extract(v, 19, 13), !.rs2 = Extract(v, 12, 8),
                    !.rs1 = Extract(v, 7, 3), !.f3 = v % 8]
AssembleU(i) == Above(i, (i.imm \div 2 ^ 12) % 2 ^ 20)
AssembleJ(i) ==
  LET v == i.imm % 2 ^ 21
  IN Above(i, 2 ^ 19 * Bit(v, 20) + 2 ^ 9 * Extract(v, 10, 1) + 2 ^ 8 * Bit(v, 11)
              + Extract(v, 19, 12))
ScalarLoad(i) == i.opcode = "loadfp" /\ i.control = "load"
ScalarStore(i) == i.opcode = "storefp" /\ i.control = "store"
Assemble(i) ==
  CASE i.opcode \in {"load", "opimm", "opimm32", "jalr", "miscmem"} \/ ScalarLoad(i) ->
         AssembleI(i)
    [] i.opcode = "store" \/ ScalarStore(i) -> AssembleS(i)
    [] i.opcode = "system" -> AssembleI(i)
    [] i.opcode = "branch" -> AssembleB(i)
    [] i.opcode \in {"lui", "auipc"} -> AssembleU(i)
    [] i.opcode = "jal" -> AssembleJ(i)
    [] i.opcode \in {"madd", "msub", "nmsub", "nmadd"} ->
         [FieldsOf(i) EXCEPT !.f7 = 4 * i.rs3 + i.funct7]
    [] i.control = "vstore" -> [FieldsOf(i) EXCEPT !.rd = i.rs3]
    [] OTHER -> FieldsOf(i)

\* decode loses nothing: the decoded instruction determines the word, so no
\* two words of 32 bits become one instruction (setupI to setupR4 and the
\* fields the vector decoders move).
WellTyped(i) == i \in Dec!Types \union {Illegal}
NothingLost ==
  Returned("word") =>
    WellTyped(result) /\ (result # Illegal => Assemble(result) = call.fields)

-------------------------------------------------------------------------------
\* The fields execution reads.  A shift's amount is its immediate, whose upper
\* bits select it; and execute_ready_instruction takes a ret for an indirect
\* jump, where call and direct_jump are relative to pc.
Meaning(i) ==
  [name |-> i.name, rd |-> i.rd, rs1 |-> i.rs1,
   rs2 |-> i.rs2, funct3 |-> i.funct3, rdExt |-> i.rdExt,
   rs1Type |-> IF i.opcode \in {"jal", "lui", "system"} THEN "unused" ELSE i.rs1Type,
   control |-> IF i.control \in {"ret", "indirect_jump"} THEN "to register" ELSE i.control,
   imm |-> IF i.name \in {"slli", "srli", "srai"} THEN i.imm % 64 ELSE i.imm]
\* The word of a compressed instruction's expansion.
Expansion(i) ==
  IF i.name = "srai" THEN [AssembleI(i) EXCEPT !.f7 = 32] ELSE Assemble(i)
\* c.jalr x1 is a call; in full it has the link register on both sides, and is an
\* indirect jump.
CallsThroughLink(i) == i.name = "jalr" /\ i.control = "call" /\ i.rs1 = 1
Expands(i) ==
  LET full == Dec!DecodeWord(Expansion(i)) IN full # Illegal /\ Meaning(full) = Meaning(i)

(***************************************************************************)
(* The tables in the comments of decode.cpp.  A row is the instruction it  *)
(* stands for, its quadrant and three bits, the place of every bit of the  *)
(* immediate, as pairs of a bit of the word and one of the number, the     *)
(* bits it fixes, as pairs of a bit and its value, the fields that it says *)
(* are not zero, and where rs2 is, if it is all that is left.              *)
(***************************************************************************)
Run(hi, b) == {<<hi + 1 - k, b[k]>> : k \in 1 .. Len(b)}
Row(of, quadrant, funct, places) ==
  [of |-> of, quadrant |-> quadrant, funct |-> funct, places |-> places, signed |-> FALSE,
   bits |-> {}, nonzero |-> {}, rs2 |-> "none"]
SignedRow(of, quadrant, funct, places) ==
  [Row(of, quadrant, funct, places) EXCEPT !.signed = TRUE]
NotZero(row, fields) == [row EXCEPT !.nonzero = fields]
Where(row, bits) == [row EXCEPT !.bits = bits]
OfRegisters(of, quadrant, bits, rs2) == [Row(of, quadrant, 4, {}) EXCEPT !.bits = bits, !.rs2 = rs2]
None5 == <<0, 0, 0, 0, 0>>
DoubleWord == Run(12, <<5, 4, 3>>) \union Run(6, <<7, 6>>)
SingleWord == Run(12, <<5, 4, 3>>) \union Run(6, <<2, 6>>)
Small == Run(12, <<5>>) \union Run(6, <<4, 3, 2, 1, 0>>)
BranchPlaces == Run(12, <<8, 4, 3>>) \union Run(6, <<7, 6, 2, 1, 5>>)
DoubleStack == Run(12, <<5>>) \union Run(6, <<4, 3, 8, 7, 6>>)
Quadrant0Table ==
  {NotZero(Row("addi", 0, 0, Run(12, <<5, 4, 9, 8, 7, 6, 2, 3>>)), {"imm"}),
   Row("fld", 0, 1, DoubleWord), Row("lw", 0, 2, SingleWord), Row("ld", 0, 3, DoubleWord),
   Row("fsd", 0, 5, DoubleWord), Row("sw", 0, 6, SingleWord), Row("sd", 0, 7, DoubleWord)}
\* The arithmetic of quadrant 1, by bits 11 and 10, 12, and 6 and 5.
ArithmeticTable ==
  {NotZero(Where(Row("srli", 1, 4, Small), Run(11, <<0, 0>>)), {"imm"}),
   NotZero(Where(Row("srai", 1, 4, Small), Run(11, <<0, 1>>)), {"imm"}),
   Where(SignedRow("andi", 1, 4, Small), Run(11, <<1, 0>>))}
    \union {OfRegisters(r[1], 1, Run(12, <<r[2], 1, 1>>) \union Run(6, r[3]), "short") :
              r \in {<<"sub", 0, <<0, 0>>>>, <<"xor", 0, <<0, 1>>>>, <<"or", 0, <<1, 0>>>>,
                     <<"and", 0, <<1, 1>>>>, <<"subw", 1, <<0, 0>>>>, <<"addw", 1, <<0, 1>>>>}}
Quadrant1Table ==
  {NotZero(SignedRow("addi", 1, 0, Small), {"imm"}), SignedRow("addiw", 1, 1, Small),
   SignedRow("addi", 1, 2, Small),
   NotZero(Where(SignedRow("addi", 1, 3, Run(12, <<9>>) \union Run(6, <<4, 6, 8, 7, 5>>)),
                 Run(11, <<0, 0, 0, 1, 0>>)), {"imm"}),
   NotZero(SignedRow("lui", 1, 3, Run(12, <<17>>) \union Run(6, <<16, 15, 14, 13, 12>>)), {"imm"}),
   SignedRow("jal", 1, 5, Run(12, <<11, 4, 9, 8, 10, 6, 7, 3, 2, 1, 5>>)),
   SignedRow("beq", 1, 6, BranchPlaces), SignedRow("bne", 1, 7, BranchPlaces)}
\* c.mv is, like c.add, an addition of registers.
Quadrant2Table ==
  {NotZero(Row("slli", 2, 0, Small), {"imm"}), Row("fld", 2, 1, DoubleStack),
   Row("lw", 2, 2, Run(12, <<5>>) \union Run(6, <<4, 3, 2, 7, 6>>)), Row("ld", 2, 3, DoubleStack),
   NotZero(OfRegisters("jalr", 2, Run(12, <<0>>) \union Run(6, None5), "none"), {"rd"}),
   NotZero(OfRegisters("add", 2, Run(12, <<0>>), "full"), {"rd", "rs2"}),
   OfRegisters("ebreak", 2, Run(12, <<1>> \o None5 \o None5), "none"),
   NotZero(OfRegisters("jalr", 2, Run(12, <<1>>) \union Run(6, None5), "none"), {"rd"}),
   NotZero(OfRegisters("add", 2, Run(12, <<1>>), "full"), {"rd", "rs2"}),
   Row("fsd", 2, 5, Run(12, <<5, 4, 3, 8, 7, 6>>)), Row("sw", 2, 6, Run(12, <<5, 4, 3, 2, 7, 6>>)),
   Row("sd", 2, 7, Run(12, <<5, 4, 3, 8, 7, 6>>))}
CompressedTable == Quadrant0Table \union ArithmeticTable \union Quadrant1Table \union Quadrant2Table
Gathered(w, places) == MapThenSumSet(LAMBDA p : Bit(w, p[1]) * 2 ^ p[2], places)
FieldIn(w, r, name) ==
  CASE name = "rd" -> Dec!Full(w) [] name = "rs2" -> Dec!Low(w)
    [] name = "imm" -> Gathered(w, r.places)
RowsOf(w) ==
  {r \in CompressedTable : /\ r.funct = w \div 2 ^ 13 /\ r.quadrant = w % 4
                           /\ \A p \in r.bits : Bit(w, p[1]) = p[2]
                           /\ \A name \in r.nonzero : FieldIn(w, r, name) # 0
                           /\ r.of = "lui" => Dec!Full(w) # 2}
Documented(r, w) ==
  LET top == CHOOSE p \in r.places : \A q \in r.places : q[2] <= p[2]
  IN IF r.signed THEN SignExtend(Gathered(w, r.places), top[2]) ELSE Gathered(w, r.places)
\* What a row says of a word: its instruction, the immediate, bit by bit, and rs2.
Follows(i, w, r) ==
  /\ i # Illegal /\ i.name = r.of
  /\ r.places # {} => i.imm = Documented(r, w)
  /\ r.rs2 # "none" => i.rs2 = IF r.rs2 = "full" THEN Dec!Low(w) ELSE Dec!Short(w, 4)
\* The words of which the code does not hold what the tables say: the arithmetic
\* is selected by 00 (both shifts, which bit 12 tells apart), 01 and 10; c.mv
\* becomes an addi of the number of rs2; c.addi4spn to x8 is refused, and so is
\* x0 as the destination of c.addiw, c.li, c.slli, c.lwsp and c.ldsp.
Contradicted(r, w) ==
  \/ r \in ArithmeticTable /\ ~ (r.of = "srli" /\ Bit(w, 12) = 0)
  \/ r.quadrant = 2 /\ r.of = "add" /\ Bit(w, 12) = 0
  \/ r.quadrant = 0 /\ r.of = "addi" /\ Dec!Short(w, 4) = 8
  \/ <<r.quadrant, r.funct>> \in {<<1, 1>>, <<1, 2>>, <<2, 0>>, <<2, 2>>, <<2, 3>>}
       /\ Dec!Full(w) = 0
\* A compressed instruction is a short form of one of 32 bits: assembled in full
\* and decoded again it means the same (decode_rvc against decode), c.jalr x1
\* apart; and of the words that the tables in the comments of decode.cpp document,
\* exactly those that Contradicted names are not the instruction of their row,
\* with an immediate put together as the row says.
CompressedExpands ==
  Returned("half") =>
    /\ WellTyped(result)
    /\ result # Illegal /\ ~ CallsThroughLink(result) => Expands(result)
    /\ \A r \in RowsOf(call.bits) :
         Contradicted(r, call.bits) <=> ~ Follows(result, call.bits, r)

-------------------------------------------------------------------------------
\* Quotient and remainder belong together for every pair of operands, the
\* divisor zero and the one overflow included: the dividend is the divisor
\* times the quotient plus the remainder, and the remainder is smaller.
DivisionIdentity ==
  Returned("op") /\ call.name \in {"div", "divu"} =>
    LET r == Reg!ExecOp(IF call.name = "div" THEN "rem" ELSE "remu", call.a, call.b)
        size(v) == IF call.name = "div" THEN Reg!Magnitude(Signed(v, XLEN)) ELSE v
    IN /\ call.a = Unsigned(call.b * result + r, XLEN)
       /\ call.b # 0 => size(r) < size(call.b)

\* The two halves of a product are those of the product of the numbers the
\* instruction takes its operands for.
ProductWhole ==
  Returned("op") /\ call.name \in {"mulh", "mulhsu", "mulhu"} =>
    LET low == Reg!ExecOp("mul", call.a, call.b)
        x == IF call.name = "mulhu" THEN call.a ELSE Signed(call.a, XLEN)
        y == IF call.name = "mulh" THEN Signed(call.b, XLEN) ELSE call.b
        high == IF call.name = "mulhu" THEN result ELSE Signed(result, XLEN)
    IN high * 2 ^ XLEN + low = x * y

\* An instruction on words depends on the lower halves only, and computes what
\* the one on registers computes from words extended by sign or by zeros.
WordsAgree ==
  Returned("op32") =>
    LET signed(v) == Reg!WordToRegister(Reg!Lower(v))
        full == "addw" :> "add" @@ "subw" :> "sub" @@ "mulw" :> "mul" @@ "divw" :> "div"
                  @@ "remw" :> "rem" @@ "divuw" :> "divu" @@ "remuw" :> "remu"
        unsigned == call.name \in {"divuw", "remuw"}
        operand(v) == IF unsigned THEN Reg!Lower(v) ELSE signed(v)
    IN /\ result = Reg!ExecOp32(call.name, Reg!Lower(call.a), Reg!Lower(call.b))
       /\ call.name \in DOMAIN full =>
            result = signed(Reg!ExecOp(full[call.name], operand(call.a), operand(call.b)))

\* Branches compare as slt and sltu do, and one that is not taken leaves pc.
BranchesCompare ==
  Returned("branch") =>
    LET less == Reg!ExecOp(IF call.name \in {"bltu", "bgeu"} THEN "sltu" ELSE "slt", call.a, call.b)
    IN /\ call.name \in {"blt", "bltu"} => (result.taken <=> less = 1)
       /\ call.name \in {"bge", "bgeu"} => (result.taken <=> less = 0)
       /\ ~ result.taken => result.pc = call.pc

\* A CSR access changes no bit outside of its field, and writing the value
\* read back puts the field as it was.
FieldsIsolated ==
  Returned("csr") =>
    LET outside(v) == <<v % 2 ^ call.lo, v \div 2 ^ (call.hi + 1)>>
    IN /\ outside(result.csr) = outside(call.b)
       /\ Reg!ExecCsr(1, call.hi, call.lo, result.old, result.csr).csr = call.b

\* An immediate is extended by its sign before it is used, also where it is
\* compared unsigned: xori with -1 inverts, sltiu with -1 finds all but one.
ImmediatesExtend ==
  Returned("opimm") /\ call.imm = -1 =>
    /\ call.name = "xori" => result = NotBits(call.a, XLEN)
    /\ call.name = "sltiu" => (result = 0 <=> call.a = 2 ^ XLEN - 1)
    /\ call.name = "addi" => result = Reg!ExecOp("sub", call.a, 1)

\* The integer instructions agree with each other and with the numbers they
\* stand for (rvi64.cpp).
IntegerLaws ==
  DivisionIdentity /\ ProductWhole /\ WordsAgree /\ BranchesCompare /\ FieldsIsolated
    /\ ImmediatesExtend

-------------------------------------------------------------------------------
(***************************************************************************)
(* Exact arithmetic on floating-point numbers.  The magnitude of a number  *)
(* is an integer, in units of the smallest one of its format.              *)
(***************************************************************************)
Finite(F, ui) == ExpUI(F, ui) # Top(F)
Magnitude(F, k) ==
  IF k < Hidden(F) THEN k ELSE (Hidden(F) + (k % Hidden(F))) * 2 ^ (k \div Hidden(F) - 1)
Value(F, ui) == (IF SignUI(F, ui) = 1 THEN -1 ELSE 1) * Magnitude(F, Size(F, ui))
UnitsOfOne(F) == 2 ^ (Bias(F) + F.frac - 1)
Largest(F) == Infinity(F, 0) - 1

\* The number of F that num / den rounds to: the lower neighbour or the next.
Nearest(F, sign, num, den, rm) ==
  LET m == CHOOSE k \in 0 .. Largest(F) :
             /\ Magnitude(F, k) * den <= num
             /\ k = Largest(F) \/ Magnitude(F, k + 1) * den > num
      twice == (Magnitude(F, m) + Magnitude(F, m + 1)) * den
      up == CASE rm = NearEven -> 2 * num > twice \/ (2 * num = twice /\ m % 2 = 1)
              [] rm = NearMaxMag -> 2 * num >= twice
              [] rm = MinMag -> FALSE
              [] rm = RoundMin -> sign = 1
              [] rm = RoundMax -> sign = 0
              [] rm = RoundOdd -> m % 2 = 0
  IN IF Magnitude(F, m) * den # num /\ up THEN m + 1 ELSE m
\* The flags, from what the number would be with exponents of one more bit.
ExactFlags(F, sign, num, den, rm) ==
  LET wider == [F EXCEPT !.exp = @ + 1]
      scale == 2 ^ (Bias(wider) - Bias(F))
      unbounded == Magnitude(wider, Nearest(wider, sign, num * scale, den, rm))
      over == unbounded >= scale * Magnitude(F, Largest(F) + 1)
      inexact == over \/ Magnitude(F, Nearest(F, sign, num, den, rm)) * den # num
  IN {x \in {"inexact", "overflow", "underflow"} :
        CASE x = "inexact" -> inexact
          [] x = "overflow" -> over
          [] x = "underflow" -> inexact /\ unbounded < scale * Hidden(F)}
AbsoluteOf(x) == IF x < 0 THEN -x ELSE x
Rounds(r, F, x, den, rm) ==
  LET sign == Truth(x < 0)
      size == AbsoluteOf(x)
  IN IF x = 0 THEN Size(F, r.ui) = 0 /\ r.flags = {}
     ELSE r = Result(Pack(F, sign, 0, Nearest(F, sign, size, den, rm)),
                     ExactFlags(F, sign, size, den, rm))
\* The integer that x / den rounds to.
RoundedInteger(x, den, rm) ==
  LET q == x \div den
      r == x % den
      up == CASE rm = NearEven -> 2 * r > den \/ (2 * r = den /\ q % 2 = 1)
              [] rm = NearMaxMag -> 2 * r > den \/ (2 * r = den /\ x > 0)
              [] rm = MinMag -> x < 0
              [] rm = RoundMin -> FALSE
              [] rm = RoundMax -> TRUE
              [] rm = RoundOdd -> q % 2 = 0
  IN IF r # 0 /\ up THEN q + 1 ELSE q

\* What a root r of v / units squared is rounded to.
RootRounds(F, r, v, rm) ==
  LET s == Magnitude(F, r.ui)
      next == Magnitude(F, r.ui + 1)
      previous == Magnitude(F, r.ui - 1)
  IN /\ (s * s = v) = (r.flags = {})
     /\ rm \in {MinMag, RoundMin} => s * s <= v /\ next * next > v
     /\ rm = RoundMax => s * s >= v /\ previous * previous < v
     /\ rm \in {NearEven, NearMaxMag} =>
          (s + next) * (s + next) > 4 * v /\ (s + previous) * (s + previous) < 4 * v
\* An estimate r of 1 / a, and of 1 / sqrt(a), has seven good bits where it is
\* a normal number and a is.
InverseEstimated(F, a, r) ==
  ExpUI(F, r) \in 1 .. Top(F) - 1 /\ ExpUI(F, a) # 0 =>
    AbsoluteOf(Value(F, a) * Value(F, r) - UnitsOfOne(F) ^ 2) * 2 ^ 7 < UnitsOfOne(F) ^ 2
RootEstimated(F, a, r) ==
  ExpUI(F, r) \in 1 .. Top(F) - 1 /\ ExpUI(F, a) # 0 =>
    AbsoluteOf(Value(F, a) * (Value(F, r) * Value(F, r)) - UnitsOfOne(F) ^ 3)
      < UnitsOfOne(F) ^ 3 \div 2 ^ 6

\* The exact results that are rounded to a number, as a numerator in the units
\* of the format and a denominator.
Ratio(num, den) == [num |-> IF den < 0 THEN -num ELSE num, den |-> AbsoluteOf(den)]
NumbersOf(f) == CASE f.name \in {"add", "sub", "mul", "div"} -> {f.a, f.b}
                  [] f.name = "mulAdd" -> {f.a, f.b, f.c}
                  [] f.name = "convert" -> {f.a}
                  [] f.name = "fromInteger" -> {}
Roundable(f) ==
  /\ f.name \in {"add", "sub", "mul", "div", "mulAdd", "convert", "fromInteger"}
  /\ \A ui \in NumbersOf(f) : Finite(f.F, ui)
  /\ f.name = "div" => ~ IsZero(f.F, f.b)
  /\ f.name = "convert" => f.G.frac < f.F.frac
  /\ f.name = "fromInteger" => f.F.frac <= 2
ExactRatio(f, v(_), one) ==
  CASE f.name = "add" -> Ratio(v(f.a) + v(f.b), 1)
    [] f.name = "sub" -> Ratio(v(f.a) - v(f.b), 1)
    [] f.name = "mul" -> Ratio(v(f.a) * v(f.b), one)
    [] f.name = "div" -> Ratio(v(f.a) * one, v(f.b))
    [] f.name = "mulAdd" -> Ratio(v(f.a) * v(f.b) + v(f.c) * one, one)
    [] f.name = "convert" -> Ratio(v(f.a), one \div UnitsOfOne(f.G))
    [] f.name = "fromInteger" -> Ratio(f.a * one, 1)
RoundsRatio(f, x) ==
  Rounds(result, IF f.name = "convert" THEN f.G ELSE f.F, x.num, x.den, f.rm)
\* Integers, roots, estimates and conversions to more bits.
ToRange(z, low, high, exact) ==
  IF z \in low .. high THEN result = Raised(z, IF exact THEN {} ELSE {"inexact"})
  ELSE result = Raised(IF z < low THEN low ELSE high, {"invalid"})
IsInteger(f, z, one, x) ==
  ToRange(z, LowestInt(f.signed, f.n), HighestInt(f.signed, f.n), z * one = x)
OtherResults(f, x, one) ==
  CASE f.name = "sqrt" -> x > 0 => RootRounds(f.F, result, x * one, f.rm)
    [] f.name = "toInteger" -> IsInteger(f, RoundedInteger(x, one, f.rm), one, x)
    [] f.name = "recip7" -> InverseEstimated(f.F, f.a, result.ui)
    [] f.name = "rsqrt7" -> x > 0 => RootEstimated(f.F, f.a, result.ui)
    [] f.name = "convert" ->
         f.F.frac < f.G.frac =>
           result.flags = {} /\ Value(f.G, result.ui) * one = x * UnitsOfOne(f.G)
    [] OTHER -> TRUE
\* Every operation gives the number nearest to the exact result in the rounding
\* mode, with the flags of IEEE 754, tininess detected after rounding
\* (softfloat: add, sub, mul, div, sqrt, mulAdd and the conversions).
RoundedExactly ==
  Returned("soft") =>
    LET f == call.function
        one == UnitsOfOne(f.F)
    IN IF Roundable(f) THEN RoundsRatio(f, ExactRatio(f, LAMBDA ui : Value(f.F, ui), one))
       ELSE Finite(f.F, f.a) => OtherResults(f, Value(f.F, f.a), one)

\* The same number another way: a sum is a product with one and an addend, a
\* product one to which a zero of its sign is added; quotients and roots are
\* found without estimates.
OtherWay(f) ==
  LET fused(b, c) == F16!MulAdd16(f.a, b, c, "", f.rm)
  IN CASE f.name = "f16_add" -> fused(15 * 1024, f.b)
       [] f.name = "f16_sub" -> fused(15 * 1024, Negated(F16!F16, f.b))
       [] f.name = "f16_mul" ->
            fused(f.b, Zero(F16!F16, SignOfProduct(F16!F16, f.a, f.b)))
       [] f.name = "f16_div" -> Div(F16!F16, f.a, f.b, f.rm)
       [] f.name = "f16_sqrt" -> Sqrt(F16!F16, f.a, f.rm)
\* The functions of float16_t give the same number and flags as fused operations
\* and exact quotients and roots do: no shortcut for numbers far apart, and no
\* bit of a table, shows in a result (f16_div, f16_sqrt, softfloat_addMagsF16,
\* softfloat_subMagsF16).
HalvesAgree ==
  Returned("half float") => result = OtherWay(call.function)

-------------------------------------------------------------------------------
Swapped(x) == [x EXCEPT !.rs1 = x.rs2, !.rs2 = x.rs1]
\* What comparisons and extremes of two registers give, also in the other order.
Answers(x) ==
  [t \in {"CMP", "MIN"} \X (0 .. 2) \X BOOLEAN |->
     ExecOpFp([IF t[3] THEN Swapped(x) ELSE x EXCEPT !.op = t[1], !.funct3 = t[2]]).value]
OrderedAs(F, a, b, answers) ==
  LET holds(n) == answers[<<"CMP", n, FALSE>>] = 1
      extreme(n) == Low(F, answers[<<"MIN", n, FALSE>>])
  IN /\ ~ IsNaN(F, a) /\ ~ IsNaN(F, b) =>
          /\ holds(1) <=> Value(F, a) < Value(F, b)
          /\ holds(2) <=> Value(F, a) = Value(F, b)
          /\ {extreme(0), extreme(1)} = {a, b}
          /\ Value(F, extreme(0)) <= Value(F, extreme(1))
     /\ holds(0) <=> holds(1) \/ holds(2)
     /\ \A n \in {0, 1} : answers[<<"MIN", n, FALSE>>] = answers[<<"MIN", n, TRUE>>]
Ordered(x) ==
  LET F == FormatOf[x.width + 1] IN OrderedAs(F, Low(F, x.rs1), Low(F, x.rs2), Answers(x))
\* flt, fle and feq are one order, that of the numbers; fmin and fmax choose by
\* it, the zeros told apart and NaNs given up, whichever operand comes first
\* (f32_lt_quiet, f32_le, f32_eq, f32_min, f32_max through exec_opfp).
OrderConsistent ==
  Returned("float") /\ call.instruction.op \in {"CMP", "MIN"} /\ call.instruction.width # 3 =>
    Ordered(call.instruction)

-------------------------------------------------------------------------------
(***************************************************************************)
(* Vector operations.                                                      *)
(***************************************************************************)
ModeUsed(c) == VectorRoundingMode(c.inst.funct3, c.frm)
KernelCall(c) ==
  CallOf(c.inst, c.ctx, c.vd, c.vs1, c.vs2, MaskOfContext(c.inst, c.ctx), ModeUsed(c))
Succeeded == Returned("vector") /\ result.status = "success"
OfFamilies(S) == FamilyOf(call.operation.inst) \in S
\* The elements to compute: all of those in range, of an instruction that is not
\* masked.
Worked(k) == {i \in k.vstart .. k.vl - 1 : k.nomask \/ k.mask[i] = 1}

\* The first k elements of one register group, and the others of another.
Joined(inst, sew, k, done, old) ==
  IF FamilyOf(inst) \in MaskResults
  THEN RewrittenMask(old, [i \in DOMAIN MaskBits(old) |->
                             IF i < k THEN MaskBits(done)[i] ELSE MaskBits(old)[i]])
  ELSE [b \in DOMAIN old |-> IF b < k * ResultBytes(inst, sew) THEN done[b] ELSE old[b]]
\* A result of all elements together: there is no point in between to resume at.
Collective ==
  {"Iota", "SetFirst", "Compress", "ReduceInteger", "ReduceWide", "VfReduce", "VfWideReduce",
   "Population", "FirstMarked", "MaskLogical"}
\* The same registers, and no more raised.
SameResult(r) ==
  r.vd = result.vd /\ r.flags \subseteq result.flags /\ r.vcsr <= result.vcsr
\* An operation that was interrupted before any of its elements and resumed
\* there with vstart gives what it gives in one go, and raises nothing that it
\* does not raise then (the loops from vstart to vl, and exec_opv).
ResumedAgrees ==
  Succeeded /\ ~ OfFamilies(Collective) /\ call.operation.ctx.vstart = 0 =>
    LET c == call.operation
    IN \A k \in 1 .. c.ctx.vl - 1 :
         SameResult(Performed([c EXCEPT !.ctx.vstart = k,
                                        !.vd = Joined(c.inst, c.ctx.sew, k, result.vd, c.vd)]))

\* The instruction that gives the carry of one that gives the sum.
WithCarryOut(inst) ==
  [inst EXCEPT !.name = IF @ = "vadc" THEN "vmadc" ELSE "vmsbc", !.vrdView = "mask"]
Chained(c, k, low, out) ==
  \A i \in k.vstart .. k.vl - 1 :
    IF c.inst.name = "vadc"
    THEN low[i] + 2 ^ Width(k) * out[i] = k.vs2[i] + k.vs1[i] + CarryIn(k, i)
    ELSE low[i] - 2 ^ Width(k) * out[i] = k.vs2[i] - k.vs1[i] - CarryIn(k, i)
\* vadc and vmadc, and vsbc and vmsbc, are the two halves of one sum or
\* difference: chained, they compute with numbers of any width.
CarryChain ==
  Succeeded /\ OfFamilies({"AddCarry", "SubBorrow"}) =>
    LET c == call.operation
    IN Chained(c, KernelCall(c), Elements(result.vd, c.ctx.sew),
               MaskBits(Performed([c EXCEPT !.inst = WithCarryOut(@)]).vd))

\* x / d rounded as vxrm says: to the nearest, up or to even from the middle,
\* down, or to the odd neighbour.
RoundedFixed(x, d, rm) ==
  LET q == x \div d
      r == x % d
  IN CASE rm = Rnu -> IF 2 * r >= d THEN q + 1 ELSE q
       [] rm = Rne -> IF 2 * r > d \/ (2 * r = d /\ q % 2 = 1) THEN q + 1 ELSE q
       [] rm = Rdn -> q
       [] rm = Rup -> IF r # 0 /\ q % 2 = 0 THEN q + 1 ELSE q
\* The exact value of an element, before it is cut to its range.
ExactFixed(family, k, i) ==
  LET w == Width(k)
      a == First(k, i)
      b == Second(k, i)
  IN CASE family = "SaturatingAdd" -> a + b
       [] family = "SaturatingSub" -> a - b
       [] family = "Average" -> RoundedFixed(IF k.kernel = "vaadd" THEN a + b ELSE a - b, 2, k.rm)
       [] family = "FractionalMultiply" -> RoundedFixed(a * b, 2 ^ (w - 1), k.rm)
       [] family = "ScalingShift" -> RoundedFixed(a, 2 ^ (k.vs1[i] % w), k.rm)
       [] family = "Clip" ->
            RoundedFixed(Number(k, k.vs2[i], 2 * w), 2 ^ (k.vs1[i] % (2 * w)), k.rm)
CutTo(low, high, x) == CASE x < low -> low [] x > high -> high [] OTHER -> x
FixedElements(c, k, exact) ==
  LET low == Lowest(k.signed, Width(k))
      high == Highest(k.signed, Width(k))
      wraps == OfFamilies({"Average"})
  IN /\ \A i \in Worked(k) :
          Elements(result.vd, c.ctx.sew)[i]
            = Unsigned(IF wraps THEN exact[i] ELSE CutTo(low, high, exact[i]), Width(k))
     /\ result.vcsr % 2
          = Truth(c.ctx.vcsr % 2 = 1
                    \/ /\ ~ wraps
                       /\ \E i \in Worked(k) : exact[i] \notin low .. high)
     /\ result.vcsr \div 2 = c.ctx.vcsr \div 2
FixedAgrees(c, k) ==
  FixedElements(c, k, [i \in Worked(k) |-> ExactFixed(FamilyOf(c.inst), k, i)])
\* A fixed-point result is the exact one rounded once, cut to its range, and
\* vxsat is set if and only if some computed element was cut (vfxp.hpp).
FixedPointExact ==
  Succeeded /\ OfFamilies(FixedFamilies) =>
    FixedAgrees(call.operation, KernelCall(call.operation))

\* An instruction that is masked by less than request_reg_bytes asks of vmask.
ShortMask(c) ==
  /\ c.inst.funct7 % 2 = 0 /\ DOMAIN c.ctx.vmask # {}
  /\ ByteCount(c.ctx.vmask) < RequestRegBytes(c.ctx, "vreg", "mask")
\* What exec_opv demands of the sizes of its operands is enough: nothing is
\* read or written beyond the bytes that request_reg_bytes asks for.  Slides down
\* and gathers read up to vlmax; the averages are decoded with a view of one
\* element and write all.  Of vmask only an eighth of the bytes is demanded: what
\* lies behind a shorter one is read, and counts as part of it.
StaysWithinRequest ==
  Succeeded /\ ~ OfFamilies({"SlideDown", "Gather", "Average"}) =>
    LET c == call.operation
        inst == c.inst
        asked(raw, n) == [b \in DOMAIN raw |-> IF b < n THEN raw[b] ELSE 0]
        only == [c EXCEPT !.vs1 = asked(@, RequestRegBytes(c.ctx, inst.rs1Type, inst.vrs1View)),
                          !.vs2 = asked(@, RequestRegBytes(c.ctx, inst.rs2Type, inst.vrs2View)),
                          !.ctx.vmask = asked(@, RequestRegBytes(c.ctx, "vreg", "mask")),
                          !.ctx.beyond = IF ShortMask(c) THEN @ ELSE 0]
    IN /\ Performed(only) = result
       /\ \A b \in DOMAIN c.vd : b >= RequestRegBytes(c.ctx, inst.rdType, inst.vrdView) =>
            result.vd[b] = c.vd[b]

\* The scalar instruction of a vector one, with the order of its operands.
ScalarInteger ==
  "vadd" :> "add" @@ "vsub" :> "sub" @@ "vrsub" :> "sub" @@ "vand" :> "and" @@ "vor" :> "or"
    @@ "vxor" :> "xor" @@ "vsll" :> "sll" @@ "vsrl" :> "srl" @@ "vsra" :> "sra" @@ "vmul" :> "mul"
    @@ "vmulh" :> "mulh" @@ "vmulhu" :> "mulhu" @@ "vmulhsu" :> "mulhsu" @@ "vdiv" :> "div"
    @@ "vdivu" :> "divu" @@ "vrem" :> "rem" @@ "vremu" :> "remu"
ScalarFloat ==
  "vfadd" :> "ADD" @@ "vfsub" :> "SUB" @@ "vfrsub" :> "SUB" @@ "vfmul" :> "MUL" @@ "vfdiv" :> "DIV"
    @@ "vfrdiv" :> "DIV" @@ "vfsqrt" :> "SQRT" @@ "vfmin" :> "MIN" @@ "vfmax" :> "MIN"
    @@ "vfsgnj" :> "SGNJ" @@ "vfsgnjn" :> "SGNJ" @@ "vfsgnjx" :> "SGNJ"
FloatVariant == "vfmin" :> 0 @@ "vfmax" :> 1 @@ "vfsgnj" :> 0 @@ "vfsgnjn" :> 1 @@ "vfsgnjx" :> 2
ScalarFused ==
  "vfmacc" :> "fmadd" @@ "vfnmacc" :> "fnmadd" @@ "vfmsac" :> "fmsub" @@ "vfnmsac" :> "fnmsub"
    @@ "vfmadd" :> "fmadd" @@ "vfnmadd" :> "fnmadd" @@ "vfmsub" :> "fmsub" @@ "vfnmsub" :> "fnmsub"
Scalars(n) == INSTANCE IntegerOps WITH XLEN <- n
WidthCode(sew) == CASE sew = 2 -> 2 [] sew = 4 -> 0 [] sew = 8 -> 1
ScalarInstruction(sew, op, funct3, a, b, c) ==
  [op |-> op, name |-> op, width |-> WidthCode(sew), funct3 |-> funct3, frm |-> 0, rs2field |-> 0,
   rs1 |-> a, rs2 |-> b, rs3 |-> c]
\* What the scalar floating-point instruction makes of the operands of element i.
ScalarResult(stem, k, i) ==
  LET a == k.vs2[i]
      b == k.vs1[i]
      d == k.vd[i]
      swapped == stem \in {"vfrsub", "vfrdiv"}
      multiplied == IF stem \in {"vfmacc", "vfnmacc", "vfmsac", "vfnmsac"} THEN a ELSE d
  IN IF stem \in DOMAIN ScalarFloat
     THEN ExecOpFp(ScalarInstruction(k.sew, ScalarFloat[stem],
                     IF stem \in DOMAIN FloatVariant THEN FloatVariant[stem] ELSE k.frm,
                     IF swapped THEN b ELSE a, IF swapped THEN a ELSE b, 0))
     ELSE ExecMulAdd(ScalarInstruction(k.sew, ScalarFused[stem], k.frm, b, multiplied,
                                       IF multiplied = a THEN d ELSE a))
\* Where the sign of what is given back differs between the two: the addend of
\* a product that is zero, sums that are rounded before they are negated, and
\* NaNs, which are negated as well.
SignsDiffer(stem, k, i) ==
  LET F == FormatOfSize(k.sew)
  IN stem \in DOMAIN ScalarFused
       /\ \/ k.frm \notin {NearEven, NearMaxMag}
          \/ \E v \in {k.vs1[i], k.vs2[i], k.vd[i]} : Size(F, v) = 0 \/ IsInf(F, v) \/ IsNaN(F, v)

FollowsInteger(stem, k, out) ==
  \A i \in Worked(k) :
    LET reversed == stem = "vrsub"
    IN out[i] = Scalars(Width(k))!ExecOp(ScalarInteger[stem],
                                         IF reversed THEN k.vs1[i] ELSE k.vs2[i],
                                         IF reversed THEN k.vs2[i] ELSE k.vs1[i])
FollowsFloat(k, out, scalar) ==
  /\ \A i \in Worked(k) : out[i] = Low(FormatOfSize(k.sew), scalar[i].value)
  /\ result.flags = UNION {scalar[i].flags : i \in Worked(k)}
FollowsAs(stem, k, out) ==
  /\ stem \in DOMAIN ScalarInteger => FollowsInteger(stem, k, out)
  /\ stem \in DOMAIN ScalarFloat \union DOMAIN ScalarFused /\ HasFormat(k.sew)
       /\ (\A i \in Worked(k) : ~ SignsDiffer(stem, k, i)) =>
       FollowsFloat(k, out, [i \in Worked(k) |-> ScalarResult(stem, k, i)])
\* A vector instruction does to its elements what the scalar instruction of its
\* name does to registers as wide: vint.hpp against rvi64.cpp, vfp.hpp against
\* rvf64.cpp, each with code of its own.
VectorFollowsScalar ==
  Succeeded =>
    LET c == call.operation
    IN FollowsAs(c.inst.name, KernelCall(c), Elements(result.vd, c.ctx.sew))

-------------------------------------------------------------------------------
\* The memory bytes of an access with the register bytes that go with them.
Moved(d) == {<<d.addr + k - 1, d.bytes[k]>> : k \in DOMAIN d.bytes}
\* Those that an instruction names, element by element.
NamedBytes(c) ==
  LET nf == Extract(c.inst.funct7, 6, 4)
      width == ElementBytes(c.ctx.sew, c.inst.vrdView)
      mask == IF c.inst.funct7 % 2 = 1 THEN [i \in 0 .. c.ctx.vl |-> 1]
              ELSE ExpandMask(c.ctx.vl, c.ctx.vmask)
      place(n) == IF c.inst.control = "vload" THEN n ELSE c.vs3[n]
  IN {<<c.base + ElementOffset(c.inst, c.base, c.vs2, t[1]) + t[2] * width + t[3],
        place(t[1] * width + t[2] * FieldStride(c.ctx.lmul) + t[3])>> :
        t \in {i \in c.ctx.vstart .. c.ctx.vl - 1 : mask[i] = 1} \X (0 .. nf) \X (0 .. width - 1)}
\* However accesses are cut at the boundary and joined again, together they move
\* the bytes of the elements, and none of them crosses the boundary
\* (split_descriptor and merge_descriptors).
AccessesCover ==
  Returned("access") /\ result.status = "success" =>
    LET c == call.request
        pieces == {result.desc[n] : n \in DOMAIN result.desc}
    IN /\ c.boundary # 0 => \A d \in pieces :
            d.addr \div c.boundary = (d.addr + Len(d.bytes) - 1) \div c.boundary
       /\ c.inst.name \in ContiguousNames \union StridedNames \union IndexedNames =>
            UNION {Moved(d) : d \in pieces} = NamedBytes(c)

\* A unit-stride load fills the elements from vstart to vl with consecutive ones
\* of the memory and leaves every other register as it was, whatever lines the
\* accesses were cut into; a store from element 0 does the opposite
\* (normalize_unit_stride_loads, prepare_vector_load, finish_vector_memory_response).
UnitStrideMoves ==
  Returned("hart") /\ result.kind # "fault" =>
    LET h == call.step.hart
        w == call.step.inst
        base == h.x[w.rs1]
        group(r, b) == r.v[w.rs3 + b \div VLenBytes][b % VLenBytes]
        moved == h.vstart * h.sew .. h.vl * h.sew - 1
    IN /\ w.control = "vload" =>
            \A r \in DOMAIN h.v, b \in 0 .. VLenBytes - 1 :
              LET n == (r - w.rd) * VLenBytes + b
              IN result.hart.v[r][b] = IF n \in moved THEN call.step.mem[base + n] ELSE h.v[r][b]
       /\ w.control = "vstore" /\ h.vstart = 0 =>
            \A p \in DOMAIN result.mem :
              result.mem[p] = IF p - base \in moved THEN group(h, p - base) ELSE call.step.mem[p]
       /\ w.control = "vload" => result.mem = call.step.mem
       /\ w.control \in {"vload", "vstore"} =>
            result.hart.x = h.x /\ result.hart.retired = h.retired + 1

-------------------------------------------------------------------------------
(***************************************************************************)
(* Messages.                                                               *)
(***************************************************************************)
Encoded(r, decoded(_), other(_), readable) ==
  result # Illegal =>
    /\ decoded(result) = (IF readable THEN r ELSE Illegal)
    /\ other(result) = Illegal
    /\ readable => \A n \in 0 .. Len(result) - 1 : decoded(SubSeq(result, 1, n)) = Illegal
\* A message is read as what was written, whole or not at all: decoding gives
\* back what was encoded, no part of it and nothing with the tag of the other
\* direction is accepted, and what is accepted is the encoding of what it is
\* read as.  A read with data, and data of 2^16 bytes and more, can be written
\* and not read (memory_protocol.cpp).
MessagesReadBack ==
  Returned("message") =>
    LET of == call.message.of
    IN CASE call.message.name = "encode_request" ->
              Encoded(of, Bytes!decode_request, Bytes!decode_response,
                      of.op = Bytes!ReadOp => of.data = <<>>)
         [] call.message.name = "encode_response" ->
              Encoded(of, Bytes!decode_response, Bytes!decode_request,
                      Len(of.data) < 2 ^ (2 * ByteBits))
         [] call.message.name = "decode_request" ->
              result # Illegal => Bytes!encode_request(result) = of
         [] call.message.name = "decode_response" ->
              result # Illegal => Bytes!encode_response(result) = of

-------------------------------------------------------------------------------
(***************************************************************************)
(* What the repository says of its functions and they do not do.           *)
(***************************************************************************)

\* fmsub is fmadd with the sign of the addend inverted, as the definition that
\* the comment before exec_madd keeps computes it (rvf64.cpp, exec_msub).
MsubNegatesAddend ==
  Returned("float") /\ call.instruction.op = "MADD" /\ call.instruction.name = "fmsub" =>
    LET x == call.instruction
        F == FormatOf[x.width + 1]
        c == Low(F, x.rs3)
        inverted == [x EXCEPT !.name = "fmadd", !.rs3 = NanBox(F, Negated(F, c))]
    IN IsNaN(F, c) \/ result = ExecMulAdd(inverted)

\* The jumps of RV64I: jalr goes to the address in the register rs1, as it was
\* before the link was written, plus the immediate, whichever registers it names.
JumpsFollowRegister ==
  Returned("hart") /\ call.step.inst.opcode = "jalr" /\ result.kind = "commit" =>
    LET h == call.step.hart
        w == call.step.inst
        there == Unsigned(h.x[w.rs1] + w.imm, XLen)
    IN result.hart.pc = 2 * (there \div 2)
==============================================================================
