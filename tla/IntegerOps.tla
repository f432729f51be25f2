------------------------------ MODULE IntegerOps ------------------------------
(***************************************************************************)
(* The execution of integer, branch, CSR and atomic instructions           *)
(* (rvi64.cpp and rva64.cpp) on registers of XLEN bits, whose lower half   *)
(* the instructions on words use.                                          *)
(***************************************************************************)
EXTENDS Words, TLC

CONSTANT XLEN \* bits of a register: 64

HalfWord == XLEN \div 2
\* int_cast<uint64_t>(int_cast<int32_t>(v))
WordToRegister(v) == Unsigned(Signed(v, HalfWord), XLEN)
Lower(v) == v % 2 ^ HalfWord

\* Division of C++: towards zero.
Magnitude(a) == IF a < 0 THEN -a ELSE a
Quotient(a, b) ==
  IF (a < 0) = (b < 0) THEN Magnitude(a) \div Magnitude(b)
                       ELSE -(Magnitude(a) \div Magnitude(b))
Remainder(a, b) == a - b * Quotient(a, b)
\* Division of words of n bits: by zero, and the one that overflows.
Divide(a, b, n) ==
  LET x == Signed(a, n)
      y == Signed(b, n)
  IN CASE y = 0 -> 2 ^ n - 1
       [] x = -2 ^ (n - 1) /\ y = -1 -> 2 ^ (n - 1)
       [] OTHER -> Unsigned(Quotient(x, y), n)
DivideUnsigned(a, b, n) == IF b = 0 THEN 2 ^ n - 1 ELSE a \div b
\* Mutant: the divisor zero gives zero.
Modulo_Zero(a, b, n) ==
  IF Signed(b, n) = 0 THEN 0 ELSE Unsigned(Remainder(Signed(a, n), Signed(b, n)), n)
Modulo(a, b, n) ==
  LET x == Signed(a, n)
      y == Signed(b, n)
  IN CASE y = 0 -> a
       [] x = -2 ^ (n - 1) /\ y = -1 -> 0
       [] OTHER -> Unsigned(Remainder(x, y), n)
ModuloUnsigned(a, b, n) == IF b = 0 THEN a ELSE a % b

\* mulh_impl, mulhsu_impl and mulhu_impl, for words of n bits.
MulHigh(a, b, n) == Unsigned((Signed(a, n) * Signed(b, n)) \div 2 ^ n, n)
MulHighMixed(a, b, n) == Unsigned((Signed(a, n) * b) \div 2 ^ n, n)
MulHighUnsigned(a, b, n) == (a * b) \div 2 ^ n

-------------------------------------------------------------------------------
\* exec_branch: whether it is taken.
Taken(name, a, b) ==
  CASE name = "beq" -> a = b
    [] name = "bne" -> a # b
    [] name = "blt" -> Signed(a, XLEN) < Signed(b, XLEN)
    [] name = "bge" -> Signed(a, XLEN) >= Signed(b, XLEN)
    [] name = "bltu" -> a < b
    [] name = "bgeu" -> a >= b
ExecBranch(name, a, b, pc, imm) ==
  [taken |-> Taken(name, a, b),
   pc |-> IF Taken(name, a, b) THEN Unsigned(pc + imm, XLEN) ELSE pc]

\* exec_op
ExecOp(name, a, b) ==
  LET amount == b % XLEN
  IN CASE name = "add" -> Unsigned(a + b, XLEN)
       [] name = "sub" -> Unsigned(a - b, XLEN)
       [] name = "sll" -> ShiftLeft(a, amount, XLEN)
       [] name = "slt" -> Truth(Signed(a, XLEN) < Signed(b, XLEN))
       [] name = "sltu" -> Truth(a < b)
       [] name = "xor" -> XorBits(a, b, XLEN)
       [] name = "srl" -> ShiftRight(a, amount)
       [] name = "sra" -> ShiftRightSigned(a, amount, XLEN)
       [] name = "or" -> OrBits(a, b, XLEN)
       [] name = "and" -> AndBits(a, b, XLEN)
       [] name = "mul" -> Unsigned(a * b, XLEN)
       [] name = "mulh" -> MulHigh(a, b, XLEN)
       [] name = "mulhsu" -> MulHighMixed(a, b, XLEN)
       [] name = "mulhu" -> MulHighUnsigned(a, b, XLEN)
       [] name = "div" -> Divide(a, b, XLEN)
       [] name = "divu" -> DivideUnsigned(a, b, XLEN)
       [] name = "rem" -> Modulo(a, b, XLEN)
       [] name = "remu" -> ModuloUnsigned(a, b, XLEN)

\* exec_opimm: the immediate is a number, not a word.
OpOfImm ==
  "addi" :> "add" @@ "slli" :> "sll" @@ "slti" :> "slt" @@ "sltiu" :> "sltu"
    @@ "xori" :> "xor" @@ "srli" :> "srl" @@ "srai" :> "sra" @@ "ori" :> "or" @@ "andi" :> "and"
ExecOpImm(name, a, imm) == ExecOp(OpOfImm[name], a, Unsigned(imm, XLEN))

\* exec_op32: on the lower halves, the result extended by its sign.
ExecOp32(name, a, b) ==
  LET x == Lower(a)
      y == Lower(b)
      amount == y % HalfWord
  IN WordToRegister(
       CASE name = "addw" -> Unsigned(x + y, HalfWord)
         [] name = "subw" -> Unsigned(x - y, HalfWord)
         [] name = "sllw" -> ShiftLeft(x, amount, HalfWord)
         [] name = "srlw" -> ShiftRight(x, amount)
         [] name = "sraw" -> ShiftRightSigned(x, amount, HalfWord)
         [] name = "mulw" -> Unsigned(x * y, HalfWord)
         [] name = "divw" -> Divide(x, y, HalfWord)
         [] name = "divuw" -> DivideUnsigned(x, y, HalfWord)
         [] name = "remw" -> Modulo(x, y, HalfWord)
         [] name = "remuw" -> ModuloUnsigned(x, y, HalfWord))
\* exec_opimm32
OpOfImm32 ==
  "addiw" :> "addw" @@ "slliw" :> "sllw" @@ "srliw" :> "srlw" @@ "sraiw" :> "sraw"
ExecOpImm32(name, a, imm) == ExecOp32(OpOfImm32[name], a, Unsigned(imm, XLEN))

\* exec_csr: the field of bits hi to lo is read, and written, set or cleared.
ExecCsr(op, hi, lo, rs1, csr) ==
  LET mask == (2 ^ (hi - lo + 1) - 1) * 2 ^ lo
      aligned == AndBits(ShiftLeft(rs1, lo, XLEN), mask, XLEN)
  IN [old |-> AndBits(csr, mask, XLEN) \div 2 ^ lo,
      csr |-> CASE op = 1 -> OrBits(AndBits(csr, NotBits(mask, XLEN), XLEN), aligned, XLEN)
                [] op = 2 -> OrBits(csr, aligned, XLEN)
                [] op = 3 -> AndBits(csr, NotBits(aligned, XLEN), XLEN)
                [] op = 0 -> csr]

\* exec_amo: order is the aq and rl bits, which choose the width.
AmoValue(name, a, m, n) ==
  LET smaller == Signed(a, n) < Signed(m, n)
  IN CASE name = "amoadd" -> Unsigned(a + m, n)
       [] name = "amoswap" -> a
       [] name = "lr" -> m
       [] name = "sc" -> 0
       [] name = "amoxor" -> XorBits(a, m, n)
       [] name = "amoand" -> AndBits(a, m, n)
       [] name = "amoor" -> OrBits(a, m, n)
       [] name = "amomin" -> IF smaller THEN a ELSE m
       [] name = "amomax" -> IF Signed(a, n) > Signed(m, n) THEN a ELSE m
       [] name = "amominu" -> IF a < m THEN a ELSE m
       [] name = "amomaxu" -> IF a > m THEN a ELSE m
ExecAmo(name, order, a, mem) ==
  [old |-> mem,
   mem |-> IF order = 2 THEN AmoValue(name, Lower(a), Lower(mem), HalfWord)
                        ELSE AmoValue(name, a, mem, XLEN)]
===============================================================================
