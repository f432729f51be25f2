------------------------------ MODULE FloatExec -------------------------------
(***************************************************************************)
(* The scalar floating-point instructions (rvf/rvf64.cpp).  A call has the *)
(* format in the lowest bits of funct7, the rounding mode or the variant   *)
(* in funct3, and the registers as words of the double format.             *)
(***************************************************************************)
EXTENDS SoftFloat, TLC

-------------------------------------------------------------------------------
(***************************************************************************)
(* The rest of the floating-point library that the processor calls:        *)
(* comparisons, classes, conversions and the estimates of seven bits.      *)
(***************************************************************************)
Raised(value, flags) == [value |-> value, flags |-> flags]
BothZero(F, a, b) == Size(F, a) = 0 /\ Size(F, b) = 0

\* The order of two numbers that are not NaN.
Below(F, a, b) ==
  IF Different(F, a, b) THEN SignUI(F, a) = 1 /\ ~ BothZero(F, a, b)
  ELSE a # b /\ (SignUI(F, a) = 1) # (a < b)
Compared(F, a, b, quiet, holds) ==
  LET signals == IF quiet THEN IsSigNaN(F, a) \/ IsSigNaN(F, b) ELSE TRUE
  IN IF IsNaN(F, a) \/ IsNaN(F, b) THEN Raised(FALSE, InvalidIf(signals))
     ELSE Raised(holds, {})
Eq(F, a, b) == Compared(F, a, b, TRUE, a = b \/ BothZero(F, a, b))
Lt(F, a, b) == Compared(F, a, b, FALSE, Below(F, a, b))
LtQuiet(F, a, b) == Compared(F, a, b, TRUE, Below(F, a, b))
Le(F, a, b) == Compared(F, a, b, FALSE, a = b \/ BothZero(F, a, b) \/ Below(F, a, b))

\* f32_max and f32_min: a NaN loses to a number, and -0 is below +0.
Extreme(F, a, b, less, sign) ==
  LET quiet == InvalidIf(IsSigNaN(F, a) \/ IsSigNaN(F, b))
  IN IF IsNaN(F, a) /\ IsNaN(F, b) THEN Result(DefaultNaN(F), quiet)
     ELSE Result(IF less.value \/ (Eq(F, a, b).value /\ sign = 1) \/ IsNaN(F, b) THEN a ELSE b,
                 quiet)
FloatMax(F, a, b) == Extreme(F, a, b, LtQuiet(F, b, a), SignUI(F, b))
\* Mutant: the zeros are not told apart.
FloatMin_Zeros(F, a, b) == Extreme(F, a, b, LtQuiet(F, a, b), 0)
FloatMin(F, a, b) == Extreme(F, a, b, LtQuiet(F, a, b), SignUI(F, a))

\* f32_classify: the number of the bit that is set.
Classify(F, a) ==
  LET kind == CASE IsInf(F, a) -> 0
                [] ExpUI(F, a) \in 1 .. Top(F) - 1 -> 1
                [] ExpUI(F, a) = 0 /\ FracUI(F, a) # 0 -> 2
                [] IsZero(F, a) -> 3
  IN IF IsNaN(F, a) THEN IF IsSigNaN(F, a) THEN 8 ELSE 9
     ELSE IF SignUI(F, a) = 1 THEN kind ELSE 7 - kind

-------------------------------------------------------------------------------
\* softfloat_roundToI32 and its kind: the largest integers for what does not
\* fit, whichever the sign of a NaN is.
LowestInt(signed, n) == IF signed THEN -2 ^ (n - 1) ELSE 0
HighestInt(signed, n) == IF signed THEN 2 ^ (n - 1) - 1 ELSE 2 ^ n - 1
RoundToInteger(F, sign, sig, signed, n, rm) ==
  LET size == RoundedOff(F, sign, sig, rm)
      z == IF sign = 1 THEN -size ELSE size
  IN IF z \in LowestInt(signed, n) .. HighestInt(signed, n)
     THEN Raised(z, IF sig % 2 ^ F.guard # 0 THEN {"inexact"} ELSE {})
     ELSE Raised(IF sign = 1 THEN LowestInt(signed, n) ELSE HighestInt(signed, n), {"invalid"})
\* f32_to_i32, f32_to_ui32, f32_to_i64 and f32_to_ui64, with inexact reported.
ToInteger(F, a, signed, n, rm) ==
  LET exp == ExpUI(F, a)
      sig == (IF exp # 0 THEN Hidden(F) ELSE 0) + FracUI(F, a)
      sign == IF IsNaN(F, a) THEN 0 ELSE SignUI(F, a)
  IN IF exp - Bias(F) >= n
     THEN Raised(IF sign = 1 THEN LowestInt(signed, n) ELSE HighestInt(signed, n), {"invalid"})
     ELSE RoundToInteger(F, sign, Scaled(sig, Bias(F) + F.frac - F.guard - exp), signed, n, rm)
\* f32_to_i16 and the others for small integers: an integer of 32 bits, m
\* here, is cut to n.
ToSmall(F, a, signed, n, m, rm) ==
  LET fitted(z) ==
        CASE z.value > HighestInt(signed, n) -> Raised(HighestInt(signed, n), {"invalid"})
          [] z.value < LowestInt(signed, n) -> Raised(LowestInt(signed, n), {"invalid"})
          [] OTHER -> z
  IN fitted(ToInteger(F, a, signed, m, rm))

\* i32_to_f32 and its kind.
FromInteger(F, v, rm) ==
  LET sign == IF v < 0 THEN 1 ELSE 0
      size == IF v < 0 THEN -v ELSE v
      top == Log2(size)
  IN IF v = 0 THEN Exact(0)
     ELSE RoundPack(F, sign, Bias(F) + top - 1, Scaled(size, top - F.frac - F.guard), rm)

\* f32_to_f16 and f32_to_f64, from the format F to G.
Narrow(F, G, a, rm) ==
  LET sig == Jam(FracUI(F, a), F.frac - G.frac - G.guard)
  IN IF IsZero(F, a) THEN Exact(Zero(G, SignUI(F, a)))
     ELSE RoundPack(G, SignUI(F, a), ExpUI(F, a) - Bias(F) + Bias(G) - 1, One(G) + sig, rm)
WidenNormal(F, G, sign, n) ==
  Exact(Pack(G, sign, n.exp - Bias(F) + Bias(G), (n.sig - Hidden(F)) * 2 ^ (G.frac - F.frac)))
Widen(F, G, a) ==
  IF IsZero(F, a) THEN Exact(Zero(G, SignUI(F, a)))
  ELSE WidenNormal(F, G, SignUI(F, a), Normal(F, a))
Convert(F, G, a, rm) ==
  CASE IsNaN(F, a) -> Result(DefaultNaN(G), InvalidIf(IsSigNaN(F, a)))
    [] IsInf(F, a) -> Exact(Infinity(G, SignUI(F, a)))
    [] ExpUI(F, a) # Top(F) -> IF F.frac < G.frac THEN Widen(F, G, a) ELSE Narrow(F, G, a, rm)

-------------------------------------------------------------------------------
\* fall_reciprocal.c: the fractions of the estimates, by the first seven bits.
RootTable ==
  <<52, 51, 50, 48, 47, 46, 44, 43, 42, 41, 40, 39, 38, 36, 35, 34, 33, 32, 31, 30, 30, 29, 28,
    27, 26, 25, 24, 23, 23, 22, 21, 20, 19, 19, 18, 17, 16, 16, 15, 14, 14, 13, 12, 12, 11, 10,
    10, 9, 9, 8, 7, 7, 6, 6, 5, 4, 4, 3, 3, 2, 2, 1, 1, 0, 127, 125, 123, 121, 119, 118, 116,
    114, 113, 111, 109, 108, 106, 105, 103, 102, 100, 99, 97, 96, 95, 93, 92, 91, 90, 88, 87,
    86, 85, 84, 83, 82, 80, 79, 78, 77, 76, 75, 74, 73, 72, 71, 70, 70, 69, 68, 67, 66, 65, 64,
    63, 63, 62, 61, 60, 59, 59, 58, 57, 56, 56, 55, 54, 53>>
InverseTable ==
  <<127, 125, 123, 121, 119, 117, 116, 114, 112, 110, 109, 107, 105, 104, 102, 100, 99, 97, 96,
    94, 93, 91, 90, 88, 87, 85, 84, 83, 81, 80, 79, 77, 76, 75, 74, 72, 71, 70, 69, 68, 66, 65,
    64, 63, 62, 61, 60, 59, 58, 57, 56, 55, 54, 53, 52, 51, 50, 49, 48, 47, 46, 45, 44, 43, 42,
    41, 40, 40, 39, 38, 37, 36, 35, 35, 34, 33, 32, 31, 31, 30, 29, 28, 28, 27, 26, 25, 25, 24,
    23, 23, 22, 21, 21, 20, 19, 19, 18, 17, 17, 16, 15, 15, 14, 14, 13, 12, 12, 11, 11, 10, 9,
    9, 8, 8, 7, 7, 6, 5, 5, 4, 4, 3, 3, 2, 2, 1, 1, 0>>
\* The exponent and fraction of a number, a subnormal one being shifted up.
Fraction(F, n) == [exp |-> n.exp, frac |-> n.sig - Hidden(F)]
RootEstimate(F, a, n) ==
  LET index == 64 * (n.exp % 2) + (n.frac \div 2 ^ (F.frac - 6))
  IN Pack(F, SignUI(F, a), (3 * Bias(F) - 1 - n.exp) \div 2, RootTable[index + 1] * 2 ^ (F.frac - 7))
RootOfClass(F, a, class) ==
  CASE class \in {0, 1, 2, 8} -> Invalid(F)
    [] class = 9 -> Exact(DefaultNaN(F))
    [] class \in {3, 4} -> Result(Infinity(F, SignUI(F, a)), {"infinite"})
    [] class = 7 -> Exact(0)
    [] class \in {5, 6} -> Exact(RootEstimate(F, a, Fraction(F, Normal(F, a))))
Rsqrt7(F, a) == RootOfClass(F, a, Classify(F, a))
\* A result below the normal numbers is shifted down; one above them depends on rm.
InverseFraction(F, frac) == InverseTable[frac \div 2 ^ (F.frac - 7) + 1] * 2 ^ (F.frac - 7)
InverseEstimate(F, sign, n, frac, rm) ==
  LET exp == 2 * Bias(F) - 1 - n.exp
      half == frac \div 2 + Hidden(F) \div 2
      towards == rm = MinMag \/ (rm = RoundMin /\ sign = 0) \/ (rm = RoundMax /\ sign = 1)
  IN CASE n.exp < -1 -> Result(Infinity(F, sign) - (IF towards THEN 1 ELSE 0),
                            {"inexact", "overflow"})
       [] n.exp >= -1 /\ exp > 0 -> Exact(Pack(F, sign, exp, frac))
       [] exp = 0 -> Exact(Pack(F, sign, 0, half))
       [] exp = -1 -> Exact(Pack(F, sign, 0, half \div 2))
InverseOf(F, sign, n, rm) == InverseEstimate(F, sign, n, InverseFraction(F, n.frac), rm)
Recip7(F, a, rm) ==
  CASE IsInf(F, a) -> Exact(Zero(F, SignUI(F, a)))
    [] IsZero(F, a) -> Result(Infinity(F, SignUI(F, a)), {"infinite"})
    [] IsNaN(F, a) -> Result(DefaultNaN(F), InvalidIf(IsSigNaN(F, a)))
    [] ~ IsZero(F, a) /\ ExpUI(F, a) # Top(F) -> InverseOf(F, SignUI(F, a), Fraction(F, Normal(F, a)), rm)

-------------------------------------------------------------------------------
(***************************************************************************)
(* The instructions.                                                       *)
(***************************************************************************)
CONSTANTS Half, Single, Double \* float16_t, float32_t and float64_t

Bits(F) == 1 + F.exp + F.frac
XLen == Bits(Double)
FormatOf == <<Single, Double, Half>> \* of funct7 & 3, which is 3 for none of them
Low(F, r) == r % 2 ^ Bits(F)
Negated(F, ui) == Pack(F, 1 - SignUI(F, ui), 0, Size(F, ui))
SignExtended(v, n) == Unsigned(Signed(v, n), XLen)

\* nan_box_float_result: ones above the bits of the format.
NanBox(F, v) == v + 2 ^ XLen - 2 ^ Bits(F)
\* prepare_softfloat: the mode of the instruction, or of fcsr where it is dynamic.
FrmDyn == 7
RoundingMode(funct3, frm) ==
  LET rm == IF funct3 = FrmDyn THEN frm ELSE funct3 IN IF rm > 4 THEN NearEven ELSE rm

\* exec_madd, exec_msub, exec_nmsub and exec_nmadd: -(a * b) - c negates both.
NegatedPart == "fmadd" :> "" @@ "fmsub" :> "subC" @@ "fnmsub" :> "subProd" @@ "fnmadd" :> "subProd"
MulAddOf(name, F, a, b, c, rm) ==
  MulAdd(F, a, b, IF name = "fnmadd" THEN Negated(F, c) ELSE c, NegatedPart[name], rm)
BoxedResult(F, r) == Raised(NanBox(F, r.ui), r.flags)
ExecMulAdd(x) ==
  LET F == FormatOf[x.width + 1]
  IN IF x.width = 3 THEN Raised(0, {})
     ELSE BoxedResult(F, MulAddOf(x.name, F, Low(F, x.rs1), Low(F, x.rs2), Low(F, x.rs3),
                                  RoundingMode(x.funct3, x.frm)))

\* fadd_impl, fsub_impl, fmul_impl, fdiv_impl and fsqrt_impl.
Arithmetic(x, F, a, b, rm) ==
  CASE x.op \in {"ADD", "SUB"} -> Add(F, a, IF x.op = "SUB" THEN Negated(F, b) ELSE b, rm)
    [] x.op = "MUL" -> Mul(F, a, b, rm)
    [] x.op = "DIV" -> Div(F, a, b, rm)
    [] x.op = "SQRT" -> Sqrt(F, a, rm)
\* fsgnj_impl: the sign of b, its negation, or both signs.
SignInjected(F, a, b, variant) ==
  LET s == SignUI(F, b)
  IN Pack(F, CASE variant = 0 -> s [] variant = 1 -> 1 - s [] variant = 2 -> Xor(s, SignUI(F, a)),
          0, Size(F, a))
\* fcmp_impl
CompareOf(F, a, b, variant) ==
  CASE variant = 2 -> Eq(F, a, b) [] variant = 1 -> Lt(F, a, b) [] variant = 0 -> Le(F, a, b)
\* fcvtf2i_impl: the rs2 field names the integer; the unsigned one of 32 bits is
\* sign-extended as the other is.
IntegerBits(code) == IF code < 2 THEN Bits(Single) ELSE XLen
WordOf(r, n) == Raised(SignExtended(Unsigned(r.value, n), n), r.flags)
FloatToInteger(F, a, code, rm) ==
  WordOf(ToInteger(F, a, code % 2 = 0, IntegerBits(code), rm), IntegerBits(code))
\* fcvti2f_impl
IntegerToFloat(F, v, code, rm) ==
  LET word == Unsigned(v, IntegerBits(code))
  IN FromInteger(F, IF code % 2 = 0 THEN Signed(word, IntegerBits(code)) ELSE word, rm)
\* fmvf2f_impl
FloatToFloat(from, F, v, rm) ==
  IF from = F THEN Exact(Low(F, v)) ELSE Convert(from, F, Low(from, v), rm)

\* exec_opfp.  Formats and variants that there are not give zero, and the result
\* is boxed if the destination is a floating-point register.
ToFloat(x, F, rm) ==
  LET a == Low(F, x.rs1)
      b == Low(F, x.rs2)
  IN CASE x.op \in {"ADD", "SUB", "MUL", "DIV", "SQRT"} -> Arithmetic(x, F, a, b, rm)
       [] x.op = "SGNJ" -> Exact(IF x.funct3 > 2 THEN 0 ELSE SignInjected(F, a, b, x.funct3))
       [] x.op = "MIN" -> (CASE x.funct3 = 0 -> FloatMin(F, a, b)
                             [] x.funct3 = 1 -> FloatMax(F, a, b) [] OTHER -> Exact(0))
       [] x.op = "MVF2F" -> IF x.rs2field % 4 = 3 THEN Exact(0)
                            ELSE FloatToFloat(FormatOf[(x.rs2field % 4) + 1], F, x.rs1, rm)
       [] x.op = "CVTI2F" -> IntegerToFloat(F, x.rs1, x.rs2field % 4, rm)
       [] x.op = "MVI2F" -> Exact(a)
ToWord(x, F, rm) ==
  LET a == Low(F, x.rs1)
      number(holds) == Raised(IF holds.value THEN 1 ELSE 0, holds.flags)
  IN CASE x.op = "CMP" -> IF x.funct3 > 2 THEN Raised(0, {})
                          ELSE number(CompareOf(F, a, Low(F, x.rs2), x.funct3))
       [] x.op = "CVTF2I" -> FloatToInteger(F, a, x.rs2field % 4, rm)
       [] x.op = "MVF2I" -> Raised(IF x.funct3 = 1 THEN 2 ^ Classify(F, a)
                                   ELSE SignExtended(a, Bits(F)), {})
FloatResults == {"ADD", "SUB", "MUL", "DIV", "SQRT", "SGNJ", "MIN", "MVF2F", "CVTI2F", "MVI2F"}
WordResults == {"CMP", "CVTF2I", "MVF2I"}
ExecOpFp(x) ==
  LET F == FormatOf[x.width + 1]
      rm == RoundingMode(x.funct3, x.frm)
  IN CASE x.width = 3 \/ x.op \notin FloatResults \union WordResults -> Raised(0, {})
       [] x.width # 3 /\ x.op \in FloatResults -> BoxedResult(F, ToFloat(x, F, rm))
       [] x.width # 3 /\ x.op \in WordResults -> ToWord(x, F, rm)
==============================================================================
