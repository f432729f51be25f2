------------------------------ MODULE SoftFloat -------------------------------
(***************************************************************************)
(* The floating-point library (softfloat/), for one format at a time.  A   *)
(* format F has F.exp bits of exponent, F.frac of fraction, and F.guard    *)
(* bits below the fraction while a result is being rounded: 5, 10, 4 for   *)
(* float16_t, 8, 23, 7 for float32_t and 11, 52, 10 for float64_t.  The    *)
(* files of the three formats differ in nothing else but how they hold a   *)
(* product.  A number is its bit pattern; an operation gives the pattern   *)
(* of its result and the exception flags that it raises.                   *)
(***************************************************************************)
EXTENDS Words, FiniteSets

NearEven == 0
MinMag == 1
RoundMin == 2
RoundMax == 3
NearMaxMag == 4
RoundOdd == 5

Bias(F) == 2 ^ (F.exp - 1) - 1
Top(F) == 2 ^ F.exp - 1 \* the exponent of the infinities and NaNs
Hidden(F) == 2 ^ F.frac
One(F) == 2 ^ (F.frac + F.guard)
SignUI(F, ui) == Bit(ui, F.exp + F.frac)
ExpUI(F, ui) == Extract(ui, F.exp + F.frac - 1, F.frac)
FracUI(F, ui) == ui % Hidden(F)
Pack(F, sign, exp, sig) == sign * 2 ^ (F.exp + F.frac) + exp * Hidden(F) + sig

IsNaN(F, ui) == ExpUI(F, ui) = Top(F) /\ FracUI(F, ui) # 0
IsSigNaN(F, ui) == IsNaN(F, ui) /\ Bit(ui, F.frac - 1) = 0
IsInf(F, ui) == ExpUI(F, ui) = Top(F) /\ FracUI(F, ui) = 0
IsZero(F, ui) == ExpUI(F, ui) = 0 /\ FracUI(F, ui) = 0
DefaultNaN(F) == Pack(F, 0, Top(F), Hidden(F) \div 2)
Zero(F, sign) == Pack(F, sign, 0, 0)
Infinity(F, sign) == Pack(F, sign, Top(F), 0)
Size(F, ui) == ui % 2 ^ (F.exp + F.frac)
Different(F, a, b) == SignUI(F, a) # SignUI(F, b)
Xor(s, t) == (s + t) % 2

Result(ui, flags) == [ui |-> ui, flags |-> flags]
Exact(ui) == Result(ui, {})
Invalid(F) == Result(DefaultNaN(F), {"invalid"})
InvalidIf(b) == IF b THEN {"invalid"} ELSE {}
\* softfloat_propagateNaNF32UI: the payload is not kept.
PropagateNaN(F, a, b) ==
  Result(DefaultNaN(F), InvalidIf(IsSigNaN(F, a) \/ IsSigNaN(F, b)))
\* The zero of a sum that cancels.
Cancelled(F, rm) == Exact(Zero(F, IF rm = RoundMin THEN 1 ELSE 0))

Log2(v) == CHOOSE k \in 0 .. 30 : 2 ^ k <= v /\ (k = 30 \/ v < 2 ^ (k + 1))
\* Mutant: what is shifted out is lost.
Jam_Lost(a, dist) == IF dist >= 30 THEN 0 ELSE a \div 2 ^ dist
\* softfloat_shiftRightJam32: what is shifted out is or-ed into the lowest bit.
Jam(a, dist) ==
  IF dist >= 30 THEN IF a = 0 THEN 0 ELSE 1
  ELSE LET q == a \div 2 ^ dist
       IN IF a % 2 ^ dist = 0 \/ q % 2 = 1 THEN q ELSE q + 1
Scaled(a, dist) == IF dist >= 0 THEN Jam(a, dist) ELSE a * 2 ^ (-dist)

RoundIncrement(F, sign, rm) ==
  CASE rm \in {NearEven, NearMaxMag} -> 2 ^ (F.guard - 1)
    [] rm = (IF sign = 1 THEN RoundMin ELSE RoundMax) -> 2 ^ F.guard - 1
    [] OTHER -> 0
\* The integer nearest to sig / 2 ^ guard, a tie going to the even one.
RoundedOff(F, sign, sig, rm) ==
  LET bits == sig % 2 ^ F.guard
      sum == (sig + RoundIncrement(F, sign, rm)) \div 2 ^ F.guard
  IN CASE rm = RoundOdd /\ bits # 0 -> 2 * (sum \div 2) + 1
       [] rm = NearEven /\ bits = 2 ^ (F.guard - 1) -> 2 * (sum \div 2)
       [] OTHER -> sum

\* softfloat_roundPackToF32: sig is One(F) .. 2 * One(F) - 1 for the exponent
\* exp + 1; tininess is detected after rounding.
PackRounded(F, sign, exp, kept, rounded, carries) ==
  LET inexact == kept % 2 ^ F.guard # 0
      tiny == exp < -1 \/ (exp = -1 /\ ~ carries)
  IN Result(Pack(F, sign, IF exp < 0 \/ rounded = 0 THEN 0 ELSE exp, rounded),
            {x \in {"inexact", "underflow"} : inexact /\ (x = "underflow" => tiny)})
RoundKept(F, sign, exp, kept, carries, rm) ==
  PackRounded(F, sign, exp, kept, RoundedOff(F, sign, kept, rm), carries)
RoundPack(F, sign, exp, sig, rm) ==
  LET inc == RoundIncrement(F, sign, rm)
      carries == sig + inc >= 2 * One(F)
  IN IF exp > Top(F) - 2 \/ (exp = Top(F) - 2 /\ carries)
     THEN Result(Infinity(F, sign) - (IF inc = 0 THEN 1 ELSE 0), {"overflow", "inexact"})
     ELSE RoundKept(F, sign, exp, IF exp < 0 THEN Jam(sig, -exp) ELSE sig, carries, rm)
\* A sum or a product that may be one bit short.
Lengthened(F, sign, exp, sig, rm) ==
  LET short == IF sig < One(F) THEN 1 ELSE 0
  IN RoundPack(F, sign, exp - short, sig * 2 ^ short, rm)
\* softfloat_normRoundPackToF32: a result that has no bits to round off is packed.
NormRoundPack(F, sign, exp, sig, rm) ==
  LET dist == F.frac + F.guard - Log2(sig)
  IN IF dist >= F.guard /\ exp - dist \in 0 .. Top(F) - 3
     THEN Exact(Pack(F, sign, exp - dist, sig * 2 ^ (dist - F.guard)))
     ELSE RoundPack(F, sign, exp - dist, sig * 2 ^ dist, rm)

\* A number that is not zero with its hidden bit: softfloat_normSubnormalF32Sig.
ShiftedUp(frac, dist) == [exp |-> 1 - dist, sig |-> frac * 2 ^ dist]
Normal(F, ui) ==
  IF ExpUI(F, ui) # 0 THEN [exp |-> ExpUI(F, ui), sig |-> Hidden(F) + FracUI(F, ui)]
  ELSE ShiftedUp(FracUI(F, ui), F.frac - Log2(FracUI(F, ui)))

-------------------------------------------------------------------------------
\* softfloat_addMagsF32, for numbers that are added with the sign of a, and
\* softfloat_subMagsF32: x has the exponent that is not the smaller one.
\* The fraction of the smaller number in line with that of the larger, whose
\* hidden bit is one; that of a subnormal number has no hidden bit.
Behind(F, x, y, frac, one) ==
  Jam(frac + (IF ExpUI(F, y) # 0 THEN one ELSE frac), ExpUI(F, x) - ExpUI(F, y))
SumOfLarger(F, sign, x, y, rm) ==
  LET ex == ExpUI(F, x)
      half == One(F) \div 2
      same == 2 * Hidden(F) + FracUI(F, x) + FracUI(F, y)
      shifted(ui) == FracUI(F, ui) * 2 ^ (F.guard - 1)
  IN IF IsNaN(F, x) \/ IsNaN(F, y) THEN PropagateNaN(F, x, y)
     ELSE IF ex = Top(F) THEN Exact(Infinity(F, sign))
     ELSE IF ex = 0 THEN Exact(Pack(F, sign, 0, FracUI(F, x) + FracUI(F, y)))
     ELSE IF ex = ExpUI(F, y) /\ same % 2 = 0 /\ ex < Top(F) - 1
     THEN Exact(Pack(F, sign, ex, same \div 2))
     ELSE Lengthened(F, sign, ex,
                     IF ex = ExpUI(F, y) THEN same * 2 ^ (F.guard - 1)
                     ELSE half + shifted(x) + Behind(F, x, y, shifted(y), half), rm)
AddMags(F, a, b, rm) ==
  IF ExpUI(F, a) < ExpUI(F, b) THEN SumOfLarger(F, SignUI(F, a), b, a, rm)
                               ELSE SumOfLarger(F, SignUI(F, a), a, b, rm)

\* Numbers of one exponent differ by a number that needs no rounding.
ExactDifference(F, sign, exp, diff, rm) ==
  LET free == IF exp # 0 THEN exp - 1 ELSE 0
      wanted == F.frac - Log2(diff)
      dist == IF wanted > free THEN free ELSE wanted
  IN IF diff = 0 THEN Cancelled(F, rm) ELSE Exact(Pack(F, sign, free - dist, diff * 2 ^ dist))
DifferenceOfLarger(F, sign, x, y, rm) ==
  LET ex == ExpUI(F, x)
      shifted(ui) == FracUI(F, ui) * 2 ^ F.guard
  IN IF IsNaN(F, x) \/ IsNaN(F, y) THEN PropagateNaN(F, x, y)
     ELSE IF IsInf(F, x) THEN IF IsInf(F, y) THEN Invalid(F) ELSE Exact(Infinity(F, sign))
     ELSE IF ex = ExpUI(F, y) THEN ExactDifference(F, sign, ex, FracUI(F, x) - FracUI(F, y), rm)
     ELSE NormRoundPack(F, sign, ex - 1,
                        One(F) + shifted(x) - Behind(F, x, y, shifted(y), One(F)), rm)
SubMags(F, a, b, rm) ==
  IF Size(F, a) < Size(F, b) THEN DifferenceOfLarger(F, 1 - SignUI(F, a), b, a, rm)
                             ELSE DifferenceOfLarger(F, SignUI(F, a), a, b, rm)

AddOrSub(F, a, b, opposite, rm) ==
  IF opposite THEN SubMags(F, a, b, rm) ELSE AddMags(F, a, b, rm)
Add(F, a, b, rm) == AddOrSub(F, a, b, Different(F, a, b), rm)
Sub(F, a, b, rm) == AddOrSub(F, a, b, ~ Different(F, a, b), rm)

-------------------------------------------------------------------------------
SignOfProduct(F, a, b) == Xor(SignUI(F, a), SignUI(F, b))
Product(F, sign, na, nb, rm) ==
  Lengthened(F, sign, na.exp + nb.exp - Bias(F), Scaled(na.sig * nb.sig, F.frac - F.guard + 1), rm)
Mul(F, a, b, rm) ==
  LET sign == SignOfProduct(F, a, b)
  IN IF IsNaN(F, a) \/ IsNaN(F, b) THEN PropagateNaN(F, a, b)
     ELSE IF IsInf(F, a) \/ IsInf(F, b)
     THEN IF IsZero(F, a) \/ IsZero(F, b) THEN Invalid(F) ELSE Exact(Infinity(F, sign))
     ELSE IF IsZero(F, a) \/ IsZero(F, b) THEN Exact(Zero(F, sign))
     ELSE Product(F, sign, Normal(F, a), Normal(F, b), rm)

\* The quotient is cut off; the remainder is or-ed in where it would look exact.
Inexactly(F, sign, exp, quotient, exact, rm) ==
  RoundPack(F, sign, exp,
            IF quotient % 2 ^ (F.guard - 1) = 0 /\ ~ exact THEN quotient + 1 ELSE quotient, rm)
Divided(F, sign, exp, dividend, divisor, rm) ==
  Inexactly(F, sign, exp, dividend \div divisor, dividend % divisor = 0, rm)
QuotientOf(F, sign, na, nb, small, rm) ==
  Divided(F, sign, na.exp - nb.exp + Bias(F) - 1 - small,
          na.sig * 2 ^ (F.frac + F.guard + small), nb.sig, rm)
DivideNormal(F, sign, na, nb, rm) ==
  QuotientOf(F, sign, na, nb, IF na.sig < nb.sig THEN 1 ELSE 0, rm)
Div(F, a, b, rm) ==
  LET sign == SignOfProduct(F, a, b)
  IN IF IsNaN(F, a) \/ IsNaN(F, b) THEN PropagateNaN(F, a, b)
     ELSE IF IsInf(F, a) THEN IF IsInf(F, b) THEN Invalid(F) ELSE Exact(Infinity(F, sign))
     ELSE IF IsInf(F, b) THEN Exact(Zero(F, sign))
     ELSE IF IsZero(F, b)
     THEN IF IsZero(F, a) THEN Invalid(F) ELSE Result(Infinity(F, sign), {"infinite"})
     ELSE IF IsZero(F, a) THEN Exact(Zero(F, sign))
     ELSE DivideNormal(F, sign, Normal(F, a), Normal(F, b), rm)

\* The largest number of n bits whose square is at most v.
Root(v, n) ==
  LET upto[i \in 0 .. n] ==
        IF i = 0 THEN 0
        ELSE LET next == upto[i - 1] + 2 ^ (n - i) IN IF next * next <= v THEN next ELSE upto[i - 1]
  IN upto[n]
\* The tables of approximations give the root but for bits that do not matter:
\* what is left is or-ed into the lowest bit.
StickyRoot(root, radicand) ==
  IF root % 2 = 0 /\ root * root # radicand THEN root + 1 ELSE root
RootOf(F, radicand) == StickyRoot(Root(radicand, F.frac + F.guard + 1), radicand)
SqrtNormal(F, n, rm) ==
  RoundPack(F, 0, (n.exp - Bias(F)) \div 2 + Bias(F) - 1,
            RootOf(F, n.sig * 2 ^ (F.frac + 2 * F.guard + (IF n.exp % 2 = 1 THEN 0 ELSE 1))), rm)
Sqrt(F, a, rm) ==
  IF IsNaN(F, a) THEN PropagateNaN(F, a, Zero(F, 0))
  ELSE IF IsZero(F, a) \/ (IsInf(F, a) /\ SignUI(F, a) = 0) THEN Exact(a)
  ELSE IF SignUI(F, a) = 1 THEN Invalid(F)
  ELSE SqrtNormal(F, Normal(F, a), rm)

-------------------------------------------------------------------------------
\* softfloat_mulAddF32: a product p of twice the bits, to which c is aligned.
HalfBits(F) == F.frac + F.guard + 2
RoundRest(F, sign, exp, size, dist, rm) ==
  RoundPack(F, sign, exp - dist, Scaled(size, HalfBits(F) - dist), rm)
SignedRest(F, sign, exp, rest, rm) ==
  IF rest = 0 THEN Cancelled(F, rm)
  ELSE IF rest < 0
  THEN RoundRest(F, 1 - sign, exp, -rest, 2 * (F.frac + F.guard + 1) - Log2(-rest), rm)
  ELSE RoundRest(F, sign, exp, rest, 2 * (F.frac + F.guard + 1) - Log2(rest), rm)
AlignedSum(F, p, sp, exp, sigC, sc, diff, rm) ==
  LET top == IF diff < 0 THEN exp ELSE p.exp
      double == sigC * 2 ^ HalfBits(F)
  IN IF sp = sc
     THEN Lengthened(F, sp, top, IF diff <= 0 THEN sigC + Jam(p.sig, HalfBits(F) - diff)
                                 ELSE Jam(p.sig + Jam(double, diff), HalfBits(F)), rm)
     ELSE SignedRest(F, IF diff < 0 THEN sc ELSE sp, top,
                     IF diff < 0 THEN double - Jam(p.sig, -diff) ELSE p.sig - Jam(double, diff), rm)
PlusNormal(F, p, sp, n, sc, rm) ==
  AlignedSum(F, p, sp, n.exp, n.sig * 2 ^ (F.guard - 1), sc, p.exp - n.exp, rm)
PlusAddend(F, p, sp, c, sc, rm) ==
  IF IsZero(F, c) THEN RoundPack(F, sp, p.exp - 1, Jam(p.sig, F.frac + F.guard + 1), rm)
                  ELSE PlusNormal(F, p, sp, Normal(F, c), sc, rm)
DoubleProduct(F, exp, full) ==
  IF full < 2 ^ (2 * (F.frac + F.guard) + 1) THEN [exp |-> exp, sig |-> 2 * full]
                                            ELSE [exp |-> exp + 1, sig |-> full]
ProductOfNormals(F, na, nb) ==
  DoubleProduct(F, na.exp + nb.exp - Bias(F), na.sig * nb.sig * 2 ^ (2 * F.guard))
\* op asks for the negation of c or of the product; where c is the result it is
\* given back with the sign it came with.
MulAddSigned(F, a, b, c, sp, sc, rm) ==
  LET inf == IsInf(F, a) \/ IsInf(F, b)
      zero == IsZero(F, a) \/ IsZero(F, b)
      nan == IsNaN(F, a) \/ IsNaN(F, b)
  IN IF nan \/ IsNaN(F, c)
     THEN Result(DefaultNaN(F), InvalidIf(\/ \E v \in {a, b, c} : IsSigNaN(F, v)
                                          \/ ~ nan /\ inf /\ zero))
     ELSE IF inf
     THEN IF zero \/ (IsInf(F, c) /\ sc # sp) THEN Invalid(F) ELSE Exact(Infinity(F, sp))
     ELSE IF IsInf(F, c) THEN Exact(c)
     ELSE IF zero THEN IF IsZero(F, c) /\ sc # sp THEN Cancelled(F, rm) ELSE Exact(c)
     ELSE PlusAddend(F, ProductOfNormals(F, Normal(F, a), Normal(F, b)), sp, c, sc, rm)
MulAdd(F, a, b, c, op, rm) ==
  MulAddSigned(F, a, b, c, Xor(SignOfProduct(F, a, b), IF op = "subProd" THEN 1 ELSE 0),
               Xor(SignUI(F, c), IF op = "subC" THEN 1 ELSE 0), rm)
==============================================================================
