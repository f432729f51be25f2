------------------------------ MODULE HalfFloat ------------------------------
(***************************************************************************)
(* The arithmetic of float16_t as its own files compute it, at its own     *)
(* width: sums are formed in 32 bits, and quotients and roots come from    *)
(* tables of approximate reciprocals (platform.h does not define           *)
(* SOFTFLOAT_FAST_DIV32TO16).  What those files share with the other       *)
(* formats is SoftFloat's.                                                 *)
(***************************************************************************)
EXTENDS SoftFloat

F16 == [exp |-> 5, frac |-> 10, guard |-> 4]
Odd(v) == 2 * (v \div 2) + 1
\* softfloat_roundPackToF16, softfloat_normSubnormalF16Sig and
\* softfloat_propagateNaNF16UI: those of SoftFloat, for this format.
RoundPack16(sign, exp, sig, rm) == RoundPack(F16, sign, exp, sig, rm)
Normal16(ui) == Normal(F16, ui)
PropagateNaN16(a, b) == PropagateNaN(F16, a, b)
\* The significand; a subnormal number is doubled instead of its exponent.
SigOf(ui) == (IF ExpUI(F16, ui) = 0 THEN FracUI(F16, ui) ELSE 1024) + FracUI(F16, ui)
\* The upper half of 32 bits, the lower one or-ed in; 15 bits that end in four
\* zeros are packed as they are.
KeptHalf(sign, exp, sig, sig32, rm) ==
  IF sig32 % 2 ^ 16 = 0 /\ sig % 16 = 0 /\ exp \in 0 .. 29
  THEN Exact(Pack(F16, sign, exp, sig \div 16)) ELSE RoundPack16(sign, exp, sig, rm)
Kept(sign, exp, sig32, rm) == KeptHalf(sign, exp, Jam(sig32, 16), sig32, rm)

-------------------------------------------------------------------------------
\* A sum or difference with a number too small to show: the next number away
\* from zero, or towards it, if the rounding mode asks for it.
AddEpsilon(ui, rm) ==
  LET away == rm = (IF SignUI(F16, ui) = 1 THEN RoundMin ELSE RoundMax)
  IN CASE away -> Result(ui + 1, IF Size(F16, ui + 1) = Infinity(F16, 0)
                                 THEN {"overflow", "inexact"} ELSE {"inexact"})
       [] rm = RoundOdd -> Result(Odd(ui), {"inexact"})
       [] ~ away /\ rm # RoundOdd -> Result(ui, {"inexact"})
SubEpsilon(ui, rm) ==
  LET towards == rm \in {MinMag, IF SignUI(F16, ui) = 1 THEN RoundMax ELSE RoundMin}
  IN CASE towards -> Result(ui - 1, {"inexact"})
       [] rm = RoundOdd -> Result(Odd(ui - 1), {"inexact"})
       [] ~ towards /\ rm # RoundOdd -> Result(ui, {"inexact"})
Unchanged(sign, x) == Pack(F16, sign, ExpUI(F16, x), FracUI(F16, x))

ShortSum(sign, exp, sum, rm) ==
  IF sum < 2 ^ 30 THEN Kept(sign, exp - 1, 2 * sum, rm) ELSE Kept(sign, exp, sum, rm)
SumApart(sign, x, y, diff, rm) ==
  IF diff < 13
  THEN ShortSum(sign, ExpUI(F16, x),
                SigOf(x) * 2 ^ 19 + SigOf(y) * 2 ^ (19 - diff), rm)
  ELSE IF IsZero(F16, y) THEN Exact(Unchanged(sign, x)) ELSE AddEpsilon(Unchanged(sign, x), rm)
\* x has the larger exponent.
SumOfHalves(sign, x, y, rm) ==
  IF ExpUI(F16, x) \in {Top(F16), ExpUI(F16, y)} THEN SumOfLarger(F16, sign, x, y, rm)
  ELSE SumApart(sign, x, y, ExpUI(F16, x) - ExpUI(F16, y), rm)
AddMags16(a, b, rm) ==
  IF ExpUI(F16, a) < ExpUI(F16, b) THEN SumOfHalves(SignUI(F16, a), b, a, rm)
                                   ELSE SumOfHalves(SignUI(F16, a), a, b, rm)

ShiftedRest(sign, exp, rest, dist, rm) == Kept(sign, exp - dist, rest * 2 ^ dist, rm)
RestOf(sign, exp, rest, rm) == ShiftedRest(sign, exp, rest, 30 - Log2(rest), rm)
DifferenceApart(sign, x, y, diff, rm) ==
  IF diff < 13
  THEN RestOf(sign, ExpUI(F16, y) + 19, SigOf(x) * 2 ^ diff - SigOf(y), rm)
  ELSE IF IsZero(F16, y) THEN Exact(Unchanged(sign, x)) ELSE SubEpsilon(Unchanged(sign, x), rm)
SubMags16(a, b, rm) ==
  LET ea == ExpUI(F16, a)
      eb == ExpUI(F16, b)
  IN CASE ea = eb \/ Top(F16) \in {ea, eb} -> SubMags(F16, a, b, rm)
       [] ea < eb /\ eb # Top(F16) -> DifferenceApart(1 - SignUI(F16, a), b, a, eb - ea, rm)
       [] eb < ea /\ ea # Top(F16) -> DifferenceApart(SignUI(F16, a), a, b, ea - eb, rm)

Add16(a, b, rm) ==
  IF Different(F16, a, b) THEN SubMags16(a, b, rm) ELSE AddMags16(a, b, rm)
Sub16(a, b, rm) ==
  IF Different(F16, a, b) THEN AddMags16(a, b, rm) ELSE SubMags16(a, b, rm)

-------------------------------------------------------------------------------
\* Neither zero, infinite nor NaN: what is left when the special cases of
\* f16_mul, f16_div and f16_sqrt are done, which are those of SoftFloat.
Ordinary(ui) == ~ IsZero(F16, ui) /\ ExpUI(F16, ui) # Top(F16)

Product16(sign, na, nb, rm) ==
  Lengthened(F16, sign, na.exp + nb.exp - 15, Jam((na.sig * 16) * (nb.sig * 32), 16), rm)
Mul16(a, b, rm) ==
  IF Ordinary(a) /\ Ordinary(b)
  THEN Product16(SignOfProduct(F16, a, b), Normal16(a), Normal16(b), rm)
  ELSE Mul(F16, a, b, rm)
MulAdd16(a, b, c, op, rm) == MulAdd(F16, a, b, c, op, rm)

\* a * b div 2^16, by parts that the numbers of TLC can hold.
Upper(a, b) ==
  a * (b \div 2 ^ 16) + (a * ((b % 2 ^ 16) \div 2 ^ 8) + (a * (b % 2 ^ 8)) \div 2 ^ 8) \div 2 ^ 8

approxRecip_1k0s ==
  <<65476, 61630, 58211, 55151, 52397, 49904, 47638, 45569, 43671, 41926, 40314, 38822, 37436,
    36146, 34942, 33815>>
approxRecip_1k1s ==
  <<61681, 54828, 49057, 44151, 39946, 36315, 33157, 30394, 27963, 25812, 23900, 22193, 20662,
    19285, 18041, 16913>>
\* An approximation of 2^26 / divisor.
Reciprocal(divisor) ==
  LET index == ((divisor \div 64) % 16) + 1
  IN approxRecip_1k0s[index] - (approxRecip_1k1s[index] * (divisor % 64)) \div 2 ^ 10
Improved(dividend, divisor, guess, recip) ==
  guess + Upper(dividend * 1024 - guess * divisor, recip) \div 2 ^ 10
Guess(dividend, divisor, recip) ==
  Improved(dividend, divisor, Upper(dividend, recip), recip)
WithRemainder(even, rem) ==
  IF Bit(rem, 15) = 1 THEN even - 2 ELSE IF rem # 0 THEN Odd(even) ELSE even
\* The guess is at most one too small: only one that might be taken for exact,
\* or for the middle between two numbers, needs its remainder.
Settled(dividend, divisor, quotient) ==
  IF quotient % 8 # 0 THEN quotient
  ELSE WithRemainder(quotient, dividend * 1024 - quotient * divisor)
\* Mutant: the guess is taken for the quotient.
Quotient16_Guessed(dividend, divisor) ==
  Settled(dividend, divisor, Guess(dividend, divisor, Reciprocal(divisor)))
Quotient16(dividend, divisor) ==
  Settled(dividend, divisor, Guess(dividend, divisor, Reciprocal(divisor)) + 1)
DivideHalves(sign, na, nb, rm) ==
  IF na.sig < nb.sig
  THEN RoundPack16(sign, na.exp - nb.exp + 13, Quotient16(na.sig * 32, nb.sig), rm)
  ELSE RoundPack16(sign, na.exp - nb.exp + 14, Quotient16(na.sig * 16, nb.sig), rm)
Div16(a, b, rm) ==
  IF Ordinary(a) /\ Ordinary(b)
  THEN DivideHalves(SignOfProduct(F16, a, b), Normal16(a), Normal16(b), rm)
  ELSE Div(F16, a, b, rm)

approxRecipSqrt_1k0s ==
  <<46281, 65451, 43645, 61724, 41413, 58567, 39491, 55849, 37813, 53477, 36333, 51383, 35014,
    49517, 33828, 47841>>
approxRecipSqrt_1k1s ==
  <<42405, 59970, 35873, 50733, 30863, 43647, 26920, 38070, 23751, 33589, 21158, 29922, 19006,
    26878, 17195, 24317>>
RecipSqrt(sig, odd) ==
  LET index == (2 * ((sig \div 128) % 8)) + odd + 1
  IN approxRecipSqrt_1k0s[index] - (approxRecipSqrt_1k1s[index] * (sig % 128)) \div 2 ^ 11
\* One step of Newton's method; the result has its top bit set.
Corrected(sig, odd, r0) ==
  LET halfSquare == (r0 * (r0 \div 2)) + ((r0 % 2) * (r0 \div 2))
      sigma0 == 65535 - (Upper(sig, halfSquare \div 2 ^ odd) % 2 ^ 16)
      recip == r0 + Upper(r0, sigma0) \div 2 ^ 9
  IN IF Bit(recip, 15) = 1 THEN recip ELSE 2 ^ 15
RootGuess(sig, odd) == Upper(sig * 32, Corrected(sig, odd, RecipSqrt(sig, odd))) \div 2 ^ odd
\* negRem is the square less the radicand, in 16 bits.
WithNegRem(even, negRem) ==
  IF Bit(negRem, 15) = 1 THEN Odd(even) ELSE IF negRem # 0 THEN even - 1 ELSE even
SettledRoot(root) ==
  IF root % 8 # 0 THEN root ELSE WithNegRem(root, ((root \div 2) * (root \div 2)) % 2 ^ 16)
SqrtOfHalf(n, rm) ==
  RoundPack16(0, (n.exp - 15) \div 2 + 14, SettledRoot(RootGuess(n.sig, n.exp % 2) + 1), rm)
Sqrt16(a, rm) ==
  IF Ordinary(a) /\ SignUI(F16, a) = 0 THEN SqrtOfHalf(Normal16(a), rm) ELSE Sqrt(F16, a, rm)
==============================================================================
