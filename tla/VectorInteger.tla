---------------------------- MODULE VectorInteger -----------------------------
(***************************************************************************)
(* The kernels of the vector unit on integers, fixed-point numbers and     *)
(* masks (vint.hpp, vcommon.hpp, vfxp.hpp and, further down, vmsk.hpp,     *)
(* vperm.hpp and vrd.hpp).  A byte has ByteBits bits, so that TLC can go   *)
(* through all elements; in the code it has 8.  A call c is a record:      *)
(*   sew              bytes of an element: 1, 2, 4 or 8                    *)
(*   signed           whether the template is instantiated with SInt       *)
(*   vl, vstart       the elements vstart .. vl - 1 are computed           *)
(*   vd, vs2, vs1     register groups as functions from element numbers to *)
(*                    words; a mask register is a function to 0 and 1.     *)
(*                    For a scalar or an immediate vs1 is the same word at *)
(*                    every index: the loops of the _vv and the _vxi       *)
(*                    templates differ in nothing else.                    *)
(*   mask             the expanded mask, a function to 0 and 1             *)
(*   carries          whether the mask operand is a carry (vvm, vxm, vim)  *)
(***************************************************************************)
EXTENDS Words, FiniteSetsExt

CONSTANT ByteBits \* 8

Width(c) == ByteBits * c.sew
Number(c, v, n) == IF c.signed THEN Signed(v, n) ELSE v

\* The loops: over the active elements only, and over all of them.
\* Mutant: the loop starts at zero.
Active_Restarted(c, i) == i < c.vl
Active(c, i) == c.vstart <= i /\ i < c.vl
Masked(c, F(_)) ==
  [i \in DOMAIN c.vd |-> IF Active(c, i) /\ c.mask[i] = 1 THEN F(i) ELSE c.vd[i]]
Unmasked(c, F(_)) == [i \in DOMAIN c.vd |-> IF Active(c, i) THEN F(i) ELSE c.vd[i]]

\* expand_mask, from the bytes of a mask register.
ExpandMask(vl, packed) ==
  [i \in 0 .. vl - 1 |-> Bit(packed[i \div ByteBits], i % ByteBits)]

\* A kernel of one element to one element of the same width, on numbers of T.
SingleWidth(c, F(_, _)) ==
  LET w == Width(c)
  IN Masked(c, LAMBDA i : Unsigned(F(Number(c, c.vs2[i], w), Number(c, c.vs1[i], w)), w))
\* One whose elements of vd are twice as wide: undefined for the widest elements.
Widening(c, F(_, _, _), wide) ==
  LET w == Width(c)
      first(i) == Number(c, c.vs2[i], IF wide THEN 2 * w ELSE w)
  IN IF c.sew = 8 THEN c.vd
     ELSE Masked(c, LAMBDA i : Unsigned(F(first(i), Number(c, c.vs1[i], w), c.vd[i]), 2 * w))

-------------------------------------------------------------------------------
\* 11.1
AddSub(c) ==
  SingleWidth(c, LAMBDA a, b : CASE c.kernel = "vadd" -> a + b
                                 [] c.kernel = "vsub" -> a - b
                                 [] c.kernel = "vrsub" -> b - a)
\* 11.2: vs2 is narrow in the forms v and wide in the forms w.
WideAddSub(c) ==
  Widening(c, LAMBDA a, b, d : IF c.kernel = "vwadd" THEN a + b ELSE a - b, c.wide)
\* 11.3: vs2 has elements of sew \div c.factor bytes.
ExtendElements(c) ==
  Masked(c, LAMBDA i : Unsigned(Number(c, c.vs2[i], Width(c) \div c.factor), Width(c)))

\* 11.4: the carry out is found by comparing the sum with an operand.
CarryIn(c, i) == IF c.carries THEN c.mask[i] ELSE 0
SumOf(c, i) == Unsigned(c.vs2[i] + c.vs1[i] + CarryIn(c, i), Width(c))
DifferenceOf(c, i) == Unsigned(c.vs2[i] - c.vs1[i] - CarryIn(c, i), Width(c))
AddCarry(c) == Unmasked(c, LAMBDA i : SumOf(c, i))
\* Mutant: the carry in can bring the sum round to the operand.
CarryOut_NoCarryIn(c) == Unmasked(c, LAMBDA i : Truth(SumOf(c, i) < c.vs2[i]))
CarryOut(c) ==
  Unmasked(c, LAMBDA i : Truth(\/ SumOf(c, i) < c.vs2[i]
                               \/ CarryIn(c, i) = 1 /\ SumOf(c, i) = c.vs2[i]))
SubBorrow(c) == Unmasked(c, LAMBDA i : DifferenceOf(c, i))
BorrowOut(c) ==
  Unmasked(c, LAMBDA i : Truth(\/ DifferenceOf(c, i) > c.vs2[i]
                               \/ CarryIn(c, i) = 1 /\ DifferenceOf(c, i) = c.vs2[i]))

\* 11.5
Logical(c) ==
  LET w == Width(c)
  IN Masked(c, LAMBDA i : CASE c.kernel = "vand" -> AndBits(c.vs2[i], c.vs1[i], w)
                            [] c.kernel = "vor" -> OrBits(c.vs2[i], c.vs1[i], w)
                            [] c.kernel = "vxor" -> XorBits(c.vs2[i], c.vs1[i], w))
\* 11.6: the amount is cut to the bits the width needs.
ShiftAmount(c, i) == c.vs1[i] % Width(c)
Shift(c) ==
  LET w == Width(c)
      amount(i) == ShiftAmount(c, i)
  IN Masked(c, LAMBDA i : IF c.kernel = "vsl" THEN ShiftLeft(c.vs2[i], amount(i), w)
                          ELSE Unsigned(Number(c, c.vs2[i], w) \div 2 ^ amount(i), w))
\* 11.7: vs2 is wide, and the amount is one of its width.
NarrowShift(c) ==
  LET w == Width(c)
  IN IF c.sew = 8 THEN c.vd
     ELSE Masked(c, LAMBDA i :
            Unsigned(Number(c, c.vs2[i], 2 * w) \div 2 ^ (c.vs1[i] % (2 * w)), w))

\* 11.8: vmcomp_common_vv and _vxi with the comparison of each instruction.
Compare(c) ==
  LET w == Width(c)
      holds(a, b) == CASE c.kernel = "vmseq" -> a = b [] c.kernel = "vmsne" -> a # b
                       [] c.kernel = "vmslt" -> a < b [] c.kernel = "vmsle" -> a <= b
                       [] c.kernel = "vmsgt" -> a > b
  IN Masked(c, LAMBDA i : Truth(holds(Number(c, c.vs2[i], w), Number(c, c.vs1[i], w))))
\* 11.9
MinMax(c) ==
  SingleWidth(c, LAMBDA a, b : IF (c.kernel = "vmin") = (a < b) THEN a ELSE b)

-------------------------------------------------------------------------------
\* 11.10: the impl functions decide what an operand is read as, not T.
FirstFactor(kernel, v, n) ==
  IF kernel \in {"vmulhu", "vwmulu", "vwmaccu"} THEN v ELSE Signed(v, n)
\* Mutant: the second factor of the mixed products is signed too.
SecondFactor_Signed(kernel, v, n) ==
  IF kernel \in {"vmulhu", "vwmulu", "vwmaccu"} THEN v ELSE Signed(v, n)
SecondFactor(kernel, v, n) ==
  IF kernel \in {"vmulh", "vwmul", "vwmacc"} THEN Signed(v, n) ELSE v
ProductOf(kernel, a, b, n) == FirstFactor(kernel, a, n) * SecondFactor(kernel, b, n)
MulHighVector(c) ==
  LET w == Width(c)
  IN Masked(c, LAMBDA i :
       Unsigned(ProductOf(c.kernel, c.vs2[i], c.vs1[i], w) \div 2 ^ w, w))
Multiply(c) == SingleWidth(c, LAMBDA a, b : a * b)

\* 11.11: safe_vdiv and safe_vrem, with the divisor zero and the overflow.
Least(c) == -2 ^ (Width(c) - 1)
Towards0(a, b) ==
  LET size(v) == IF v < 0 THEN -v ELSE v
  IN IF (a < 0) = (b < 0) THEN size(a) \div size(b) ELSE -(size(a) \div size(b))
SafeDivide(c) ==
  SingleWidth(c, LAMBDA a, b : CASE b = 0 -> -1
                                 [] c.signed /\ a = Least(c) /\ b = -1 -> a
                                 [] OTHER -> Towards0(a, b))
SafeRemainder(c) ==
  SingleWidth(c, LAMBDA a, b : CASE b = 0 -> a
                                 [] c.signed /\ a = Least(c) /\ b = -1 -> 0
                                 [] OTHER -> a - b * Towards0(a, b))

\* 11.12
WideMultiply(c) ==
  LET w == Width(c)
  IN IF c.sew = 8 THEN c.vd
     ELSE Masked(c, LAMBDA i :
            Unsigned(ProductOf(c.kernel, c.vs2[i], c.vs1[i], w), 2 * w))
\* 11.13: the addend is vd or vs2, the other one is multiplied by vs1.
MultiplyAdd(c) ==
  LET w == Width(c)
      value(i) ==
        CASE c.kernel = "vmacc" -> c.vd[i] + c.vs2[i] * c.vs1[i]
          [] c.kernel = "vnmsac" -> c.vd[i] - c.vs2[i] * c.vs1[i]
          [] c.kernel = "vmadd" -> c.vs2[i] + c.vd[i] * c.vs1[i]
          [] c.kernel = "vnmsub" -> c.vs2[i] - c.vd[i] * c.vs1[i]
  IN Masked(c, LAMBDA i : Unsigned(value(i), w))
\* 11.14: vwmaccsu reads vs1 as signed and vs2 as unsigned, vwmaccus the
\* other way round.
WideMultiplyAdd(c) ==
  LET w == Width(c)
      product(i) == IF c.kernel = "vwmaccsu" THEN ProductOf("vwmaccsu", c.vs1[i], c.vs2[i], w)
                    ELSE ProductOf(c.kernel, c.vs2[i], c.vs1[i], w)
  IN IF c.sew = 8 THEN c.vd ELSE Masked(c, LAMBDA i : Unsigned(c.vd[i] + product(i), 2 * w))

\* 11.15: every element is written; the mask chooses its source.
Merge(c) == Unmasked(c, LAMBDA i : IF c.mask[i] = 1 THEN c.vs1[i] ELSE c.vs2[i])

-------------------------------------------------------------------------------
(***************************************************************************)
(* The fixed-point kernels.  A kernel gives the value of an element and    *)
(* whether it saturated; c.rm is the rounding mode of vcsr, VXRM.          *)
(***************************************************************************)
Rnu == 0
Rne == 1
Rdn == 2
Rup == 3 \* round to odd

\* Mutant: ties are not looked at for being even.
Increment_TiesDown(a, s, rm) ==
  CASE rm = Rnu -> Bit(a, s - 1) = 1
    [] rm = Rne -> Bit(a, s - 1) = 1 /\ a % 2 ^ (s - 1) # 0
    [] rm = Rdn -> FALSE
    [] rm = Rup -> Bit(a, s) = 0 /\ a % 2 ^ s # 0
\* roundoff_signed and roundoff_unsigned: the number a of n bits over 2^s.
Increment(a, s, rm) ==
  LET half == Bit(a, s - 1) = 1
      lower == a % 2 ^ (s - 1) # 0
      odd == Bit(a, s) = 1
  IN CASE rm = Rnu -> half
       [] rm = Rne -> half /\ (lower \/ odd)
       [] rm = Rdn -> FALSE
       [] rm = Rup -> ~ odd /\ a % 2 ^ s # 0
Roundoff(a, s, rm, n) ==
  CASE s = 0 -> a
    [] s >= n -> IF a < 0 THEN -1 ELSE 0
    [] OTHER -> a \div 2 ^ s + Truth(Increment(a, s, rm))

\* The range of a number of n bits, and the value that a result is cut to.
Lowest(signed, n) == IF signed THEN -2 ^ (n - 1) ELSE 0
Highest(signed, n) == IF signed THEN 2 ^ (n - 1) - 1 ELSE 2 ^ n - 1
Saturated(v, signed, n) ==
  CASE v > Highest(signed, n) -> <<Highest(signed, n), TRUE>>
    [] v < Lowest(signed, n) -> <<Lowest(signed, n), TRUE>>
    [] OTHER -> <<v, FALSE>>

\* The loops: the elements, and vxsat if an active one saturated.
Fixed(c, F(_)) ==
  [vd |-> Masked(c, LAMBDA i : Unsigned(F(i)[1], Width(c))),
   vxsat |-> \E i \in DOMAIN c.vd : Active(c, i) /\ c.mask[i] = 1 /\ F(i)[2]]

First(c, i) == Number(c, c.vs2[i], Width(c))
Second(c, i) == Number(c, c.vs1[i], Width(c))

\* 12.1: fxpadd_impl and fxpsub_impl compute in a type twice as wide; the
\* unsigned kernels find the overflow by comparing.
SaturatingAdd(c) ==
  Fixed(c, LAMBDA i : Saturated(First(c, i) + Second(c, i), c.signed, Width(c)))
SaturatingSub(c) ==
  Fixed(c, LAMBDA i : Saturated(First(c, i) - Second(c, i), c.signed, Width(c)))

\* 12.2: the sum of 2n bits.  vaadd_vv rounds it off as an unsigned number, its
\* _vxi as a signed one: the n bits that are kept are the same.
Average(c) ==
  LET w == Width(c)
      whole(i) == IF c.kernel = "vaadd" THEN First(c, i) + Second(c, i)
                                        ELSE First(c, i) - Second(c, i)
      unsigned == ~ c.signed \/ (c.kernel = "vaadd" /\ ~ c.scalar)
      sum(i) == IF unsigned THEN Unsigned(whole(i), 2 * w) ELSE whole(i)
  IN Fixed(c, LAMBDA i : <<Roundoff(sum(i), 1, c.rm, 2 * w), FALSE>>)

\* 12.3: only the product of the two smallest numbers does not fit.
FractionalMultiply(c) ==
  LET w == Width(c)
      least == -2 ^ (w - 1)
  IN Fixed(c, LAMBDA i : IF First(c, i) = least /\ Second(c, i) = least
                         THEN <<2 ^ (w - 1) - 1, TRUE>>
                         ELSE <<Roundoff(First(c, i) * Second(c, i), w - 1, c.rm, 2 * w), FALSE>>)
\* 12.4
ScalingShift(c) ==
  Fixed(c, LAMBDA i : <<Roundoff(First(c, i), ShiftAmount(c, i), c.rm, Width(c)), FALSE>>)
\* 12.5: rounded in the width of vs2, then cut to that of vd.
Clip(c) ==
  LET w == Width(c)
      rounded(i) == Roundoff(Number(c, c.vs2[i], 2 * w), c.vs1[i] % (2 * w), c.rm, 2 * w)
  IN Fixed(c, LAMBDA i : Saturated(rounded(i), c.signed, w))

-------------------------------------------------------------------------------
(***************************************************************************)
(* The kernels that look at more than one element: mask registers          *)
(* (vmsk.hpp), slides, gathers and compress (vperm.hpp), and integer       *)
(* reductions (vrd.hpp).  Mask registers are functions to 0 and 1; the     *)
(* loops over their bytes are loops over ByteBits of these.                *)
(***************************************************************************)
\* The bit of each mask-register operation.
MaskBit(kernel, a, b) ==
  Truth(CASE kernel = "vmand" -> a = 1 /\ b = 1
          [] kernel = "vmnand" -> ~ (a = 1 /\ b = 1)
          [] kernel = "vmandn" -> a = 1 /\ b = 0
          [] kernel = "vmxor" -> a # b
          [] kernel = "vmor" -> a = 1 \/ b = 1
          [] kernel = "vmnor" -> a = 0 /\ b = 0
          [] kernel = "vmorn" -> a = 1 \/ b = 0
          [] kernel = "vmxnor" -> a = b)
\* vmskop_common_mm: vstart counts bytes; the bits of the last byte that is not
\* whole are written whatever vstart is.
MaskLogical(c) ==
  LET whole == ByteBits * (c.vl \div ByteBits)
      written(i) == \/ ByteBits * c.vstart <= i /\ i < whole
                    \/ whole <= i /\ i < c.vl
  IN [i \in DOMAIN c.vd |-> IF written(i) THEN MaskBit(c.kernel, c.vs2[i], c.vs1[i]) ELSE c.vd[i]]

\* The active elements whose bit in vs2 is set.
Marked(c) == {i \in DOMAIN c.vs2 : Active(c, i) /\ c.mask[i] = 1 /\ c.vs2[i] = 1}
Population(c) == Cardinality(Marked(c))
\* All ones when there is none.
FirstMarked(c) == IF Marked(c) = {} THEN -1 ELSE Min(Marked(c))
\* vmsbf, vmsif and vmsof: what is seen before an element decides its bit.
SetFirst(c) ==
  Masked(c, LAMBDA i :
    LET found == \E j \in Marked(c) : j < i
        set == c.vs2[i] = 1
    IN Truth(CASE c.kernel = "vmsbf" -> ~ found /\ ~ set
               [] c.kernel = "vmsif" -> ~ found
               [] c.kernel = "vmsof" -> ~ found /\ set))
\* viota counts the marked elements before each.
Iota(c) ==
  Masked(c, LAMBDA i : Unsigned(Cardinality({j \in Marked(c) : j < i}), Width(c)))
\* vid takes the expanded mask for a packed one: a bit of 0 or 1 that is not the
\* lowest is never set.
ElementIndex(c) ==
  Unmasked(c, LAMBDA i : IF Bit(c.mask[i \div ByteBits], i % ByteBits) = 1
                         THEN Unsigned(i, Width(c)) ELSE c.vd[i])

-------------------------------------------------------------------------------
SlideUp(c) ==
  Masked(c, LAMBDA i : IF i >= c.offset THEN c.vs2[i - c.offset] ELSE c.vd[i])
\* Elements from beyond vlmax are zero.
SlideDown(c) ==
  Masked(c, LAMBDA i : IF c.offset >= c.vlmax \/ i >= c.vlmax - c.offset THEN 0
                       ELSE c.vs2[i + c.offset])
Slide1Up(c) == Masked(c, LAMBDA i : IF i = 0 THEN c.vs1[0] ELSE c.vs2[i - 1])
Slide1Down(c) == Masked(c, LAMBDA i : IF i = c.vl - 1 THEN c.vs1[0] ELSE c.vs2[i + 1])

\* vrgather: the element an index names, of vs1 or of a scalar.
Gather(c) == Masked(c, LAMBDA i : IF c.vs1[i] < c.vlmax THEN c.vs2[c.vs1[i]] ELSE 0)
\* vcompress: the k-th element chosen by vs1 goes to element k.
Compress(c) ==
  LET chosen == {i \in DOMAIN c.vs2 : Active(c, i) /\ c.vs1[i] = 1}
      place(i) == Cardinality({j \in chosen : j < i})
  IN [k \in DOMAIN c.vd |-> IF k < Cardinality(chosen)
                            THEN c.vs2[CHOOSE i \in chosen : place(i) = k] ELSE c.vd[k]]

-------------------------------------------------------------------------------
\* vredop_common_vs: from vs1[0] over the active elements, in their order.
Reduction(c, F(_, _)) ==
  LET acc[i \in c.vstart .. c.vl] ==
        IF i = c.vstart THEN c.vs1[0]
        ELSE IF c.nomask \/ c.mask[i - 1] = 1 THEN F(acc[i - 1], c.vs2[i - 1])
        ELSE acc[i - 1]
  IN IF c.vstart >= c.vl THEN c.vd ELSE [c.vd EXCEPT ![0] = acc[c.vl]]
ReduceInteger(c) ==
  LET w == Width(c)
      less(a, b) == Number(c, a, w) < Number(c, b, w)
  IN Reduction(c, LAMBDA a, b :
       CASE c.kernel = "vredsum" -> Unsigned(a + b, w)
         [] c.kernel = "vredand" -> AndBits(a, b, w)
         [] c.kernel = "vredor" -> OrBits(a, b, w)
         [] c.kernel = "vredxor" -> XorBits(a, b, w)
         [] c.kernel = "vredmin" -> IF less(a, b) THEN a ELSE b
         [] c.kernel = "vredmax" -> IF less(b, a) THEN a ELSE b)
\* vwredsum: the sum is twice as wide as the elements.
ReduceWide(c) ==
  LET w == Width(c)
  IN IF c.sew = 8 THEN c.vd
     ELSE Reduction(c, LAMBDA a, b : Unsigned(a + Number(c, b, w), 2 * w))
==============================================================================
