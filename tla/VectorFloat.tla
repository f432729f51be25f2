----------------------------- MODULE VectorFloat ------------------------------
(***************************************************************************)
(* The floating-point kernels of the vector unit (vfp.hpp, and the         *)
(* floating-point reductions of vrd.hpp).  A call c has the fields of      *)
(* VectorInteger and                                                       *)
(*   frm              the rounding mode                                    *)
(*   scalar           whether vs1 is a scalar                              *)
(*   wide             whether vs2 has the wide elements (wv and wf)        *)
(* and a kernel gives vd and the exception flags that were raised.         *)
(***************************************************************************)
EXTENDS VectorInteger, FloatExec

FormatOfSize(bytes) == CASE bytes = 2 -> Half [] bytes = 4 -> Single [] bytes = 8 -> Double
\* The impl functions give zero for elements that are no float16_t, float32_t or
\* float64_t.
HasFormat(bytes) == bytes \in {2, 4, 8}
OrZero(bytes, F(_)) == IF HasFormat(bytes) THEN F(FormatOfSize(bytes)) ELSE Exact(0)

\* vfop_common_vv, vfop_common_vf and vfop1_common_v: unmasked, the mask is not
\* looked at.
Operands(c) == {i \in DOMAIN c.vd : Active(c, i) /\ (c.nomask \/ c.mask[i] = 1)}
FloatLoop(c, F(_)) ==
  [vd |-> [i \in DOMAIN c.vd |-> IF i \in Operands(c) THEN F(i).ui ELSE c.vd[i]],
   flags |-> UNION {F(i).flags : i \in Operands(c)}]
\* vfcmp_common_vv and vfcmp_common_vf, to mask bits.
CompareLoop(c, F(_)) == FloatLoop(c, LAMBDA i : Result(Truth(F(i).value), F(i).flags))

Operate(F, kernel, a, b, rm) ==
  CASE kernel \in {"vfadd", "vfsub", "vfrsub"} ->
         AddOrSub(F, a, b, Different(F, a, b) = (kernel = "vfadd"), rm)
    [] kernel = "vfmul" -> Mul(F, a, b, rm)
    [] kernel \in {"vfdiv", "vfrdiv"} -> Div(F, a, b, rm)
    [] kernel = "vfmin" -> FloatMin(F, a, b)
    [] kernel = "vfmax" -> FloatMax(F, a, b)
FloatBinary(F, kernel, a, b, rm) ==
  LET reversed == kernel \in {"vfrsub", "vfrdiv"}
  IN Operate(F, kernel, IF reversed THEN b ELSE a, IF reversed THEN a ELSE b, rm)
\* 13.2, 13.4 and 13.11
VfBinary(c) ==
  FloatLoop(c, LAMBDA i : OrZero(c.sew, LAMBDA F :
    FloatBinary(F, c.kernel, c.vs2[i], c.vs1[i], c.frm)))
\* 13.3 and 13.5: the operands are widened first; a scalar is, and raises its
\* flags, even if no element is computed.  A byte is no number of a format: it is
\* cast to a float16_t as it is.
WithFlags(r, flags) == [r EXCEPT !.flags = @ \union flags]
FlagsIf(condition, r) == IF condition THEN r.flags ELSE {}
WiderOf(c) == FormatOfSize(2 * c.sew)
Widened(c, v) ==
  IF c.sew = 1 THEN Exact(v) ELSE Convert(FormatOfSize(c.sew), WiderOf(c), v, c.frm)
WideLoop(c, F(_)) ==
  IF c.sew = 8 THEN FloatLoop(c, LAMBDA i : Exact(0))
  ELSE WithFlags(FloatLoop(c, F), FlagsIf(c.scalar, Widened(c, c.vs1[0])))
WideOperation(c, a, b) ==
  WithFlags(FloatBinary(WiderOf(c), c.kernel, a.ui, b.ui, c.frm), a.flags \union b.flags)
VfWideBinary(c) ==
  WideLoop(c, LAMBDA i : WideOperation(c, IF c.wide THEN Exact(c.vs2[i]) ELSE Widened(c, c.vs2[i]),
                                       Widened(c, c.vs1[i])))

\* 13.6: which operands are multiplied, and what is negated.  A negated sum was
\* rounded before.
NegatedIf(condition, F, v) == IF condition THEN Negated(F, v) ELSE v
FusedOf(F, negative, r) == [r EXCEPT !.ui = NegatedIf(negative, F, @)]
FusedSum(F, kernel, d, a, b, rm) ==
  LET accumulates == kernel \in {"vfmacc", "vfnmacc", "vfmsac", "vfnmsac"}
      factor == IF accumulates THEN a ELSE d
      addend == IF accumulates THEN d ELSE a
  IN FusedOf(F, kernel \in {"vfnmacc", "vfnmadd"},
             MulAdd(F, NegatedIf(kernel \in {"vfnmsac", "vfnmsub"}, F, b), factor,
                    NegatedIf(kernel \in {"vfmsac", "vfmsub"}, F, addend), "", rm))
VfFused(c) ==
  FloatLoop(c, LAMBDA i : OrZero(c.sew, LAMBDA F :
    FusedSum(F, c.kernel, c.vd[i], c.vs2[i], c.vs1[i], c.frm)))
\* 13.7: vfwmacc and the others, of the kernels without the w.
WideFused(c, d, a, b) ==
  WithFlags(FusedSum(WiderOf(c), c.kernel, d, a.ui, b.ui, c.frm), a.flags \union b.flags)
VfWideFused(c) ==
  WideLoop(c, LAMBDA i : WideFused(c, c.vd[i], Widened(c, c.vs2[i]), Widened(c, c.vs1[i])))

\* 13.8 to 13.10 and 13.14
FloatUnary(F, kernel, a, rm) ==
  CASE kernel = "vfsqrt" -> Sqrt(F, a, rm)
    [] kernel = "vfrsqrt7" -> Rsqrt7(F, a)
    [] kernel = "vfrec7" -> Recip7(F, a, rm)
    [] kernel = "vfclass" -> Exact(2 ^ Classify(F, a))
VfUnary(c) ==
  FloatLoop(c, LAMBDA i : OrZero(c.sew, LAMBDA F : FloatUnary(F, c.kernel, c.vs2[i], c.frm)))
\* 13.12: what is no number of a format stays as it is.
VfSignInject(c) ==
  LET variant == CASE c.kernel = "vfsgnj" -> 0 [] c.kernel = "vfsgnjn" -> 1
                   [] c.kernel = "vfsgnjx" -> 2
  IN FloatLoop(c, LAMBDA i :
       IF HasFormat(c.sew)
       THEN Exact(SignInjected(FormatOfSize(c.sew), c.vs2[i], c.vs1[i], variant))
       ELSE Exact(c.vs2[i]))
\* 13.13
HoldsOf(F, kernel, a, b) ==
  CASE kernel \in {"vmfeq", "vmfne"} -> Eq(F, a, b)
    [] kernel \in {"vmflt", "vmfgt"} -> Lt(F, a, b)
    [] kernel \in {"vmfle", "vmfge"} -> Le(F, a, b)
FloatHolds(F, kernel, a, b) ==
  LET reversed == kernel \in {"vmfgt", "vmfge"}
      sense(r) == [r EXCEPT !.value = @ # (kernel = "vmfne")]
  IN sense(HoldsOf(F, kernel, IF reversed THEN b ELSE a, IF reversed THEN a ELSE b))
VfCompare(c) ==
  CompareLoop(c, LAMBDA i :
    IF HasFormat(c.sew) THEN FloatHolds(FormatOfSize(c.sew), c.kernel, c.vs2[i], c.vs1[i])
    ELSE Raised(c.kernel = "vmfne", {}))

-------------------------------------------------------------------------------
\* fcvt_f2i_impl: small integers are cut from those of 32 bits.
IntegerBitsOf(r, n) == Result(Unsigned(r.value, n), r.flags)
IntegerOf(from, to, signed, a, rm) ==
  LET n == ByteBits * to
  IN IF HasFormat(from)
     THEN IntegerBitsOf(IF to < 4 THEN ToSmall(FormatOfSize(from), a, signed, n, ByteBits * 4, rm)
                        ELSE ToInteger(FormatOfSize(from), a, signed, n, rm), n)
     ELSE Exact(0)
\* fcvt_i2f_impl: the integer is extended first.
FloatOf(from, to, signed, v, rm) ==
  IF ~ HasFormat(to) THEN Exact(0)
  ELSE FromInteger(FormatOfSize(to), IF signed THEN Signed(v, ByteBits * from) ELSE v, rm)
\* The mode that vfp_set_rounding_mode sets for the forms rtz and rod.
ConversionMode(c) == CASE c.mode = "rtz" -> MinMag [] c.mode = "rod" -> RoundOdd [] OTHER -> c.frm
\* 13.17 to 13.19: from elements of c.from bytes to elements of c.to.
Converted(c, v, rm) ==
  CASE c.kernel = "f2i" -> IntegerOf(c.from, c.to, c.signed, v, rm)
    [] c.kernel = "i2f" -> FloatOf(c.from, c.to, c.signed, v, rm)
    [] c.kernel = "f2f" -> IF HasFormat(c.from) /\ HasFormat(c.to)
                           THEN Convert(FormatOfSize(c.from), FormatOfSize(c.to), v, rm)
                           ELSE Exact(0)
VfConvert(c) ==
  IF c.from > 8 \/ c.to > 8 THEN [vd |-> c.vd, flags |-> {}]
  ELSE FloatLoop(c, LAMBDA i : Converted(c, c.vs2[i], ConversionMode(c)))

\* vfredosum and vfredusum, which is the same, vfredmin and vfredmax; and
\* vfwredosum and vfwredusum, which widen the elements.
FloatReduce(c, F(_, _)) ==
  LET start == [c EXCEPT !.vs1 = [i \in DOMAIN c.vs1 |-> Exact(c.vs1[i])]]
      last == Reduction(start, LAMBDA acc, v : WithFlags(F(acc.ui, v), acc.flags))[0]
  IN IF c.vstart >= c.vl THEN [vd |-> c.vd, flags |-> {}]
     ELSE [vd |-> [c.vd EXCEPT ![0] = last.ui], flags |-> last.flags]
VfReduce(c) ==
  FloatReduce(c, LAMBDA acc, v : OrZero(c.sew, LAMBDA F :
    FloatBinary(F, c.kernel, acc, v, c.frm)))
WideSum(c, acc, b) == WithFlags(Add(WiderOf(c), acc, b.ui, c.frm), b.flags)
VfWideReduce(c) ==
  IF c.sew = 8 THEN [vd |-> c.vd, flags |-> {}]
  ELSE FloatReduce(c, LAMBDA acc, v : WideSum(c, acc, Widened(c, v)))
==============================================================================
