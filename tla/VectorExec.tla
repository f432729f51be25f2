------------------------------ MODULE VectorExec -------------------------------
(***************************************************************************)
(* exec_opv (rvv64.cpp): a decoded vector instruction on raw registers.  A *)
(* raw register group is a function from byte numbers to bytes; a kernel   *)
(* sees it through the element type that its instruction casts it to.      *)
(* Decoded instructions are those of Instructions, a context has           *)
(*   sew, lmul        RVVSEW as bytes, and RVVLMUL by its name             *)
(*   vl, vstart, vcsr                                                      *)
(*   vmask            the bytes of v0, or the empty function               *)
(*   beyond           what the bytes behind vmask hold                     *)
(***************************************************************************)
EXTENDS VectorFloat, TLC

CONSTANT VLenBytes \* RVV_VLEN / 8

ByteCount(raw) == Cardinality(DOMAIN raw)
\* reinterpret_cast to elements of some bytes, and to the bits of a mask.
Elements(raw, bytes) ==
  [i \in 0 .. (ByteCount(raw) \div bytes) - 1 |->
     MapThenSumSet(LAMBDA k : raw[i * bytes + k] * 2 ^ (ByteBits * k), 0 .. bytes - 1)]
MaskBits(raw) ==
  [i \in 0 .. ByteCount(raw) * ByteBits - 1 |-> Bit(raw[i \div ByteBits], i % ByteBits)]
Rewritten(raw, bytes, e) ==
  [b \in DOMAIN raw |-> IF b \div bytes \in DOMAIN e
                        THEN Extract(e[b \div bytes], ByteBits * (b % bytes) + ByteBits - 1,
                                     ByteBits * (b % bytes))
                        ELSE raw[b]]
RewrittenMask(raw, m) ==
  [b \in DOMAIN raw |-> MapThenSumSet(LAMBDA k : m[b * ByteBits + k] * 2 ^ k, 0 .. ByteBits - 1)]

\* get_max_vector_length
Groups(lmul) ==
  CASE lmul = "m1" -> <<1, 1>> [] lmul = "m2" -> <<2, 1>> [] lmul = "m4" -> <<4, 1>>
    [] lmul = "m8" -> <<8, 1>> [] lmul = "mf8" -> <<1, 8>> [] lmul = "mf4" -> <<1, 4>>
    [] lmul = "mf2" -> <<1, 2>>
MaxVectorLength(sew, lmul) ==
  ((VLenBytes * Groups(lmul)[1]) \div Groups(lmul)[2]) \div sew

\* request_reg_bytes, for the elements of a view and for the whole register.
FixedView == "ei8" :> 1 @@ "ei16" :> 2 @@ "ei32" :> 4 @@ "ei64" :> 8
WholeRegisters == "reg1" :> 1 @@ "reg2" :> 2 @@ "reg4" :> 4 @@ "reg8" :> 8
\* Mutant: the mask bits of a byte that is not full are not asked for.
MaskBytes_Floor(vl) == vl \div ByteBits
MaskBytes(vl) == (vl + ByteBits - 1) \div ByteBits
RequestRegBytes(ctx, regType, view) ==
  LET all == ctx.sew * ctx.vl
  IN CASE regType = "none" -> 0
       [] regType \in {"gpreg", "freg"} -> 8
       [] regType = "vreg" ->
            (CASE view = "none" -> all [] view = "m2" -> 2 * all
               [] view = "f2" -> all \div 2 [] view = "f4" -> all \div 4
               [] view = "f8" -> all \div 8 [] view = "mask" -> MaskBytes(ctx.vl)
               [] view = "e0" -> ctx.sew [] view = "e0m2" -> 2 * ctx.sew
               [] view \in DOMAIN WholeRegisters -> WholeRegisters[view] * VLenBytes
               [] view \in DOMAIN FixedView -> FixedView[view] * ctx.vl)

-------------------------------------------------------------------------------
(***************************************************************************)
(* The switch of _exec_opv: the stems that go to one kernel, whatever the  *)
(* form of their operands.                                                 *)
(***************************************************************************)
StemsOf ==
  [AddSub |-> {"vadd", "vsub", "vrsub"}, MinMax |-> {"vminu", "vmin", "vmaxu", "vmax"},
   Logical |-> {"vand", "vor", "vxor"}, Gather |-> {"vrgather", "vrgatherei16"},
   SlideUp |-> {"vslideup"}, SlideDown |-> {"vslidedown"},
   AddCarry |-> {"vadc"}, CarryOut |-> {"vmadc"}, SubBorrow |-> {"vsbc"},
   BorrowOut |-> {"vmsbc"}, Merge |-> {"vmerge", "vfmerge"}, Move |-> {"vmv_v"},
   Compare |-> {"vmseq", "vmsne", "vmsltu", "vmslt", "vmsleu", "vmsle", "vmsgtu", "vmsgt"},
   SaturatingAdd |-> {"vsaddu", "vsadd"}, SaturatingSub |-> {"vssubu", "vssub"},
   Shift |-> {"vsll", "vsrl", "vsra"}, FractionalMultiply |-> {"vsmul"},
   ScalingShift |-> {"vssrl", "vssra"}, NarrowShift |-> {"vnsrl", "vnsra"},
   Clip |-> {"vnclipu", "vnclip"}, WholeMove |-> {"vmv1r", "vmv2r", "vmv4r", "vmv8r"},
   ReduceWide |-> {"vwredsumu", "vwredsum"},
   ReduceInteger |-> {"vredsum", "vredand", "vredor", "vredxor", "vredminu", "vredmin",
                      "vredmaxu", "vredmax"},
   Average |-> {"vaaddu", "vaadd", "vasubu", "vasub"},
   ToScalar |-> {"vmv_x", "vfmv_f"}, FromScalar |-> {"vmv_s"}, FromFloat |-> {"vfmv_s"},
   Population |-> {"vcpop"}, FirstMarked |-> {"vfirst"},
   ExtendElements |-> {"vzext", "vsext"}, SetFirst |-> {"vmsbf", "vmsof", "vmsif"},
   Iota |-> {"viota"}, ElementIndex |-> {"vid"}, Compress |-> {"vcompress"},
   MaskLogical |-> {"vmandn", "vmand", "vmor", "vmxor", "vmorn", "vmnand", "vmnor", "vmxnor"},
   SafeDivide |-> {"vdivu", "vdiv"}, SafeRemainder |-> {"vremu", "vrem"},
   MulHighVector |-> {"vmulhu", "vmulhsu", "vmulh"}, Multiply |-> {"vmul"},
   MultiplyAdd |-> {"vmadd", "vnmsub", "vmacc", "vnmsac"},
   WideAddSub |-> {"vwaddu", "vwadd", "vwsubu", "vwsub"},
   WideMultiply |-> {"vwmulu", "vwmulsu", "vwmul"},
   WideMultiplyAdd |-> {"vwmaccu", "vwmacc", "vwmaccsu", "vwmaccus"},
   Slide1Up |-> {"vslide1up", "vfslide1up"}, Slide1Down |-> {"vslide1down", "vfslide1down"},
   VfBinary |-> {"vfadd", "vfsub", "vfrsub", "vfmul", "vfdiv", "vfrdiv", "vfmin", "vfmax"},
   VfReduce |-> {"vfredusum", "vfredosum", "vfredmin", "vfredmax"},
   VfWideReduce |-> {"vfwredusum", "vfwredosum"},
   VfSignInject |-> {"vfsgnj", "vfsgnjn", "vfsgnjx"},
   VfConvert |-> {"vfcvt_xu_f", "vfcvt_x_f", "vfcvt_f_xu", "vfcvt_f_x", "vfcvt_rtz_xu_f",
                  "vfcvt_rtz_x_f"},
   VfWidenConvert |-> {"vfwcvt_xu_f", "vfwcvt_x_f", "vfwcvt_f_xu", "vfwcvt_f_x", "vfwcvt_f_f",
                       "vfwcvt_rtz_xu_f", "vfwcvt_rtz_x_f"},
   VfNarrowConvert |-> {"vfncvt_xu_f", "vfncvt_x_f", "vfncvt_f_xu", "vfncvt_f_x", "vfncvt_f_f",
                        "vfncvt_rod_f_f", "vfncvt_rtz_xu_f", "vfncvt_rtz_x_f"},
   VfUnary |-> {"vfsqrt", "vfrsqrt7", "vfrec7", "vfclass"},
   VfCompare |-> {"vmfeq", "vmfle", "vmflt", "vmfne", "vmfgt", "vmfge"},
   VfFused |-> {"vfmadd", "vfnmadd", "vfmsub", "vfnmsub", "vfmacc", "vfnmacc", "vfmsac",
                "vfnmsac"},
   VfWideBinary |-> {"vfwadd", "vfwsub", "vfwmul"},
   VfWideFused |-> {"vfwmacc", "vfwnmacc", "vfwmsac", "vfwnmsac"}, MoveFloat |-> {"vfmv_v"}]
Executable(inst) == \E f \in DOMAIN StemsOf : inst.name \in StemsOf[f]
FamilyOf(inst) == CHOOSE f \in DOMAIN StemsOf : inst.name \in StemsOf[f]

\* What a stem is called in its kernel.
KernelName ==
  "vminu" :> "vmin" @@ "vmaxu" :> "vmax" @@ "vmsltu" :> "vmslt" @@ "vmsleu" :> "vmsle"
    @@ "vmsgtu" :> "vmsgt" @@ "vsll" :> "vsl" @@ "vsrl" :> "vsr" @@ "vsra" :> "vsr"
    @@ "vaaddu" :> "vaadd" @@ "vasubu" :> "vasub" @@ "vwaddu" :> "vwadd" @@ "vwsubu" :> "vwsub"
    @@ "vredminu" :> "vredmin" @@ "vredmaxu" :> "vredmax"
    @@ "vfredusum" :> "vfadd" @@ "vfredosum" :> "vfadd" @@ "vfredmin" :> "vfmin"
    @@ "vfredmax" :> "vfmax" @@ "vfwadd" :> "vfadd" @@ "vfwsub" :> "vfsub"
    @@ "vfwmul" :> "vfmul" @@ "vfwmacc" :> "vfmacc" @@ "vfwnmacc" :> "vfnmacc"
    @@ "vfwmsac" :> "vfmsac" @@ "vfwnmsac" :> "vfnmsac"
\* The stems whose kernel is instantiated with SInt, where it matters.
SignedStems ==
  {"vmin", "vmax", "vmslt", "vmsle", "vmsgt", "vsadd", "vssub", "vsmul", "vsra", "vssra", "vnsra",
   "vnclip", "vaadd", "vasub", "vdiv", "vrem", "vredmin", "vredmax", "vwadd", "vwsub",
   "vwredsum", "vsext", "vfcvt_x_f", "vfcvt_f_x", "vfcvt_rtz_x_f", "vfwcvt_x_f", "vfwcvt_f_x",
   "vfwcvt_rtz_x_f", "vfncvt_x_f", "vfncvt_f_x", "vfncvt_rtz_x_f"}

\* The casts: bytes of an element of vd, vs2 and vs1, and what is a mask.
WideResults ==
  {"WideAddSub", "WideMultiply", "WideMultiplyAdd", "ReduceWide", "VfWideBinary", "VfWideFused",
   "VfWideReduce", "VfWidenConvert"}
MaskResults == {"CarryOut", "BorrowOut", "Compare", "VfCompare", "SetFirst", "MaskLogical"}
Factor(form) == CASE form = "vf2" -> 2 [] form = "vf4" -> 4 [] form = "vf8" -> 8 [] OTHER -> 1
ResultBytes(inst, sew) ==
  CASE FamilyOf(inst) \in WideResults -> 2 * sew
    [] FamilyOf(inst) \in {"Population", "FirstMarked"} -> 8
    [] FamilyOf(inst) = "WholeMove" -> 1
    [] OTHER -> sew
SourceBytes(inst, sew) ==
  CASE inst.form \in {"wv", "wx", "wi", "wf", "w"} -> 2 * sew
    [] inst.form \in {"vf2", "vf4", "vf8"} -> sew \div Factor(inst.form)
    [] FamilyOf(inst) = "WholeMove" -> 1
    [] OTHER -> sew
SecondBytes(inst, sew) ==
  CASE FamilyOf(inst) \in {"ReduceWide", "VfWideReduce"} -> 2 * sew
    [] inst.name = "vrgatherei16" -> 2
    [] OTHER -> sew
\* vrs1[0] and the immediate: cut to an element, shifts and slides to 32 bits.
ScalarForms == {"vx", "wx", "vxm", "vf", "wf", "vfm", "x", "f"}
ImmediateForms == {"vi", "wi", "vim"}
Amounts == {"Shift", "ScalingShift", "NarrowShift", "Clip", "SlideUp", "SlideDown"}
ScalarOf(inst, sew, raw) ==
  LET bits == ByteBits * (IF FamilyOf(inst) \in Amounts THEN 4 ELSE sew)
  IN Unsigned(IF inst.form \in ImmediateForms THEN inst.imm
              ELSE Elements(raw, 8)[0], bits)

\* The call of a kernel.
CallOf(inst, ctx, vd, vs1, vs2, mask, frm) ==
  LET sew == ctx.sew
      f == FamilyOf(inst)
      scalar == inst.form \in ScalarForms \union ImmediateForms
      masks == inst.form \in {"m", "mm"}
  IN [kernel |-> IF inst.name \in DOMAIN KernelName THEN KernelName[inst.name] ELSE inst.name,
      sew |-> sew, signed |-> inst.name \in SignedStems, vl |-> ctx.vl,
      vstart |-> IF f = "MoveFloat" THEN 0 ELSE ctx.vstart,
      carries |-> inst.form \in {"vvm", "vxm", "vim"}, scalar |-> scalar,
      wide |-> inst.form \in {"wv", "wx", "wf"}, factor |-> Factor(inst.form),
      rm |-> (ctx.vcsr \div 2) % 4, frm |-> frm, mask |-> mask,
      nomask |-> inst.funct7 % 2 = 1, vlmax |-> MaxVectorLength(sew, ctx.lmul),
      vd |-> IF f \in MaskResults THEN MaskBits(vd) ELSE Elements(vd, ResultBytes(inst, sew)),
      vs2 |-> IF masks THEN MaskBits(vs2) ELSE Elements(vs2, SourceBytes(inst, sew)),
      vs1 |-> IF scalar THEN [i \in 0 .. ctx.vl |-> ScalarOf(inst, sew, vs1)]
              ELSE IF inst.form \in {"mm", "vm"} THEN MaskBits(vs1)
              ELSE Elements(vs1, SecondBytes(inst, sew)),
      offset |-> IF f \in {"SlideUp", "SlideDown"} THEN ScalarOf(inst, sew, vs1) ELSE 0,
      from |-> SourceBytes(inst, sew), to |-> ResultBytes(inst, sew),
      mode |-> IF inst.name = "vfncvt_rod_f_f" THEN "rod"
               ELSE IF inst.name \in {"vfcvt_rtz_xu_f", "vfcvt_rtz_x_f", "vfwcvt_rtz_xu_f",
                                      "vfwcvt_rtz_x_f", "vfncvt_rtz_xu_f", "vfncvt_rtz_x_f"}
               THEN "rtz" ELSE ""]
ConversionKernel(c, stem) ==
  [c EXCEPT !.kernel = IF stem \in {"vfwcvt_f_f", "vfncvt_f_f", "vfncvt_rod_f_f"} THEN "f2f"
                       ELSE IF stem \in {"vfcvt_f_xu", "vfcvt_f_x", "vfwcvt_f_xu", "vfwcvt_f_x",
                                         "vfncvt_f_xu", "vfncvt_f_x"} THEN "i2f"
                       ELSE "f2i"]

-------------------------------------------------------------------------------
\* The kernels with elements alone, with vxsat and with exception flags.
ElementKernel(f, c) ==
  CASE f = "AddSub" -> AddSub(c) [] f = "MinMax" -> MinMax(c) [] f = "Logical" -> Logical(c)
    [] f = "Gather" -> Gather(c) [] f = "SlideUp" -> SlideUp(c) [] f = "SlideDown" -> SlideDown(c)
    [] f = "AddCarry" -> AddCarry(c) [] f = "CarryOut" -> CarryOut(c)
    [] f = "SubBorrow" -> SubBorrow(c) [] f = "BorrowOut" -> BorrowOut(c)
    [] f = "Merge" -> Merge(c) [] f = "Compare" -> Compare(c) [] f = "Shift" -> Shift(c)
    [] f = "NarrowShift" -> NarrowShift(c) [] f = "ReduceWide" -> ReduceWide(c)
    [] f = "ReduceInteger" -> ReduceInteger(c) [] f = "ExtendElements" -> ExtendElements(c)
    [] f = "SetFirst" -> SetFirst(c) [] f = "Iota" -> Iota(c)
    [] f = "ElementIndex" -> ElementIndex(c) [] f = "Compress" -> Compress(c)
    [] f = "MaskLogical" -> MaskLogical(c) [] f = "SafeDivide" -> SafeDivide(c)
    [] f = "SafeRemainder" -> SafeRemainder(c) [] f = "MulHighVector" -> MulHighVector(c)
    [] f = "Multiply" -> Multiply(c) [] f = "MultiplyAdd" -> MultiplyAdd(c)
    [] f = "WideAddSub" -> WideAddSub(c) [] f = "WideMultiply" -> WideMultiply(c)
    [] f = "WideMultiplyAdd" -> WideMultiplyAdd(c) [] f = "Slide1Up" -> Slide1Up(c)
    [] f = "Slide1Down" -> Slide1Down(c)
    [] f \in {"Move", "MoveFloat"} -> Unmasked(c, LAMBDA i : c.vs1[i])
    [] f = "FromScalar" -> IF c.vl > 0 /\ c.vstart = 0 THEN [c.vd EXCEPT ![0] = c.vs1[0]] ELSE c.vd
    [] f = "FromFloat" -> [c.vd EXCEPT ![0] = c.vs1[0]]
    [] f = "ToScalar" -> [c.vd EXCEPT ![0] = c.vs2[0]]
    [] f = "Population" -> [c.vd EXCEPT ![0] = Population(c)]
    [] f = "FirstMarked" -> [c.vd EXCEPT ![0] = Unsigned(FirstMarked(c), ByteBits * 8)]
    [] f = "WholeMove" ->
         LET n == CASE c.kernel = "vmv1r" -> 1 [] c.kernel = "vmv2r" -> 2
                    [] c.kernel = "vmv4r" -> 4 [] c.kernel = "vmv8r" -> 8
         IN [b \in DOMAIN c.vd |-> IF b < n * VLenBytes THEN c.vs2[b] ELSE c.vd[b]]
FixedFamilies ==
  {"SaturatingAdd", "SaturatingSub", "FractionalMultiply", "ScalingShift", "Clip", "Average"}
FixedKernel(f, c) ==
  CASE f = "SaturatingAdd" -> SaturatingAdd(c) [] f = "SaturatingSub" -> SaturatingSub(c)
    [] f = "FractionalMultiply" -> FractionalMultiply(c) [] f = "ScalingShift" -> ScalingShift(c)
    [] f = "Clip" -> Clip(c) [] f = "Average" -> Average(c)
FloatFamilies ==
  {"VfBinary", "VfReduce", "VfWideReduce", "VfSignInject", "VfConvert", "VfWidenConvert",
   "VfNarrowConvert", "VfUnary", "VfCompare", "VfFused", "VfWideBinary", "VfWideFused"}
FloatKernel(f, c, stem) ==
  CASE f = "VfBinary" -> VfBinary(c) [] f = "VfReduce" -> VfReduce(c)
    [] f = "VfWideReduce" -> VfWideReduce(c) [] f = "VfSignInject" -> VfSignInject(c)
    [] f = "VfUnary" -> VfUnary(c) [] f = "VfCompare" -> VfCompare(c)
    [] f = "VfFused" -> VfFused(c) [] f = "VfWideBinary" -> VfWideBinary(c)
    [] f = "VfWideFused" -> VfWideFused(c)
    [] f \in {"VfConvert", "VfWidenConvert", "VfNarrowConvert"} ->
         VfConvert(ConversionKernel(c, stem))
Effects(vd, vxsat, flags) == [vd |-> vd, vxsat |-> vxsat, flags |-> flags]
FixedEffects(r) == Effects(r.vd, r.vxsat, {})
FloatEffects(r) == Effects(r.vd, FALSE, r.flags)
EffectOf(f, inst, c) ==
  CASE f \in FixedFamilies -> FixedEffects(FixedKernel(f, c))
    [] f \in FloatFamilies -> FloatEffects(FloatKernel(f, c, inst.name))
    [] OTHER -> Effects(ElementKernel(f, c), FALSE, {})
Effect(inst, c) == EffectOf(FamilyOf(inst), inst, c)

\* The views that a width of elements does not have.
Forbidden(sew) ==
  CASE sew = 1 -> {"f2", "f4", "f8"} [] sew = 2 -> {"f4", "f8"} [] sew = 4 -> {"f8"}
    [] sew = 8 -> {"m2"}
\* The mode is that of fcsr unless it is dynamic: then it is in the instruction.
VectorRoundingMode(funct3, frm) ==
  LET rm == IF frm = FrmDyn THEN funct3 ELSE frm IN IF rm > 4 THEN NearEven ELSE rm

Succeeds(inst, ctx, vd, e) ==
  [status |-> "success", vstart |-> 0, flags |-> e.flags,
   vcsr |-> IF e.vxsat /\ ctx.vcsr % 2 = 0 THEN ctx.vcsr + 1 ELSE ctx.vcsr,
   vd |-> IF FamilyOf(inst) \in MaskResults THEN RewrittenMask(vd, e.vd)
          ELSE Rewritten(vd, ResultBytes(inst, ctx.sew), e.vd)]
\* Mutant: the initializer {1}, which sets the first element alone.
AllTrueMask_First(vl) == [i \in 0 .. vl - 1 |-> Truth(i = 0)]
\* AllTrueExpdMask, which the build fills (prepare_archsem.sh).
AllTrueMask(vl) == [i \in 0 .. vl - 1 |-> 1]
\* The mask of the kernels.  expand_mask takes the bits it needs from vmask and,
\* where vmask is shorter, from what lies behind it.
MaskOfContext(inst, ctx) ==
  LET read == [b \in 0 .. ctx.vl |-> IF b \in DOMAIN ctx.vmask THEN ctx.vmask[b] ELSE ctx.beyond]
  IN IF inst.funct7 % 2 = 1 \/ DOMAIN ctx.vmask = {} THEN AllTrueMask(ctx.vl)
     ELSE ExpandMask(ctx.vl, read)
\* exec_opv: the result and, on success, what becomes of the context.  The
\* registers are vectors of words of 8 bytes, vmask is one of bytes, and the
\* sizes of all of them are taken 8 times.
ExecOpv(inst, ctx, vd, vs1, vs2, frm) ==
  LET short(raw, type, view) == ByteCount(raw) < RequestRegBytes(ctx, type, view)
      refused(why) ==
        [status |-> why, vd |-> vd, vstart |-> ctx.vstart, vcsr |-> ctx.vcsr, flags |-> {}]
      mask == MaskOfContext(inst, ctx)
      rm == VectorRoundingMode(inst.funct3, frm)
  IN IF short(vd, inst.rdType, inst.vrdView) THEN refused("insufficient_vd")
     ELSE IF short(vs1, inst.rs1Type, inst.vrs1View) THEN refused("insufficient_vs1")
     ELSE IF short(vs2, inst.rs2Type, inst.vrs2View) THEN refused("insufficient_vs2")
     ELSE IF DOMAIN ctx.vmask # {}
               /\ 8 * ByteCount(ctx.vmask) < RequestRegBytes(ctx, "vreg", "mask")
     THEN refused("insufficient_vmask")
     ELSE IF {inst.vrdView, inst.vrs1View, inst.vrs2View} \intersect Forbidden(ctx.sew) # {}
     THEN refused("invalid_widen_narrow")
     ELSE IF ~ Executable(inst) THEN refused("illegal_instruction")
     ELSE Succeeds(inst, ctx, vd, Effect(inst, CallOf(inst, ctx, vd, vs1, vs2, mask, rm)))
==============================================================================
