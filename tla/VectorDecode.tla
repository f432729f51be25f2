----------------------------- MODULE VectorDecode -----------------------------
(***************************************************************************)
(* The decoder of the vector opcodes (decodev.cpp), and decode itself.     *)
(***************************************************************************)
EXTENDS Decode

Funct6(w) == w.f7 \div 2
Unmasked(w) == w.f7 % 2 = 1
\* The width field of a vector access, with the view it gives the data.
ElementView == 0 :> "ei8" @@ 5 :> "ei16" @@ 6 :> "ei32" @@ 7 :> "ei64"
\* The number of whole registers, in nf or in the rs1 field.
WholeView == 0 :> "reg1" @@ 1 :> "reg2" @@ 3 :> "reg4" @@ 7 :> "reg8"

-------------------------------------------------------------------------------
\* Vector loads and stores.  A name and the views of the data and of vs2,
\* by mop, and for unit-stride by the rs2 field; Illegal where reserved.
Access(name, data, vs2) == [name |-> name, data |-> data, vs2 |-> vs2]
UnitStride(w, names) ==
  LET nf == Extract(w.f7, 6, 4)
  IN CASE w.rs2 = 0 -> Access(names[1], ElementView[w.f3], "none")
       [] w.rs2 = 8 /\ Unmasked(w) /\ nf \in DOMAIN WholeView ->
            Access(names[2], WholeView[nf], "none")
       [] w.rs2 = 11 /\ Unmasked(w) -> Access(names[3], "mask", "none")
       [] w.rs2 = 16 /\ Len(names) = 7 -> Access(names[7], ElementView[w.f3], "none")
       [] OTHER -> Illegal
VectorAccess(w, names) ==
  LET mop == Extract(w.f7, 2, 1)
  IN CASE Bit(w.f7, 3) = 1 -> Illegal
       [] Bit(w.f7, 3) = 0 /\ mop = 0 -> UnitStride(w, names)
       [] Bit(w.f7, 3) = 0 /\ mop = 1 -> Access(names[4], "none", ElementView[w.f3])
       [] Bit(w.f7, 3) = 0 /\ mop = 2 -> Access(names[5], ElementView[w.f3], "none")
       [] Bit(w.f7, 3) = 0 /\ mop = 3 -> Access(names[6], "none", ElementView[w.f3])
\* rs2 holds an index vector, a stride, or neither.
Rs2Role(w) ==
  CASE Extract(w.f7, 2, 1) \in {1, 3} -> "vreg" [] Extract(w.f7, 2, 1) = 2 -> "gpreg"
    [] OTHER -> "none"

\* _decode_loadv
DecodeLoadV(w) ==
  LET access == VectorAccess(w, <<"vleX", "vlNreX", "vlm", "vluxeiX", "vlseX", "vloxeiX",
                                  "vleXff">>)
  IN IF access = Illegal THEN Illegal
     ELSE [Named(access.name, "", SetupR(w)) EXCEPT !.control = "vload", !.rdType = "vreg",
             !.rs2Type = Rs2Role(w), !.vrdView = access.data, !.vrs2View = access.vs2]
\* _decode_storev: the data register is vs3, in the rd field.
DecodeStoreV(w) ==
  LET access == VectorAccess(w, <<"vseX", "vsNr", "vsm", "vsuxeiX", "vsseX", "vsoxeiX">>)
  IN IF access = Illegal THEN Illegal
     ELSE [Named(access.name, "", SetupR(w)) EXCEPT !.control = "vstore", !.rd = 0,
             !.rdType = "none", !.rs3 = w.rd, !.rs3Type = "vreg",
             !.rs2Type = Rs2Role(w), !.vrs3View = access.data, !.vrs2View = access.vs2]

\* decode_loadfp and decode_storefp: the scalar widths, and the vector ones.
LoadFp == 1 :> "flh" @@ 2 :> "flw" @@ 3 :> "fld" @@ 4 :> "flq"
StoreFp == 1 :> "fsh" @@ 2 :> "fsw" @@ 3 :> "fsd" @@ 4 :> "fsq"
DecodeLoadFp(w) ==
  IF w.f3 \in DOMAIN ElementView THEN DecodeLoadV(w)
  ELSE [Named(LoadFp[w.f3], "", SetupI(w)) EXCEPT !.control = "load", !.rdType = "freg"]
DecodeStoreFp(w) ==
  IF w.f3 \in DOMAIN ElementView THEN DecodeStoreV(w)
  ELSE [Named(StoreFp[w.f3], "", SetupS(w)) EXCEPT !.control = "store", !.rs2Type = "freg"]

-------------------------------------------------------------------------------
\* OPIVV, OPIVX and OPIVI share their names: the stems by funct6, and the
\* rows each of the three lacks.
OpiStem ==
  0 :> "vadd" @@ 2 :> "vsub" @@ 3 :> "vrsub" @@ 4 :> "vminu" @@ 5 :> "vmin"
    @@ 6 :> "vmaxu" @@ 7 :> "vmax" @@ 9 :> "vand" @@ 10 :> "vor" @@ 11 :> "vxor"
    @@ 12 :> "vrgather" @@ 14 :> "vslideup" @@ 15 :> "vslidedown" @@ 16 :> "vadc"
    @@ 17 :> "vmadc" @@ 18 :> "vsbc" @@ 19 :> "vmsbc" @@ 23 :> "vmv_v" @@ 24 :> "vmseq"
    @@ 25 :> "vmsne" @@ 26 :> "vmsltu" @@ 27 :> "vmslt" @@ 28 :> "vmsleu" @@ 29 :> "vmsle"
    @@ 30 :> "vmsgtu" @@ 31 :> "vmsgt" @@ 32 :> "vsaddu" @@ 33 :> "vsadd" @@ 34 :> "vssubu"
    @@ 35 :> "vssub" @@ 37 :> "vsll" @@ 39 :> "vsmul" @@ 40 :> "vsrl" @@ 41 :> "vsra"
    @@ 42 :> "vssrl" @@ 43 :> "vssra" @@ 44 :> "vnsrl" @@ 45 :> "vnsra" @@ 46 :> "vnclipu"
    @@ 47 :> "vnclip"
OpivvRows == DOMAIN OpiStem \ {3, 14, 15, 30, 31}
OpiviRows == DOMAIN OpiStem \ {2, 4, 5, 6, 7, 18, 19, 26, 27, 34, 35, 39}

\* The shape of _setupOPV_no_regtype with the register types of a row.
VectorOp(w, name, form, rdType, rs1Type, rs2Type) ==
  [Named(name, form, SetupR(w)) EXCEPT
     !.rdType = rdType, !.rs1Type = rs1Type, !.rs2Type = rs2Type]
\* The views of a row: mask results and wide sources.
OpiViews(f6, inst) ==
  [inst EXCEPT !.vrdView = IF f6 \in {17, 19} \union 24 .. 31 THEN "mask" ELSE "none",
               !.vrs2View = IF f6 \in 44 .. 47 THEN "m2" ELSE "none"]
\* Rows whose meaning the mask bit chooses: with the bit clear the carry rows
\* read a mask, and row 23 merges.
CarryRows == 16 .. 19
OpiRow(w, forms, rs1Type) ==
  LET f6 == Funct6(w)
      op(name, form, rs2Type) ==
        OpiViews(f6, VectorOp(w, name, form, "vreg", rs1Type, rs2Type))
  IN CASE f6 = 23 -> IF Unmasked(w) THEN op("vmv_v", forms[1], "none")
                                    ELSE op("vmerge", forms[3], "vreg")
       [] f6 \in CarryRows /\ ~ Unmasked(w) -> op(OpiStem[f6], forms[3], "vreg")
       [] f6 \in {16, 18} /\ Unmasked(w) -> Illegal
       [] f6 \in 44 .. 47 -> op(OpiStem[f6], forms[2], "vreg")
       [] OTHER -> op(OpiStem[f6], forms[1], "vreg")

\* _decodev_opivv
DecodeOpivv(w) ==
  LET f6 == Funct6(w)
      reduction(name) ==
        [VectorOp(w, name, "vs", "vreg", "vreg", "vreg") EXCEPT
           !.vrdView = "m2", !.vrs1View = "m2"]
  IN CASE f6 = 14 -> [VectorOp(w, "vrgatherei16", "vv", "vreg", "vreg", "vreg") EXCEPT
                        !.vrs1View = "ei16"]
       [] f6 = 48 -> reduction("vwredsumu")
       [] f6 = 49 -> reduction("vwredsum")
       [] f6 \in OpivvRows -> OpiRow(w, <<"vv", "wv", "vvm">>, "vreg")
       [] OTHER -> Illegal
\* _decodev_opivx
DecodeOpivx(w) ==
  IF Funct6(w) \in DOMAIN OpiStem THEN OpiRow(w, <<"vx", "wx", "vxm">>, "gpreg") ELSE Illegal
\* _decodev_opivi: shifts, slides and gathers take the immediate unsigned.
UnsignedImmediate == {12, 14, 15, 37} \union 40 .. 47
DecodeOpivi(w) ==
  LET f6 == Funct6(w)
      imm == IF f6 \in UnsignedImmediate THEN w.rs1 ELSE SignExtend(w.rs1, 4)
      moveName == 0 :> "vmv1r" @@ 1 :> "vmv2r" @@ 3 :> "vmv4r" @@ 7 :> "vmv8r"
      row == OpiRow(w, <<"vi", "wi", "vim">>, "none")
  IN CASE f6 = 39 -> IF w.rs1 \notin DOMAIN moveName THEN Illegal
                     ELSE [VectorOp(w, moveName[w.rs1], "v", "vreg", "none", "vreg") EXCEPT
                             !.imm = imm, !.vrdView = WholeView[w.rs1],
                             !.vrs2View = WholeView[w.rs1]]
       [] f6 \in OpiviRows -> IF row = Illegal THEN Illegal ELSE [row EXCEPT !.imm = imm]
       [] OTHER -> Illegal

-------------------------------------------------------------------------------
\* OPMVV and OPMVX: the rows they share, and those of one of them.
OpmStem ==
  8 :> "vaaddu" @@ 9 :> "vaadd" @@ 10 :> "vasubu" @@ 11 :> "vasub" @@ 32 :> "vdivu"
    @@ 33 :> "vdiv" @@ 34 :> "vremu" @@ 35 :> "vrem" @@ 36 :> "vmulhu" @@ 37 :> "vmul"
    @@ 38 :> "vmulhsu" @@ 39 :> "vmulh" @@ 41 :> "vmadd" @@ 43 :> "vnmsub" @@ 45 :> "vmacc"
    @@ 47 :> "vnmsac" @@ 48 :> "vwaddu" @@ 49 :> "vwadd" @@ 50 :> "vwsubu" @@ 51 :> "vwsub"
    @@ 52 :> "vwaddu" @@ 53 :> "vwadd" @@ 54 :> "vwsubu" @@ 55 :> "vwsub" @@ 56 :> "vwmulu"
    @@ 58 :> "vwmulsu" @@ 59 :> "vwmul" @@ 60 :> "vwmaccu" @@ 61 :> "vwmacc"
    @@ 63 :> "vwmaccsu"
Widened(f6, inst) ==
  [inst EXCEPT !.vrdView = IF f6 >= 48 THEN "m2" ELSE @,
               !.vrs2View = IF f6 \in 52 .. 55 THEN "m2" ELSE "none"]

Reduction ==
  0 :> "vredsum" @@ 1 :> "vredand" @@ 2 :> "vredor" @@ 3 :> "vredxor" @@ 4 :> "vredminu"
    @@ 5 :> "vredmin" @@ 6 :> "vredmaxu" @@ 7 :> "vredmax"
MaskLogical ==
  24 :> "vmandn" @@ 25 :> "vmand" @@ 26 :> "vmor" @@ 27 :> "vmxor" @@ 28 :> "vmorn"
    @@ 29 :> "vmnand" @@ 30 :> "vmnor" @@ 31 :> "vmxnor"
Extension ==
  2 :> <<"vzext", "vf8", "f8">> @@ 3 :> <<"vsext", "vf8", "f8">>
    @@ 4 :> <<"vzext", "vf4", "f4">> @@ 5 :> <<"vsext", "vf4", "f4">>
    @@ 6 :> <<"vzext", "vf2", "f2">> @@ 7 :> <<"vsext", "vf2", "f2">>
MaskSet == 1 :> "vmsbf" @@ 2 :> "vmsof" @@ 3 :> "vmsif"

\* Rows 16, 18 and 20 of OPMVV, which the rs1 field splits.
MoveOrCount(w) ==
  CASE w.rs1 = 0 /\ Unmasked(w) -> VectorOp(w, "vmv_x", "s", "gpreg", "none", "vreg")
    [] w.rs1 = 16 -> VectorOp(w, "vcpop", "m", "gpreg", "none", "vreg")
    [] w.rs1 = 17 -> VectorOp(w, "vfirst", "m", "gpreg", "none", "vreg")
    [] OTHER -> Illegal
ExtensionRow(w) ==
  IF w.rs1 \notin DOMAIN Extension THEN Illegal
  ELSE [VectorOp(w, Extension[w.rs1][1], Extension[w.rs1][2], "vreg", "none", "vreg") EXCEPT
          !.vrs2View = Extension[w.rs1][3]]
MaskRow(w) ==
  CASE w.rs1 \in DOMAIN MaskSet ->
         [VectorOp(w, MaskSet[w.rs1], "m", "vreg", "none", "vreg") EXCEPT
            !.vrdView = "mask", !.vrs2View = "mask"]
    [] w.rs1 = 16 -> [VectorOp(w, "viota", "m", "vreg", "none", "vreg") EXCEPT
                        !.vrs2View = "mask"]
    [] w.rs1 = 17 -> VectorOp(w, "vid", "v", "vreg", "none", "none")
    [] OTHER -> Illegal

\* _decodev_opmvv
DecodeOpmvv(w) ==
  LET f6 == Funct6(w)
      op(name, form) == VectorOp(w, name, form, "vreg", "vreg", "vreg")
      single(inst) == [inst EXCEPT !.vrdView = "e0", !.vrs1View = "e0"]
  IN CASE f6 \in DOMAIN Reduction -> single(op(Reduction[f6], "vs"))
       [] f6 \in 8 .. 11 -> single(op(OpmStem[f6], "vv"))
       [] f6 = 16 -> MoveOrCount(w)
       [] f6 = 18 -> ExtensionRow(w)
       [] f6 = 20 -> MaskRow(w)
       [] f6 = 23 /\ Unmasked(w) -> [op("vcompress", "vm") EXCEPT !.vrs1View = "mask"]
       [] f6 \in DOMAIN MaskLogical /\ Unmasked(w) ->
            [op(MaskLogical[f6], "mm") EXCEPT
               !.vrdView = "mask", !.vrs1View = "mask", !.vrs2View = "mask"]
       [] f6 \in DOMAIN OpmStem \ 8 .. 11 ->
            Widened(f6, op(OpmStem[f6], IF f6 \in 52 .. 55 THEN "wv" ELSE "vv"))
       [] OTHER -> Illegal
\* _decodev_opmvx
DecodeOpmvx(w) ==
  LET f6 == Funct6(w)
      op(name, form, rs2Type) == VectorOp(w, name, form, "vreg", "gpreg", rs2Type)
  IN CASE f6 = 14 -> op("vslide1up", "vx", "vreg")
       [] f6 = 15 -> op("vslide1down", "vx", "vreg")
       [] f6 = 16 -> IF Unmasked(w) THEN op("vmv_s", "x", "none") ELSE Illegal
       [] f6 = 62 -> Widened(f6, op("vwmaccus", "vx", "vreg"))
       [] f6 \in DOMAIN OpmStem ->
            Widened(f6, op(OpmStem[f6], IF f6 \in 52 .. 55 THEN "wx" ELSE "vx", "vreg"))
       [] OTHER -> Illegal

-------------------------------------------------------------------------------
\* OPFVV and OPFVF.
OpfStem ==
  0 :> "vfadd" @@ 2 :> "vfsub" @@ 4 :> "vfmin" @@ 6 :> "vfmax" @@ 8 :> "vfsgnj"
    @@ 9 :> "vfsgnjn" @@ 10 :> "vfsgnjx" @@ 24 :> "vmfeq" @@ 25 :> "vmfle" @@ 27 :> "vmflt"
    @@ 28 :> "vmfne" @@ 32 :> "vfdiv" @@ 36 :> "vfmul" @@ 40 :> "vfmadd" @@ 41 :> "vfnmadd"
    @@ 42 :> "vfmsub" @@ 43 :> "vfnmsub" @@ 44 :> "vfmacc" @@ 45 :> "vfnmacc"
    @@ 46 :> "vfmsac" @@ 47 :> "vfnmsac" @@ 48 :> "vfwadd" @@ 50 :> "vfwsub" @@ 52 :> "vfwadd"
    @@ 54 :> "vfwsub" @@ 56 :> "vfwmul" @@ 60 :> "vfwmacc" @@ 61 :> "vfwnmacc"
    @@ 62 :> "vfwmsac" @@ 63 :> "vfwnmsac"
FloatReduction ==
  1 :> "vfredusum" @@ 3 :> "vfredosum" @@ 5 :> "vfredmin" @@ 7 :> "vfredmax"
    @@ 49 :> "vfwredusum" @@ 51 :> "vfwredosum"
\* Row 18: conversions of the same width, widening from 8 and narrowing from 16.
Conversion ==
  0 :> "vfcvt_xu_f" @@ 1 :> "vfcvt_x_f" @@ 2 :> "vfcvt_f_xu" @@ 3 :> "vfcvt_f_x"
    @@ 6 :> "vfcvt_rtz_xu_f" @@ 7 :> "vfcvt_rtz_x_f" @@ 8 :> "vfwcvt_xu_f"
    @@ 9 :> "vfwcvt_x_f" @@ 10 :> "vfwcvt_f_xu" @@ 11 :> "vfwcvt_f_x" @@ 12 :> "vfwcvt_f_f"
    @@ 14 :> "vfwcvt_rtz_xu_f" @@ 15 :> "vfwcvt_rtz_x_f" @@ 16 :> "vfncvt_xu_f"
    @@ 17 :> "vfncvt_x_f" @@ 18 :> "vfncvt_f_xu" @@ 19 :> "vfncvt_f_x" @@ 20 :> "vfncvt_f_f"
    @@ 21 :> "vfncvt_rod_f_f" @@ 22 :> "vfncvt_rtz_xu_f" @@ 23 :> "vfncvt_rtz_x_f"
ConversionRow(w) ==
  IF w.rs1 \notin DOMAIN Conversion THEN Illegal
  ELSE [VectorOp(w, Conversion[w.rs1], IF w.rs1 < 16 THEN "v" ELSE "w", "vreg", "none", "vreg")
          EXCEPT !.vrdView = IF w.rs1 \in 8 .. 15 THEN "m2" ELSE "none",
                 !.vrs2View = IF w.rs1 >= 16 THEN "m2" ELSE "none"]
UnaryFloat == 0 :> "vfsqrt" @@ 4 :> "vfrsqrt7" @@ 5 :> "vfrec7" @@ 16 :> "vfclass"
FloatViews(f6, inst) ==
  [Widened(f6, inst) EXCEPT !.vrdView = IF f6 \in 24 .. 31 THEN "mask" ELSE @]

\* _decodev_opfvv
DecodeOpfvv(w) ==
  LET f6 == Funct6(w)
      op(name, form) == VectorOp(w, name, form, "vreg", "vreg", "vreg")
      view == IF f6 < 48 THEN "e0" ELSE "m2"
  IN CASE f6 \in DOMAIN FloatReduction ->
            [op(FloatReduction[f6], "vs") EXCEPT !.vrdView = view, !.vrs1View = view]
       [] f6 = 16 -> IF Unmasked(w) THEN VectorOp(w, "vfmv_f", "s", "freg", "none", "vreg")
                     ELSE Illegal
       [] f6 = 18 -> ConversionRow(w)
       [] f6 = 19 -> IF w.rs1 \notin DOMAIN UnaryFloat THEN Illegal
                     ELSE VectorOp(w, UnaryFloat[w.rs1], "v", "vreg", "none", "vreg")
       [] f6 \in DOMAIN OpfStem ->
            FloatViews(f6, op(OpfStem[f6], IF f6 \in {52, 54} THEN "wv" ELSE "vv"))
       [] OTHER -> Illegal
\* _decodev_opfvf
OpfvfOnly ==
  14 :> "vfslide1up" @@ 15 :> "vfslide1down" @@ 29 :> "vmfgt" @@ 31 :> "vmfge"
    @@ 33 :> "vfrdiv" @@ 39 :> "vfrsub"
DecodeOpfvf(w) ==
  LET f6 == Funct6(w)
      op(name, form, rs2Type) == VectorOp(w, name, form, "vreg", "freg", rs2Type)
  IN CASE f6 = 16 -> IF Unmasked(w) THEN op("vfmv_s", "f", "none") ELSE Illegal
       [] f6 = 23 -> IF Unmasked(w) THEN op("vfmerge", "vfm", "none")
                                    ELSE op("vfmv_v", "f", "vreg")
       [] f6 \in DOMAIN OpfvfOnly -> FloatViews(f6, op(OpfvfOnly[f6], "vf", "vreg"))
       [] f6 \in DOMAIN OpfStem ->
            FloatViews(f6, op(OpfStem[f6], IF f6 \in {52, 54} THEN "wf" ELSE "vf", "vreg"))
       [] OTHER -> Illegal

\* _decodev_opcfg: vsetvli, vsetivli and vsetvl by bits 31 and 30.
DecodeOpcfg(w) ==
  LET op(name, rs1Type, rs2Type, imm) ==
        [VectorOp(w, name, "", "vreg", rs1Type, rs2Type) EXCEPT !.imm = imm]
  IN CASE Bit(w.f7, 6) = 0 ->
            op("vsetvli", "gpreg", "none", 32 * Extract(w.f7, 5, 0) + w.rs2)
       [] Bit(w.f7, 6) = 1 /\ Bit(w.f7, 5) = 1 ->
            op("vsetivli", "none", "none", 32 * Extract(w.f7, 4, 0) + w.rs2)
       [] OTHER -> op("vsetvl", "gpreg", "gpreg", 0)

\* decode_opv
DecodeOpv(w) ==
  CASE w.f3 = 0 -> DecodeOpivv(w) [] w.f3 = 1 -> DecodeOpfvv(w)
    [] w.f3 = 2 -> DecodeOpmvv(w) [] w.f3 = 3 -> DecodeOpivi(w)
    [] w.f3 = 4 -> DecodeOpivx(w) [] w.f3 = 5 -> DecodeOpfvf(w)
    [] w.f3 = 6 -> DecodeOpmvx(w) [] w.f3 = 7 -> DecodeOpcfg(w)

-------------------------------------------------------------------------------
\* decode, for a word that is not compressed.
DecodeWord(w) ==
  CASE w.op = "load" -> DecodeLoad(w)
    [] w.op = "loadfp" -> DecodeLoadFp(w)
    [] w.op = "miscmem" -> DecodeFence(w)
    [] w.op = "opimm" -> DecodeOpImm(w)
    [] w.op \in {"auipc", "lui"} -> Named(w.op, "", SetupU(w))
    [] w.op = "opimm32" -> DecodeOpImm32(w)
    [] w.op = "store" -> DecodeStore(w)
    [] w.op = "storefp" -> DecodeStoreFp(w)
    [] w.op = "amo" -> DecodeAmo(w)
    [] w.op = "op" -> DecodeOp(w)
    [] w.op = "op32" -> DecodeOp32(w)
    [] w.op \in {"madd", "msub", "nmsub", "nmadd"} -> DecodeFused(w)
    [] w.op = "opfp" -> DecodeFloat(w)
    [] w.op = "opv" -> DecodeOpv(w)
    [] w.op = "branch" -> DecodeBranch(w)
    [] w.op = "jalr" -> DecodeJalr(w)
    [] w.op = "jal" -> DecodeJal(w)
    [] w.op = "system" -> DecodeSystem(w)
    [] OTHER -> Illegal
==============================================================================
