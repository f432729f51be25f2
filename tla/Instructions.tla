---------------------------- MODULE Instructions ----------------------------
(***************************************************************************)
(* What the decoders of the instruction set library produce: the names of  *)
(* InstName and the fields of DecodedInst.  A name is a pair of its stem    *)
(* and its form: fadd_s is fadd in the form s, vadd_vx is vadd in the form  *)
(* vx, and an instruction without forms has the form "".                    *)
(***************************************************************************)
EXTENDS Words, FiniteSets, TLC

CONSTANT Illegal \* what a decoder that returns false leaves

RV64I ==
  {"lui", "auipc", "jal", "jalr", "beq", "bne", "blt", "bge", "bltu", "bgeu",
   "lb", "lh", "lw", "ld", "lbu", "lhu", "lwu", "sb", "sh", "sw", "sd",
   "addi", "slli", "slti", "sltiu", "xori", "srli", "srai", "ori", "andi",
   "add", "sub", "sll", "slt", "sltu", "xor", "srl", "sra", "or", "and",
   "addiw", "slliw", "srliw", "sraiw", "addw", "subw", "sllw", "srlw", "sraw",
   "fence", "fence_i", "fence_tso", "ecall", "ebreak", "wfi", "sret", "mret", "uret",
   "csrrw", "csrrs", "csrrc", "csrrwi", "csrrsi", "csrrci"} \X {""}

MExtension ==
  {"mul", "mulh", "mulhsu", "mulhu", "div", "divu", "rem", "remu",
   "mulw", "divw", "divuw", "remw", "remuw"} \X {""}

AExtension ==
  {"lr", "sc", "amoswap", "amoadd", "amoxor", "amoand", "amoor",
   "amomin", "amomax", "amominu", "amomaxu"} \X {"d", "w"}

\* F, D, Q and Zfh: s, d, q and h are the formats, w, wu, l and lu the integers.
Formats == {"s", "d", "q", "h"}
Integer4 == {"w", "wu", "l", "lu"}
CvtTo ==
  [w |-> "fcvt_w", wu |-> "fcvt_wu", l |-> "fcvt_l", lu |-> "fcvt_lu",
   s |-> "fcvt_s", d |-> "fcvt_d", q |-> "fcvt_q", h |-> "fcvt_h"]
FloatNames ==
  {"fadd", "fsub", "fmul", "fdiv", "fsqrt", "fsgnj", "fsgnjn", "fsgnjx", "fmin", "fmax",
   "fmadd", "fmsub", "fnmsub", "fnmadd", "fclass", "feq", "flt", "fle"} \X Formats
    \union {<<CvtTo[a], b>> : a \in Integer4, b \in Formats}
    \union UNION {{<<CvtTo[a], b>> : b \in (Integer4 \union Formats) \ {a}} : a \in Formats}
    \union {"fmv_w_x", "fmv_x_w", "fmv_d_x", "fmv_x_d", "fmv_h_x", "fmv_x_h",
            "flw", "fsw", "fld", "fsd", "flq", "fsq", "flh", "fsh"} \X {""}

VectorMemory ==
  {"vsetvli", "vsetivli", "vsetvl",
   "vleX", "vluxeiX", "vlseX", "vloxeiX", "vlm", "vleXff", "vlNreX",
   "vseX", "vsuxeiX", "vsseX", "vsoxeiX", "vsm", "vsNr"} \X {""}

\* OPIVV, OPIVX and OPIVI.
IntegerVV ==
  {"vadd", "vsub", "vminu", "vmin", "vmaxu", "vmax", "vand", "vor", "vxor", "vrgather",
   "vmadc", "vmsbc", "vmv_v", "vmseq", "vmsne", "vmsltu", "vmslt", "vmsleu", "vmsle",
   "vsaddu", "vsadd", "vssubu", "vssub", "vsll", "vsmul", "vsrl", "vsra", "vssrl", "vssra"}
IntegerNarrowing == {"vnsrl", "vnsra", "vnclipu", "vnclip"}
IntegerCarry == {"vadc", "vmadc", "vsbc", "vmsbc", "vmerge"}
OpIvv ==
  IntegerVV \X {"vv"} \union IntegerNarrowing \X {"wv"} \union IntegerCarry \X {"vvm"}
    \union {<<"vrgatherei16", "vv">>, <<"vwredsumu", "vs">>, <<"vwredsum", "vs">>}
OpIvx ==
  (IntegerVV \union {"vrsub", "vmsgtu", "vmsgt", "vslideup", "vslidedown"}) \X {"vx"}
    \union IntegerNarrowing \X {"wx"} \union IntegerCarry \X {"vxm"}
OpIvi ==
  {"vadd", "vrsub", "vand", "vor", "vxor", "vrgather", "vslideup", "vslidedown",
   "vmadc", "vmv_v", "vmseq", "vmsne", "vmsleu", "vmsle", "vmsgtu", "vmsgt",
   "vsaddu", "vsadd", "vsll", "vsrl", "vsra", "vssrl", "vssra"} \X {"vi"}
    \union IntegerNarrowing \X {"wi"} \union {"vadc", "vmadc", "vmerge"} \X {"vim"}
    \union {"vmv1r", "vmv2r", "vmv4r", "vmv8r"} \X {"v"}

\* OPMVV and OPMVX.
MultiplyVV ==
  {"vaaddu", "vaadd", "vasubu", "vasub", "vdivu", "vdiv", "vremu", "vrem",
   "vmulhu", "vmul", "vmulhsu", "vmulh", "vmadd", "vnmsub", "vmacc", "vnmsac",
   "vwaddu", "vwadd", "vwsubu", "vwsub", "vwmulu", "vwmulsu", "vwmul",
   "vwmaccu", "vwmacc", "vwmaccsu"}
MultiplyWide == {"vwaddu", "vwadd", "vwsubu", "vwsub"}
OpMvv ==
  MultiplyVV \X {"vv"} \union MultiplyWide \X {"wv"}
    \union {"vredsum", "vredand", "vredor", "vredxor", "vredminu", "vredmin",
            "vredmaxu", "vredmax"} \X {"vs"}
    \union {"vzext", "vsext"} \X {"vf8", "vf4", "vf2"}
    \union {"vcpop", "vfirst", "vmsbf", "vmsof", "vmsif", "viota"} \X {"m"}
    \union {"vmandn", "vmand", "vmor", "vmxor", "vmorn", "vmnand", "vmnor", "vmxnor"} \X {"mm"}
    \union {<<"vmv_x", "s">>, <<"vid", "v">>, <<"vcompress", "vm">>}
OpMvx ==
  (MultiplyVV \union {"vslide1up", "vslide1down", "vwmaccus"}) \X {"vx"}
    \union MultiplyWide \X {"wx"} \union {<<"vmv_s", "x">>}

\* OPFVV and OPFVF.
FloatVV ==
  {"vfadd", "vfsub", "vfmin", "vfmax", "vfsgnj", "vfsgnjn", "vfsgnjx",
   "vmfeq", "vmfle", "vmflt", "vmfne", "vfdiv", "vfmul", "vfmadd", "vfnmadd", "vfmsub",
   "vfnmsub", "vfmacc", "vfnmacc", "vfmsac", "vfnmsac", "vfwadd", "vfwsub", "vfwmul",
   "vfwmacc", "vfwnmacc", "vfwmsac", "vfwnmsac"}
OpFvv ==
  FloatVV \X {"vv"} \union {"vfwadd", "vfwsub"} \X {"wv"}
    \union {"vfredusum", "vfredosum", "vfredmin", "vfredmax", "vfwredusum",
            "vfwredosum"} \X {"vs"}
    \union {"vfcvt_xu_f", "vfcvt_x_f", "vfcvt_f_xu", "vfcvt_f_x", "vfcvt_rtz_xu_f",
            "vfcvt_rtz_x_f", "vfwcvt_xu_f", "vfwcvt_x_f", "vfwcvt_f_xu", "vfwcvt_f_x",
            "vfwcvt_f_f", "vfwcvt_rtz_xu_f", "vfwcvt_rtz_x_f",
            "vfsqrt", "vfrsqrt7", "vfrec7", "vfclass"} \X {"v"}
    \union {"vfncvt_xu_f", "vfncvt_x_f", "vfncvt_f_xu", "vfncvt_f_x", "vfncvt_f_f",
            "vfncvt_rod_f_f", "vfncvt_rtz_xu_f", "vfncvt_rtz_x_f"} \X {"w"}
    \union {<<"vfmv_f", "s">>}
OpFvf ==
  (FloatVV \union {"vfslide1up", "vfslide1down", "vmfgt", "vmfge", "vfrdiv", "vfrsub"})
      \X {"vf"}
    \union {"vfwadd", "vfwsub"} \X {"wf"}
    \union {<<"vfmv_s", "f">>, <<"vfmerge", "vfm">>, <<"vfmv_v", "f">>}

\* Enumerators that no opcode of the decoders stands for.
Crypto ==
  {"aes32dsi", "aes32dsmi", "aes32esi", "aes32esmi", "aes64ds", "aes64dsm", "aes64es",
   "aes64esm", "aes64im", "aes64ks1i", "aes64ks2", "andn", "brev8", "clmul", "clmulh",
   "orn", "pack", "packh", "packw", "rev8", "rol", "rolw", "ror", "rori", "roriw", "rorw",
   "sha256sig0", "sha256sig1", "sha256sum0", "sha256sum1", "sha512sig0h", "sha512sig0l",
   "sha512sig1h", "sha512sig1l", "sha512sum0r", "sha512sum1r", "sha512sig0",
   "sha512sig1", "sha512sum0", "sha512sum1", "sm3p0", "sm3p1", "sm4ed", "sm4ks",
   "unzip", "xnor", "xperm8", "xperm4", "zip"} \X {""}
    \union {"vaesdf", "vaesdm", "vaesef", "vaesem"} \X {"vv", "vs"}

InstName ==
  RV64I \union MExtension \union AExtension \union {<<"sfence_vma", "">>} \union FloatNames
    \union VectorMemory \union OpIvv \union OpIvx \union OpIvi \union OpMvv \union OpMvx
    \union OpFvv \union OpFvf \union Crypto

-------------------------------------------------------------------------------
\* DecodedInst{}.  instType is left out: nothing reads it.
Blank ==
  [name |-> "illegal", form |-> "", opcode |-> "nop", control |-> "none", imm |-> 0,
   rd |-> 0, rs1 |-> 0, rs2 |-> 0, rs3 |-> 0,
   rdType |-> "none", rs1Type |-> "none", rs2Type |-> "none", rs3Type |-> "none",
   funct3 |-> 0, funct7 |-> 0, rdExt |-> "zero",
   vrdView |-> "none", vrs1View |-> "none", vrs2View |-> "none", vrs3View |-> "none"]

RegType == {"none", "gpreg", "freg", "vreg"}
RDExtType == {"zero", "sign8", "sign16", "sign32"}
VRegView ==
  {"none", "m2", "f2", "f4", "f8", "ei8", "ei16", "ei32", "ei64", "mask", "e0", "e0m2",
   "reg1", "reg2", "reg4", "reg8"}
ControlType ==
  {"none", "branch", "direct_jump", "indirect_jump", "call", "ret", "load", "store",
   "vload", "vstore", "amo", "csr", "fence", "fencei", "fence_tso", "sfence_vma",
   "ecall", "ebreak", "mret", "sret", "uret", "wfi"}
Opcode ==
  {"load", "loadfp", "miscmem", "opimm", "auipc", "opimm32", "store", "storefp", "amo",
   "op", "lui", "op32", "madd", "msub", "nmsub", "nmadd", "opfp", "opv", "branch",
   "jalr", "jal", "system", "nop"}

Types ==
  [name : {n[1] : n \in InstName}, form : {n[2] : n \in InstName},
   opcode : Opcode, control : ControlType, imm : Int,
   rd : 0 .. 31, rs1 : 0 .. 31, rs2 : 0 .. 31, rs3 : 0 .. 31,
   rdType : RegType, rs1Type : RegType, rs2Type : RegType, rs3Type : RegType,
   funct3 : 0 .. 7, funct7 : 0 .. 127, rdExt : RDExtType,
   vrdView : VRegView, vrs1View : VRegView, vrs2View : VRegView, vrs3View : VRegView]
=============================================================================
