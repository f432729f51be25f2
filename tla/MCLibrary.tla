------------------------------- MODULE MCLibrary -------------------------------
(***************************************************************************)
(* Instances of Library for TLC.  A byte has 3 bits, so that elements of   *)
(* 1, 2, 4 and 8 bytes have 3, 6, 12 and 24, and formats with as many bits *)
(* stand for float16_t, float32_t and float64_t; the integer instructions  *)
(* are on registers of 8 bits.                                             *)
(***************************************************************************)
EXTENDS LibraryLaws

MCHalf == [exp |-> 3, frac |-> 2, guard |-> 3]
MCSingle == [exp |-> 4, frac |-> 7, guard |-> 3]
MCDouble == [exp |-> 6, frac |-> 17, guard |-> 3]

\* Every word of 16 bits, and for every opcode every pattern of function bits
\* with a few registers; the rs2 or rs1 field takes every value where it
\* selects the instruction.
MCHalves == 0 .. 2 ^ 16 - 1
W(op, f7, rs2, rs1, f3, rd) ==
  [op : op, f7 : f7, rs2 : rs2, rs1 : rs1, f3 : f3, rd : rd]
MCWords32 ==
  W({"load", "miscmem", "opimm", "opimm32", "amo", "op", "op32", "lui", "auipc", "nop"}, 0 .. 127,
    {2, 21}, {21}, 0 .. 7, {20})
    \union W({"store", "branch"}, 0 .. 127, {2}, {21}, 0 .. 7, {1, 20})
    \union W({"jal", "jalr"}, 0 .. 127, {21}, {0, 1, 5, 21}, {0, 7}, {0, 1, 5, 20})
    \union W({"system"}, 0 .. 127, 0 .. 31, {9}, {0, 1, 2, 7}, {20})
    \union W({"opfp"}, 0 .. 127, {0, 1, 2, 3, 4, 8, 31}, {3}, 0 .. 7, {9})
    \union W({"madd", "msub", "nmsub", "nmadd"}, 0 .. 127, {7}, {3}, {0, 7}, {9})
    \union W({"opv"}, 0 .. 127, {7}, 0 .. 23, 0 .. 6, {9})
    \union W({"opv"}, 0 .. 127, {7}, {9, 31}, {7}, {9})
    \union W({"loadfp", "storefp"}, 0 .. 127, {0, 1, 8, 11, 16, 31}, {3}, 0 .. 7, {9})

-------------------------------------------------------------------------------
\* Registers of 8 bits, with words of 4.
Edges == {0, 1, 2, 3, 7, 8, 15, 16, 127, 128, 129, 240, 254, 255}
Spread == {v \in Word(8) : v % 5 = 0 \/ v \in Edges}
Ops == {"add", "sub", "sll", "slt", "sltu", "xor", "srl", "sra", "or", "and", "mul", "mulh",
        "mulhsu", "mulhu", "div", "divu", "rem", "remu"}
Ops32 == {"addw", "subw", "sllw", "srlw", "sraw", "mulw", "divw", "divuw", "remw", "remuw"}
Fields == {f \in (0 .. 7) \X (0 .. 7) : f[1] >= f[2] /\ f[1] - f[2] < 7}
Amos == {"amoadd", "amoswap", "lr", "sc", "amoxor", "amoand", "amoor", "amomin", "amomax",
         "amominu", "amomaxu"}
MCIntegerCalls ==
  [unit : {"op"}, name : Ops, a : Spread, b : Edges]
    \union [unit : {"op32"}, name : Ops32, a : Spread, b : Edges]
    \union [unit : {"opimm"}, name : DOMAIN Reg!OpOfImm, a : Spread, imm : {-8, -1, 0, 1, 7}]
    \union [unit : {"opimm32"}, name : DOMAIN Reg!OpOfImm32, a : Edges, imm : {-8, -1, 0, 1, 7}]
    \union [unit : {"branch"}, name : {"beq", "bne", "blt", "bge", "bltu", "bgeu"}, a : Edges,
            b : Edges, pc : {0, 4, 252}, imm : {-8, 8}]
    \union UNION {[unit : {"csr"}, op : 0 .. 3, hi : {f[1]}, lo : {f[2]}, a : {0, 1, 129, 240, 255}, b : Edges]
                   : f \in Fields}
    \union [unit : {"amo"}, name : Amos, order : {0, 2}, a : Edges, b : {0, 1, 15, 128, 255}]

-------------------------------------------------------------------------------
\* Nearly every pair of the smallest format, in every rounding mode.
Modes == 0 .. 5
Seconds == {v \in Word(6) : v % 3 = 1 \/ v \in {3, 6, 12, 20, 32}}
Narrow3 == [exp |-> 3, frac |-> 7, guard |-> 3] \* with a table of 7 bits, not too wide
MCSoftCalls ==
  [name : {"add", "sub", "mul", "div"}, F : {MCHalf}, a : Word(6), b : Seconds, rm : Modes]
    \union [name : {"sqrt"}, F : {MCHalf}, a : Word(6), rm : 0 .. 4]
    \union [name : {"mulAdd"}, F : {MCHalf}, a : {0, 1, 3, 5, 8, 13, 22, 27, 33, 45, 60},
            b : {v \in Word(6) : v % 3 = 1}, c : {0, 1, 6, 17, 27, 32, 35, 50, 59}, rm : Modes]
    \union [name : {"fromInteger"}, F : {MCHalf, MCSingle}, a : -40 .. 40, rm : Modes]
    \union [name : {"toInteger"}, F : {MCHalf}, a : Word(6), signed : BOOLEAN, n : {3, 6},
            rm : Modes]
    \union [name : {"convert"}, F : {MCHalf}, G : {MCSingle}, a : Word(6), rm : Modes]
    \union [name : {"convert"}, F : {MCSingle}, G : {MCHalf}, a : {v \in Word(12) : v % 5 = 2},
            rm : Modes]
    \union [name : {"recip7", "rsqrt7"}, F : {Narrow3}, a : {v \in Word(11) : v % 3 = 0},
            rm : {0, 1, 3}]

\* Numbers of float16_t: of every kind, far apart and close together; and every
\* pattern of the fraction bits that selects an entry of a table, in between.
Kinds16 ==
  {0, 1, 2, 3, 5, 511, 1022, 1023, 1024, 1025, 1500, 2047, 2048, 9217, 12288, 14335, 14336, 15359,
   15360, 15361, 16383, 16384, 17407, 27648, 28673, 30719, 31742, 31743, 31744, 31745, 32256}
Signed16 == Kinds16 \union {v + 2 ^ 15 : v \in Kinds16}
MCHalfCalls ==
  [name : {"f16_add", "f16_sub", "f16_mul", "f16_div"}, a : Signed16, b : Kinds16, rm : Modes]
    \union [name : {"f16_div"}, a : {15360 + 7 * k : k \in 0 .. 146}, b : {15360 + 11 * k : k \in 0 .. 93},
            rm : {NearEven}]
    \union [name : {"f16_add", "f16_sub"}, a : {15363, 15872, 33791}, b : {k \in Word(15) : k % 61 = 7},
            rm : Modes]
    \union [name : {"f16_sqrt"}, a : Signed16 \union {k \in Word(15) : k % 5 = 1}, rm : {NearEven, RoundMax}]

\* rs1 and rs2 are boxed in registers of 24 bits.
FpOps == {"ADD", "SUB", "MUL", "DIV", "SQRT", "SGNJ", "MIN", "CMP", "CVTI2F", "CVTF2I",
          "MVF2I", "MVI2F", "MVF2F"}
Boxed(S) == {v + 2 ^ 24 - 2 ^ 6 : v \in S}
Samples == {0, 1, 3, 8, 13, 27, 28, 29, 30, 32, 33, 40, 45, 59, 60, 61, 62}
MCFloatCalls ==
  [op : FpOps, width : {2}, funct3 : 0 .. 2, frm : {0, 1}, rs2field : {0, 1}, rs1 : Boxed(Samples),
   rs2 : Boxed({0, 13, 28, 60, 62})]
    \union [op : {"CMP", "MIN", "SGNJ"}, width : {2}, funct3 : 0 .. 2, frm : {0},
            rs2field : {0}, rs1 : Boxed({v \in Word(6) : v % 4 < 2}), rs2 : Boxed({v \in Word(6) : v % 4 # 2})]
    \union [op : FpOps \ {"MUL", "DIV", "SQRT"}, width : {0, 1, 3}, funct3 : {0, 1, 7}, frm : {0, 3},
            rs2field : {0, 1, 2, 3}, rs1 : {1, 5000, 2 ^ 24 - 1}, rs2 : {2 ^ 24 - 4000}]
    \union [op : {"MADD"}, name : {"fmadd", "fmsub", "fnmsub", "fnmadd"}, width : {2},
            funct3 : {0, 7}, frm : {2}, rs1 : Boxed(Samples), rs2 : Boxed({0, 5, 13, 32, 60}),
            rs3 : Boxed(Samples)]

-------------------------------------------------------------------------------
\* The words of opv that decode accepts, configuration apart; the rs1 field is
\* another operand or, where it selects the instruction, every value.
Legal(S) == {w \in S : Dec!DecodeWord(w) # Illegal}
Selects(w) == \/ w.f3 \in {1, 2} /\ w.f7 \div 2 \in {16, 18, 19, 20}
              \/ w.f3 = 3 /\ w.f7 \div 2 = 39
MCVectorWords == Legal({w \in W({"opv"}, 0 .. 127, {7}, 0 .. 31, 0 .. 6, {9}) : w.rs1 = 3 \/ Selects(w)})
\* What the numbers of TLC cannot hold: products of the widest elements; and
\* estimates of seven bits in a format with fewer.
Stem(w) == Dec!DecodeWord(w).name
Products ==
  {"vmulhu", "vmulhsu", "vmulh", "vmul", "vmadd", "vnmsub", "vmacc", "vnmsac", "vsmul",
   "vaaddu", "vaadd", "vasubu", "vasub", "vfmul", "vfdiv", "vfrdiv", "vfsqrt", "vfmadd", "vfnmadd",
   "vfmsub", "vfnmsub", "vfmacc", "vfnmacc", "vfmsac", "vfnmsac"}
WideProducts == {"vfwmul", "vfwmacc", "vfwnmacc", "vfwmsac", "vfwnmsac"}
Holds(w, sew) ==
  /\ sew = 8 => Stem(w) \notin Products
  /\ sew = 4 => Stem(w) \notin WideProducts
  /\ Stem(w) \in {"vfrec7", "vfrsqrt7"} => sew \in {1, 4, 8}
\* Registers of 32 bytes, and lengths with their first elements.
Raw(seed) == [b \in 0 .. 31 |-> (seed + 3 * b + (b * b * seed) \div 5) % 8]
Lengths == {<<4, 0>>, <<3, 1>>, <<4, 2>>}
ContextOf(sew, n, vcsr, vmask) ==
  [sew |-> sew, lmul |-> "m4", vl |-> n[1], vstart |-> n[2], vcsr |-> vcsr, vmask |-> vmask,
   beyond |-> 5]
MaskOf(k) == [b \in 0 .. 3 |-> (k \div 2 ^ (3 * b)) % 8]
Operation(w, sew, n, vcsr, k, seed) ==
  [inst |-> Dec!DecodeWord(w), ctx |-> ContextOf(sew, n, vcsr, MaskOf(k)), vd |-> Raw(seed),
   vs1 |-> Raw(seed + 3), vs2 |-> Raw(2 * seed + 5), frm |-> (seed + vcsr) % 5]
\* Masked by one byte, with any bits behind it: four elements need two bytes,
\* 24 need as much as is taken for one, and 25 need more.
Shorter(c, byte, beyond) == [c EXCEPT !.ctx.vmask = 0 :> byte, !.ctx.beyond = beyond]
ShortMaskCalls ==
  {Shorter(Operation(c[1], c[2], <<4, 0>>, 0, 0, 9), c[3], c[4]) :
     c \in {t \in MCVectorWords \X {2} \X {3, 5} \X {0, 5} :
              t[1].f7 % 2 = 0 /\ Holds(t[1], t[2])}}
    \union {[Shorter(Operation(w, 1, <<n, 0>>, 0, 0, 9), 5, beyond) EXCEPT !.ctx.lmul = "m8"] :
              w \in {v \in MCVectorWords : Stem(v) = "vadd" /\ v.f7 % 2 = 0}, n \in {24, 25},
              beyond \in 0 .. 7}
FixedStems ==
  {"vssrl", "vssra", "vnclipu", "vnclip", "vaaddu", "vaadd", "vasubu", "vasub", "vsmul", "vsaddu",
   "vsadd", "vssubu", "vssub"}
MCVectorCalls ==
  {Operation(c[1], c[2], c[3], 2 * (c[4] % 4), c[4], c[4]) :
     c \in {t \in MCVectorWords \X {1, 2, 4} \X Lengths \X {5, 11} : Holds(t[1], t[2])}}
    \union {Operation(c[1], 8, <<3, 1>>, 0, 6, 7) : c \in {t \in MCVectorWords \X {8} : Holds(t[1], 8)}}
    \union {Operation(w, c[1], <<4, 0>>, c[2], c[3], c[4]) :
              w \in {v \in MCVectorWords : Stem(v) \in FixedStems},
              c \in {1, 2} \X {0, 2, 3, 4, 6} \X {5} \X {1, 2, 9}}
    \union {[Operation(w, sew, <<4, 0>>, 0, 5, 9) EXCEPT !.vs1 = [b \in 0 .. 31 |-> 7]] :
              w \in {v \in MCVectorWords : Stem(v) \in {"vadc", "vsbc"}}, sew \in {1, 2, 4}}
    \union ShortMaskCalls

-------------------------------------------------------------------------------
\* Vector accesses with every name, and scalar ones of every width.
MCAccessWords ==
  Legal(W({"loadfp", "storefp"}, {0, 1, 2, 3, 4, 5, 6, 7, 16, 17, 33, 37, 49}, {0, 8, 11, 16}, {9},
          {0, 5, 6, 7}, {8}))
AccessContext(sew, n, k) ==
  [sew |-> sew, lmul |-> "m2", vl |-> n[1], vstart |-> n[2], vcsr |-> 0, vmask |-> MaskOf(k),
   beyond |-> 5]
MCAccessCalls ==
  {[inst |-> Dec!DecodeWord(w), ctx |-> AccessContext(c[1], c[2], c[3]), base |-> c[4],
    vs2 |-> [b \in 0 .. 31 |-> b % 3], vs3 |-> Raw(3), boundary |-> c[5], strict |-> c[6],
    garbage |-> 3] :
     w \in MCAccessWords,
     c \in {1, 2} \X {<<0, 0>>, <<1, 0>>, <<4, 2>>} \X {5, 14} \X {16, 21} \X {0, 8}
             \X BOOLEAN}
    \union
  {[inst |-> Dec!DecodeWord(w), base |-> b, data |-> <<1, 2, 3, 4, 5, 6, 7, 0>>,
    boundary |-> c[1], strict |-> c[2]] :
     w \in Legal(W({"load", "store"}, {0, 127}, {3}, {9}, 0 .. 7, {29})), b \in 40 .. 48,
     c \in {0, 4, 8} \X BOOLEAN}

-------------------------------------------------------------------------------
\* A hart with an address in x9, and what it executes.
MCHart(base, sew, lmul, n) ==
  [pc |-> 64,
   x |-> [r \in 0 .. 31 |-> CASE r = 0 -> 0 [] r = 9 -> base [] r = 10 -> 2 ^ 24 - 3
                              [] r = 1 -> 200 [] r \notin {0, 1, 9, 10} -> 5 * r],
   v |-> [r \in 0 .. 31 |-> [b \in 0 .. 3 |-> (3 * r + b) % 8]],
   sew |-> sew, lmul |-> lmul, vl |-> n[1], vstart |-> n[2], vcsr |-> 5, vtype |-> 0,
   csr |-> 832 :> 6, ticks |-> 70, retired |-> 20, id |-> 1]
MCMemory == [p \in 0 .. 63 |-> (p * p + p \div 3) % 8]
UnitStrideWords == Legal(W({"loadfp", "storefp"}, {0, 1, 33}, {0}, {9}, {0, 5, 6, 7}, {8, 9}))
ScalarWords ==
  Legal(W({"load", "store"}, {0}, {3}, {9}, 0 .. 7, {0, 20})
          \union W({"opimm", "opimm32", "lui", "auipc", "amo", "miscmem"}, {0, 1, 32, 127}, {0, 8},
                   {9}, 0 .. 7, {0, 20})
          \union W({"op", "op32"}, {0, 1, 32}, {7}, {9, 10}, 0 .. 7, {0, 20})
          \union W({"branch"}, {0, 127}, {9, 10}, {9}, 0 .. 7, {8})
          \union W({"jal"}, {0, 127}, {4}, {0}, {0}, {0, 1, 20})
          \union W({"jalr"}, {0}, {4, 5}, {0, 1, 5, 9, 20}, {0}, {0, 1, 5, 20})
          \union {w \in W({"system"}, 0 .. 127, 0 .. 31, {0, 6, 9}, 0 .. 7, {0, 20}) :
                    32 * w.f7 + w.rs2 \in {0, 1, 8, 9, 10, 15, 832, 3072, 3074, 3104, 3105, 3106,
                                           3860}}
          \union W({"opv"}, {0, 1, 8, 32, 64, 96}, {1, 8, 9, 10, 12, 16, 27}, {0, 5, 9}, {7}, {0, 20}))
Step3(w, h) == [inst |-> Dec!DecodeWord(w), hart |-> h, mem |-> MCMemory]
MCHartCalls ==
  {Step3(w, MCHart(16, 2, "m2", <<3, 1>>)) : w \in ScalarWords}
    \union {Step3(w, MCHart(16, c[1], "m2", c[2])) : w \in MCVectorWords,
              c \in {<<2, <<3, 1>>>>, <<1, <<8, 0>>>>}}
    \union {Step3(w, MCHart(c[1], c[2], "m2", c[3])) : w \in UnitStrideWords,
              c \in (16 .. 24) \X {1, 2, 4} \X {<<0, 0>>, <<1, 0>>, <<2, 0>>, <<2, 1>>}}
\* Messages at the edges of their fields, and changes of one byte of an encoded
\* one, every prefix and one byte more.
Data(n) == [i \in 1 .. n |-> i % 8]
Requests ==
  [op : {1, 2}, hart_id : {0, 4095}, transaction_id : {9, 4088}, address : {63, 2 ^ 24 - 1},
   size : {0, 1, 2, 63}, data : {Data(n) : n \in {0, 1, 2, 62, 63}}]
Responses ==
  [status : 0 .. 1, hart_id : {0, 7, 8, 4095}, transaction_id : {0, 511, 4088},
   data : {Data(n) : n \in {0, 1, 7, 8, 9, 63, 64, 65}}]
Damaged(m) ==
  {[m EXCEPT ![i] = b] : i \in DOMAIN m, b \in {0, 2, 6}} \union {SubSeq(m, 1, n) : n \in 0 .. Len(m)}
    \union {Append(m, 1)}
Request(op, n) ==
  [op |-> op, hart_id |-> 3, transaction_id |-> 4095, address |-> 100, size |-> 2, data |-> Data(n)]
Response(n) == [status |-> 0, hart_id |-> 8, transaction_id |-> 77, data |-> Data(n)]
MCMessageCalls ==
  [name : {"encode_request"}, of : Requests] \union [name : {"encode_response"}, of : Responses]
    \union [name : {"decode_request"},
            of : Damaged(Bytes!encode_request(Request(1, 0))) \union
                 Damaged(Bytes!encode_request(Request(2, 2)))]
    \union [name : {"decode_response"},
            of : Damaged(Bytes!encode_response(Response(0))) \union
                 Damaged(Bytes!encode_response(Response(9)))]

\* The calls that the two runs about fmsub and about the jumps are left with.
MCNone == {}
MCMsubCalls == {c \in MCFloatCalls : c.op = "MADD" /\ c.name = "fmsub"}
MCJumpCalls == {c \in MCHartCalls : c.inst.opcode = "jalr"}
MCTimings ==
  [integer_alu |-> 1, integer_multiply |-> 3, integer_divide |-> 20, branch_jump |-> 2, csr |-> 1,
   fence |-> 1, memory_issue |-> 1, vector_config |-> 1, vector_integer_alu |-> 2,
   vector_base |-> 2, vector_lanes |-> 4,
   instructions |-> <<"vmul", "vv">> :> Timing(4, 2) @@ <<"vleX", "2">> :> Timing(0, 4)]
==============================================================================
