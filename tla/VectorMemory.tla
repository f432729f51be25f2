----------------------------- MODULE VectorMemory -----------------------------
(***************************************************************************)
(* How a load or a store becomes accesses (memparse.cpp and the end of     *)
(* rvv64.cpp).  An access is a record of its address, of the bytes of the  *)
(* register it is about and of the element it begins with.  The bytes are  *)
(* their places in the register group for a load, and their values for a   *)
(* store.  Addresses stay far from the ends of the address space.          *)
(***************************************************************************)
EXTENDS VectorExec, SequencesExt

DescriptorOf(addr, bytes, first) == [addr |-> addr, bytes |-> bytes, first |-> first]
Parsed(status, vstart, desc) == [status |-> status, vstart |-> vstart, desc |-> desc]

\* An access is cut where a multiple of the boundary lies inside of it.
Split(d, boundary) ==
  LET low == d.addr \div boundary
      high == (d.addr + Len(d.bytes) - 1) \div boundary
      from(k) == IF k = low THEN 0 ELSE k * boundary - d.addr
      to(k) == IF k = high THEN Len(d.bytes) ELSE (k + 1) * boundary - d.addr
  IN [n \in 1 .. high - low + 1 |->
        LET k == low + n - 1
        IN [d EXCEPT !.addr = @ + from(k), !.bytes = SubSeq(@, from(k) + 1, to(k))]]

\* Mutant: neighbours in memory go together wherever they are in the register.
MergesWith_Anywhere(d, e, boundary, load) ==
  /\ d.addr \div boundary = e.addr \div boundary
  /\ d.addr + Len(d.bytes) = e.addr
\* Neighbours go together when they follow each other in memory, in the same
\* block of it, and for loads in the register too.
MergesWith(d, e, boundary, load) ==
  /\ d.addr \div boundary = e.addr \div boundary
  /\ d.addr + Len(d.bytes) = e.addr
  /\ load => Last(d.bytes) + 1 = Head(e.bytes)
MergedDescriptors(descs, boundary, load) ==
  FoldLeft(LAMBDA out, d :
             IF out # <<>> /\ MergesWith(Last(out), d, boundary, load)
             THEN [out EXCEPT ![Len(out)].bytes =
                     IF load THEN [k \in 1 .. Len(@) + Len(d.bytes) |-> Head(@) + k - 1]
                             ELSE @ \o d.bytes]
             ELSE Append(out, d),
           <<>>, descs)

\* parse_load_scalar and parse_store_scalar.
ScalarBytes(inst) == 2 ^ (inst.funct3 % 4)
ParseScalar(inst, base, data, boundary, strict) ==
  LET addr == base + inst.imm
      size == ScalarBytes(inst)
      all == DescriptorOf(addr, IF inst.control = "load" THEN [k \in 1 .. size |-> k - 1]
                                ELSE SubSeq(data, 1, size), 0)
  IN IF inst.control \notin {"load", "store"} THEN Parsed("illegal_instruction", 0, <<>>)
     ELSE IF strict /\ addr % size # 0 THEN Parsed("misaligned_address", 0, <<>>)
     ELSE Parsed("success", 0, IF boundary = 0 THEN <<all>> ELSE Split(all, boundary))

-------------------------------------------------------------------------------
\* get_element_bytes
ElementBytes(sew, view) ==
  CASE view \in {"none", "e0"} -> sew [] view \in {"m2", "e0m2"} -> 2 * sew
    [] view = "f2" -> sew \div 2 [] view = "f4" -> sew \div 4 [] view = "f8" -> sew \div 8
    [] view = "mask" -> 1 [] view \in DOMAIN FixedView -> FixedView[view]
    [] view \in DOMAIN WholeRegisters -> WholeRegisters[view] * VLenBytes
\* get_field_stride_in_vreg
FieldStride(lmul) == (VLenBytes * Groups(lmul)[1]) \div Groups(lmul)[2]

ContiguousNames == {"vleX", "vleXff", "vseX"}
StridedNames == {"vlseX", "vsseX"}
IndexedNames == {"vluxeiX", "vloxeiX", "vsuxeiX", "vsoxeiX"}
\* What is added to the base for an element.  The stride is the base itself,
\* and for the unit-stride names zero: every element has the same address.
ElementOffset(inst, base, vs2, i) ==
  CASE inst.name \in ContiguousNames -> 0
    [] inst.name \in StridedNames -> i * base
    [] inst.name \in IndexedNames ->
         LET k == IF inst.vrs2View \in DOMAIN FixedView THEN FixedView[inst.vrs2View] ELSE 1
         IN Signed(Elements(vs2, k)[i], ByteBits * k)

\* One access for every field of every active element; bytes(n, k) are k bytes
\* of the register group from byte n.
PerElement(inst, ctx, base, vs2, mask, bytes(_, _)) ==
  LET nf == Extract(inst.funct7, 6, 4) + 1
      width == ElementBytes(ctx.sew, inst.vrdView)
      active == SelectSeq([n \in 1 .. ctx.vl - ctx.vstart |-> ctx.vstart + n - 1],
                          LAMBDA i : mask[i] = 1)
      fields(i) == [f \in 1 .. nf |->
        DescriptorOf(base + ElementOffset(inst, base, vs2, i) + (f - 1) * width,
                     bytes(i * width + (f - 1) * FieldStride(ctx.lmul), width), i)]
  IN FlattenSeq([n \in 1 .. Len(active) |-> fields(active[n])])
PerByte(ctx, base, bytes(_, _)) ==
  [n \in 1 .. MaskBytes(ctx.vl) - ctx.vstart |->
     DescriptorOf(base + ctx.vstart + n - 1, bytes(ctx.vstart + n - 1, 1), ctx.vstart + n - 1)]
WholeGroup(inst, base, bytes(_, _)) ==
  <<DescriptorOf(base, bytes(0, VLenBytes * (Extract(inst.funct7, 6, 4) + 1)), 0)>>

\* The first access whose address is not a multiple of its size, or of 8.
Misaligned(descs) ==
  {n \in DOMAIN descs : LET size == Len(descs[n].bytes)
                        IN descs[n].addr % (IF size > 8 THEN 8 ELSE size) # 0}
\* What is done with the accesses, in the order of the code.  Stores leave the
\* number of the first element uninitialised: any value, here garbage.  Without
\* a boundary the comparison of two neighbours divides by zero.
Finished(ctx, descs, boundary, strict, load, garbage) ==
  LET bad == Min(Misaligned(descs))
      pieces == FlattenSeq([n \in 1 .. Len(descs) |-> Split(descs[n], boundary)])
  IN IF descs = <<>> THEN Parsed("success", 0, <<>>)
     ELSE IF strict /\ Misaligned(descs) # {}
     THEN Parsed("misaligned_address", IF load THEN descs[bad].first ELSE garbage,
                 SubSeq(descs, 1, bad - 1))
     ELSE IF boundary = 0 /\ Len(descs) = 1 THEN Parsed("success", 0, descs)
     ELSE IF boundary = 0 THEN Parsed("division_by_zero", ctx.vstart, <<>>)
     ELSE Parsed("success", 0, MergedDescriptors(pieces, boundary, load))

\* parse_load_vector and parse_store_vector; vs3 is the data of a store.
ParseVector(inst, ctx, base, vs2, vs3, boundary, strict, garbage) ==
  LET load == inst.control = "vload"
      refused(why) == Parsed(why, ctx.vstart, <<>>)
      short(raw, type, view) == ByteCount(raw) < RequestRegBytes(ctx, type, view)
      masked == inst.funct7 % 2 = 0 /\ DOMAIN ctx.vmask # {}
      mask == IF masked THEN ExpandMask(ctx.vl, ctx.vmask) ELSE [i \in 0 .. ctx.vl - 1 |-> 1]
      bytes(n, k) == [m \in 1 .. k |-> IF load THEN n + m - 1 ELSE vs3[n + m - 1]]
      finished(descs) == Finished(ctx, descs, boundary, strict, load, garbage)
  IN IF masked /\ ByteCount(ctx.vmask) < MaskBytes(ctx.vl) THEN refused("insufficient_vmask")
     ELSE IF short(vs2, inst.rs2Type, inst.vrs2View) THEN refused("insufficient_vs2")
     ELSE IF ~ load /\ short(vs3, inst.rs3Type, inst.vrs3View)
     THEN refused("insufficient_vs3")
     ELSE IF inst.name \in ContiguousNames \union StridedNames \union IndexedNames
     THEN finished(PerElement(inst, ctx, base, vs2, mask, bytes))
     ELSE IF inst.name \in {"vlm", "vsm"} THEN finished(PerByte(ctx, base, bytes))
     ELSE IF inst.name \in {"vlNreX", "vsNr"} THEN finished(WholeGroup(inst, base, bytes))
     ELSE refused("illegal_instruction")
==============================================================================
