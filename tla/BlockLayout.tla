----------------------------- MODULE BlockLayout -----------------------------
(***************************************************************************)
(* The geometry of a vector file (slate-storage/src/layout.rs): how dense   *)
(* indices map to byte offsets.  Vectors are packed back to back inside a   *)
(* block and never cross its end.  A layout L is [dtype, dims, blockSize].  *)
(***************************************************************************)
EXTENDS Integers

CONSTANT HeaderSize       \* bytes before the first block

ASSUME HeaderAssumption == HeaderSize \in Nat \ {0}

VARIABLE header           \* at the start of the file: what a reader knows of the layout

\* Dtype::stored_vector_bytes: an i8 vector carries its scale.
VectorBytes(L) ==
  CASE L.dtype = "f32" -> 4 * L.dims
    [] L.dtype = "f16" -> 2 * L.dims
    [] L.dtype = "i8"  -> L.dims + 4

\* No odd number but 1 divides it.
IsPowerOfTwo(n) == n > 0 /\ \A d \in 2 .. n : n % d = 0 => d % 2 = 0

\* BlockLayout::new accepts these.
ValidLayout(L) ==
  /\ L.dims # 0
  /\ IsPowerOfTwo(L.blockSize)
  /\ L.blockSize >= VectorBytes(L)

VectorsPerBlock(L) == L.blockSize \div VectorBytes(L)

BlocksFor(L, count) == (count + VectorsPerBlock(L) - 1) \div VectorsPerBlock(L)

FileSizeFor(L, count) == HeaderSize + BlocksFor(L, count) * L.blockSize

BlockOf(L, i) == i \div VectorsPerBlock(L)

SlotOf(L, i) == i % VectorsPerBlock(L)

BlockOffset(L, block) == HeaderSize + block * L.blockSize

\* A slip: vectors are packed without regard for the ends of blocks.
VectorOffsetDense(L, i) == HeaderSize + i * VectorBytes(L)

VectorOffset(L, i) == BlockOffset(L, BlockOf(L, i)) + SlotOf(L, i) * VectorBytes(L)

\* The bytes from the start of one vector to the end of a later one.
RunSpan(L, first, last) ==
  [start |-> VectorOffset(L, first),
   len   |-> VectorOffset(L, last) + VectorBytes(L) - VectorOffset(L, first)]
=============================================================================
