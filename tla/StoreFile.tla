------------------------------ MODULE StoreFile ------------------------------
(***************************************************************************)
(* Writing a vector file with StoreWriter (slate-storage/src/layout.rs) and *)
(* opening what is on disk with VectorStore::with_backend (reader.rs).      *)
(*                                                                         *)
(* A byte is an element of a sequence: <<i, b>> is byte b of vector i, Pad  *)
(* is padding.  The bytes pushed go through a BufWriter, so at any time     *)
(* only a prefix of them is in the file; the writer may die then.  The      *)
(* header is one small write over the start of the file.                   *)
(***************************************************************************)
EXTENDS BlockLayout, Sequences

CONSTANTS Layouts,       \* layouts a writer may be created with
          MaxVectors,    \* bound: vectors pushed
          FieldRange,    \* a header field holds numbers below this (2^32)
          Pad,           \* a byte of padding
          Zeroes         \* the placeholder for the header

ASSUME StoreFileAssumption ==
  /\ \A L \in Layouts : /\ L.dtype \in {"f32", "f16", "i8"}
                        /\ L.dims \in Nat /\ L.blockSize \in Nat
  /\ MaxVectors \in Nat
  /\ FieldRange \in Nat /\ IsPowerOfTwo(FieldRange)

VARIABLES layout,        \* the writer's layout
          stage,         \* of the writer
          count,         \* vectors pushed
          cursor,        \* block_cursor: bytes used in the current block
          body,          \* bytes given to the BufWriter after the placeholder
          onDisk         \* length of the file; header is Zeroes, or what finish wrote

vars == <<layout, stage, count, cursor, body, onDisk, header>>

Init == /\ layout \in {L \in Layouts : ValidLayout(L)}
        /\ stage = "writing"
        /\ count = 0 /\ cursor = 0 /\ body = <<>>
        /\ onDisk = 0 /\ header = Zeroes

Padding(n) == [b \in 1 .. n |-> Pad]

BytesOf(L, i) == [b \in 1 .. VectorBytes(L) |-> <<i, b>>]

\* push: pad the block out if the vector does not fit in what is left of it.
Push ==
  /\ stage = "writing"
  /\ count < MaxVectors
  /\ LET remaining == layout.blockSize - cursor
         full == remaining < VectorBytes(layout)
     IN /\ body' = body \o (IF full THEN Padding(remaining) ELSE <<>>)
                        \o BytesOf(layout, count)
        /\ cursor' = (IF full THEN 0 ELSE cursor) + VectorBytes(layout)
  /\ count' = count + 1
  /\ UNCHANGED <<layout, stage, onDisk, header>>

\* The BufWriter writes some of what it holds.
Drain ==
  /\ stage \in {"writing", "padded"}
  /\ onDisk' \in onDisk + 1 .. HeaderSize + Len(body)
  /\ UNCHANGED <<layout, stage, count, cursor, body, header>>

\* A slip: the last block is left short.
FinishBlocksUnpadded ==
  /\ stage = "writing"
  /\ stage' = "padded"
  /\ UNCHANGED <<layout, count, cursor, body, onDisk, header>>

\* finish_blocks: pad the last block ...
FinishBlocks ==
  /\ stage = "writing"
  /\ body' = body \o (IF cursor > 0 THEN Padding(layout.blockSize - cursor) ELSE <<>>)
  /\ cursor' = 0
  /\ stage' = "padded"
  /\ UNCHANGED <<layout, count, onDisk, header>>

\* FileHeader::to_bytes: fields of fixed width.
HeaderOf(L, vectors) ==
  [dtype |-> L.dtype, dims |-> L.dims % FieldRange, blockSize |-> L.blockSize % FieldRange,
   perBlock |-> VectorsPerBlock(L) % FieldRange, count |-> vectors]

\* ... and flush; finish then seeks back and writes the header in place.
WriteHeader ==
  /\ stage = "padded"
  /\ onDisk = HeaderSize + Len(body)
  /\ header' = HeaderOf(layout, count)
  /\ stage' = "finished"
  /\ UNCHANGED <<layout, count, cursor, body, onDisk>>

\* A write fails or the process dies; dropping the BufWriter may still drain it.
Abandon ==
  /\ stage \in {"writing", "padded"}
  /\ stage' = "abandoned"
  /\ onDisk' \in onDisk .. HeaderSize + Len(body)
  /\ UNCHANGED <<layout, count, cursor, body, header>>

Next == Push \/ Drain \/ FinishBlocks \/ WriteHeader \/ Abandon

Spec == Init /\ [][Next]_vars

\* A writer that neither fails nor dies, whose caller finishes it.
FairSpec == Spec /\ WF_vars(Drain) /\ WF_vars(FinishBlocks) /\ WF_vars(WriteHeader)

-----------------------------------------------------------------------------
(* The reader.                                                             *)

\* FileHeader::from_bytes accepts the start of the file.
HeaderIsValid ==
  /\ onDisk >= HeaderSize /\ header # Zeroes
  /\ header.dims # 0 /\ header.blockSize >= VectorBytes(header)
  /\ header.perBlock = VectorsPerBlock(header) % FieldRange

\* with_backend accepts the file.
Opens ==
  /\ HeaderIsValid
  /\ ValidLayout(header)
  /\ onDisk >= FileSizeFor(header, header.count)

\* get_into: the bytes the layout names for vector i, if the file has them.
Read(L, i) ==
  LET end == VectorOffset(L, i) + VectorBytes(L) - HeaderSize
  IN IF end > Len(body) THEN <<>> ELSE SubSeq(body, end - VectorBytes(L) + 1, end)

-----------------------------------------------------------------------------
(* Properties.                                                             *)

\* Whenever the writer dies, and whatever part of its bytes reached the file, the
\* file is refused or it holds every vector pushed.  That includes headers whose
\* fields were cut to their width.
OpenedIsWhole ==
  Opens => /\ header.count = count
           /\ \A i \in 0 .. count - 1 : Read(header, i) = BytesOf(layout, i)

\* A geometry that fits the header.  Nothing bounds block_size: a block of 2^32 bytes
\* is written as one of 0, and that file never opens.
Fits == {layout.dims, layout.blockSize, VectorsPerBlock(layout)} \subseteq 0 .. FieldRange - 1

\* A writer that does not fail, and whose caller finishes it, leaves a file that opens
\* and has the size its header implies.
EventuallyOpens ==
  Fits => <>(stage = "abandoned" \/ (Opens /\ onDisk = FileSizeFor(header, header.count)))
=============================================================================
