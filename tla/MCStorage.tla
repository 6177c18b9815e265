------------------------------ MODULE MCStorage ------------------------------
(***************************************************************************)
(* An instance of Storage: vectors that fill a block exactly, that leave a  *)
(* tail, and that take a block each; blocks and dimensions that do not fit  *)
(* a header field of five bits (32 in the code); batches of up to three     *)
(* indices, repeated ones and gaps of whole blocks included.                *)
(***************************************************************************)
EXTENDS Storage

Geometries ==
  {[dtype |-> "i8",  dims |-> 1, blockSize |-> 8],
   [dtype |-> "f32", dims |-> 2, blockSize |-> 8],
   [dtype |-> "f16", dims |-> 1, blockSize |-> 2],
   [dtype |-> "f16", dims |-> 1, blockSize |-> 4],
   [dtype |-> "f16", dims |-> 3, blockSize |-> 8],
   [dtype |-> "i8",  dims |-> 1, blockSize |-> 16],
   [dtype |-> "i8",  dims |-> 3, blockSize |-> 16]}

TooWide ==
  {[dtype |-> "f16", dims |-> 1,  blockSize |-> 32],
   [dtype |-> "i8",  dims |-> 33, blockSize |-> 64],
   [dtype |-> "f32", dims |-> 8,  blockSize |-> 64]}

AllLayouts == Geometries \cup TooWide
=============================================================================
