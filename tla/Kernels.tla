------------------------------- MODULE Kernels -------------------------------
(***************************************************************************)
(* A distance of a query to a stored vector (slate-simd): the length check  *)
(* of lib.rs, the choice of a kernel in dispatch.rs, and the kernel's loop  *)
(* over the elements in scalar.rs, avx2.rs, avx512.rs or neon.rs.           *)
(*                                                                         *)
(* The three functions of a kernel (l2_sq, dot, cosine_parts) differ in the *)
(* term they add for an element, not in the loop, so a sum is represented   *)
(* by the number of times it counts each element.  The value of a term is   *)
(* left out, and so is the rounding of the additions.                       *)
(***************************************************************************)
EXTENDS Integers

CONSTANT MaxLen          \* bound: elements of a query

ASSUME KernelAssumption == MaxLen \in Nat

Form == {"f32", "f16", "i8"}     \* how the stored vector is represented

\* Bytes of a stored element.
Width(form) == CASE form = "f32" -> 4 [] form = "f16" -> 2 [] form = "i8" -> 1

\* The features a CPU of each architecture may have.
Cpu == [arch : {"x86_64"}, features : SUBSET {"avx512f", "avx2", "fma", "f16c"}]
         \cup [arch : {"aarch64"}, features : SUBSET {"neon", "fp16"}]
         \cup [arch : {"other"}, features : {{}}]

-----------------------------------------------------------------------------
(* The choice of a kernel (dispatch.rs).                                   *)

DetectTier(cpu) ==
  IF cpu.arch = "x86_64" /\ "avx512f" \in cpu.features THEN "Avx512"
  ELSE IF cpu.arch = "x86_64" /\ {"avx2", "fma"} \subseteq cpu.features THEN "Avx2"
  ELSE IF cpu.arch = "aarch64" /\ "neon" \in cpu.features THEN "Neon"
  ELSE "Scalar"

\* A slip: AVX2 is taken to bring the conversion of halves along.
F16SimdOkWithTier(cpu) == DetectTier(cpu) # "Scalar"

F16SimdOk(cpu) ==
  CASE DetectTier(cpu) = "Avx512" -> TRUE
    [] DetectTier(cpu) = "Avx2"   -> "f16c" \in cpu.features
    [] DetectTier(cpu) = "Neon"   -> "fp16" \in cpu.features
    [] OTHER -> FALSE

F32Kernel(cpu) == DetectTier(cpu)

F16Kernel(cpu) == IF F16SimdOk(cpu) THEN DetectTier(cpu) ELSE "Scalar"

I8Kernel(cpu) == DetectTier(cpu)

Dispatch(cpu, form) == CASE form = "f32" -> F32Kernel(cpu)
                         [] form = "f16" -> F16Kernel(cpu)
                         [] form = "i8"  -> I8Kernel(cpu)

-----------------------------------------------------------------------------
(* The loops.  While i + ahead <= n an iteration adds `lanes` elements from  *)
(* i on, of which it loads `load` from the stored vector, and moves i by     *)
(* `step`; then a tail takes the rest, element by element or under a mask.   *)

Avx2F32 == [lanes |-> 8, ahead |-> 8, load |-> 8, step |-> 8, masked |-> FALSE]
Avx2F16 == [lanes |-> 8, ahead |-> 8, load |-> 8, step |-> 8, masked |-> FALSE]
Avx2I8  == [lanes |-> 8, ahead |-> 8, load |-> 8, step |-> 8, masked |-> FALSE]

Avx512F32 == [lanes |-> 16, ahead |-> 16, load |-> 16, step |-> 16, masked |-> TRUE]
Avx512F16 == [lanes |-> 16, ahead |-> 16, load |-> 16, step |-> 16, masked |-> FALSE]
Avx512I8  == [lanes |-> 16, ahead |-> 16, load |-> 16, step |-> 16, masked |-> FALSE]

NeonF32 == [lanes |-> 4, ahead |-> 4, load |-> 4, step |-> 4, masked |-> FALSE]
NeonF16 == [lanes |-> 4, ahead |-> 4, load |-> 4, step |-> 4, masked |-> FALSE]

\* A slip: the bound of the other loops, where eight codes are loaded for four.
NeonI8Bound == [lanes |-> 4, ahead |-> 4, load |-> 8, step |-> 4, masked |-> FALSE]

\* vld1_s8 loads eight codes, of which four are used.
NeonI8 == [lanes |-> 4, ahead |-> 8, load |-> 8, step |-> 4, masked |-> FALSE]

Loop(kernel, form) ==
  CASE kernel = "Avx2"   /\ form = "f32" -> Avx2F32
    [] kernel = "Avx2"   /\ form = "f16" -> Avx2F16
    [] kernel = "Avx2"   /\ form = "i8"  -> Avx2I8
    [] kernel = "Avx512" /\ form = "f32" -> Avx512F32
    [] kernel = "Avx512" /\ form = "f16" -> Avx512F16
    [] kernel = "Avx512" /\ form = "i8"  -> Avx512I8
    [] kernel = "Neon"   /\ form = "f32" -> NeonF32
    [] kernel = "Neon"   /\ form = "f16" -> NeonF16
    [] kernel = "Neon"   /\ form = "i8"  -> NeonI8

\* What the target_feature attributes of a kernel's functions demand.
Requires(kernel, form) ==
  CASE kernel = "Scalar" -> {}
    [] kernel = "Avx2"   -> {"avx2", "fma"} \cup (IF form = "f16" THEN {"f16c"} ELSE {})
    [] kernel = "Avx512" -> {"avx512f"}
    [] kernel = "Neon"   -> {"neon"} \cup (IF form = "f16" THEN {"fp16"} ELSE {})

\* hsum256 adds the lanes of a register in a tree of shuffles; a partial sum says how
\* often it counts each lane.
AddSums(x, y) == [lane \in 0 .. 7 |-> x[lane] + y[lane]]

\* A slip: the last shuffle takes the low half again.
HSum256Low ==
  LET sum128 == [s \in 0 .. 3 |-> [lane \in 0 .. 7 |-> IF lane \in {s, s + 4} THEN 1 ELSE 0]]
      sums == [s \in 0 .. 3 |-> AddSums(sum128[s], sum128[IF s < 2 THEN 1 ELSE 3])]
  IN AddSums(sums[0], sums[1])

HSum256 ==
  LET sum128 == [s \in 0 .. 3 |-> [lane \in 0 .. 7 |-> IF lane \in {s, s + 4} THEN 1 ELSE 0]]
      sums == [s \in 0 .. 3 |-> AddSums(sum128[s], sum128[IF s < 2 THEN 1 ELSE 3])]
  IN AddSums(sums[0], sums[2])

\* The other tiers have one instruction for it.
LaneCount(kernel, lane) == IF kernel = "Avx2" THEN HSum256[lane] ELSE 1

-----------------------------------------------------------------------------
VARIABLES cpu, form,
          len,           \* elements of the query
          stored,        \* bytes of the stored vector
          kernel,        \* the one chosen
          at,            \* the loop's index
          sum,           \* how often each element is in the result
          reach,         \* bytes of the stored vector touched, from its start
          pc

kernelVars == <<cpu, form, len, stored, kernel, at, sum, reach, pc>>

KernelInit == /\ cpu \in Cpu /\ form \in Form
              /\ len \in 0 .. MaxLen /\ stored \in 0 .. Width(form) * MaxLen
              /\ kernel = "none"
              /\ at = 0 /\ sum = [e \in 0 .. len - 1 |-> 0] /\ reach = 0
              /\ pc = "check"

\* check, and the length tests of distance_f16 and distance_i8.
Refuse == /\ pc = "check" /\ stored # Width(form) * len
          /\ pc' = "mismatch"
          /\ UNCHANGED <<cpu, form, len, stored, kernel, at, sum, reach>>

Enter == /\ pc = "check" /\ stored = Width(form) * len
         /\ kernel' = Dispatch(cpu, form)
         /\ pc' = IF kernel' = "Scalar" THEN "tail" ELSE "chunks"
         /\ UNCHANGED <<cpu, form, len, stored, at, sum, reach>>

\* Elements first, first + 1, ... are added to the lanes, and loaded.
AddLanes(first, lanes, load) ==
  /\ sum' = [e \in 0 .. len - 1 |-> sum[e] + IF e \in first .. first + lanes - 1
                                               THEN LaneCount(kernel, e - first) ELSE 0]
  /\ reach' = Width(form) * (first + load)

Chunk == /\ pc = "chunks" /\ at + Loop(kernel, form).ahead <= len
         /\ AddLanes(at, Loop(kernel, form).lanes, Loop(kernel, form).load)
         /\ at' = at + Loop(kernel, form).step
         /\ UNCHANGED <<cpu, form, len, stored, kernel, pc>>

LeaveChunks == /\ pc = "chunks" /\ at + Loop(kernel, form).ahead > len
               /\ ~Loop(kernel, form).masked
               /\ pc' = "tail"
               /\ UNCHANGED <<cpu, form, len, stored, kernel, at, sum, reach>>

\* A slip: the mask leaves the last element out.
MaskedTailShort ==
  /\ pc = "chunks" /\ at + Loop(kernel, form).ahead > len
  /\ Loop(kernel, form).masked
  /\ IF len - at > 0 THEN AddLanes(at, len - at - 1, len - at - 1) ELSE UNCHANGED <<sum, reach>>
  /\ at' = len
  /\ pc' = "done"
  /\ UNCHANGED <<cpu, form, len, stored, kernel>>

\* The mask (1 << rem) - 1 activates the rem lanes that are left.
MaskedTail ==
  /\ pc = "chunks" /\ at + Loop(kernel, form).ahead > len
  /\ Loop(kernel, form).masked
  /\ IF len - at > 0 THEN AddLanes(at, len - at, len - at) ELSE UNCHANGED <<sum, reach>>
  /\ at' = len
  /\ pc' = "done"
  /\ UNCHANGED <<cpu, form, len, stored, kernel>>

\* One element; the loop of the scalar kernels, and what the vector kernels end with.
ScalarTail == /\ pc = "tail" /\ at < len
              /\ sum' = [sum EXCEPT ![at] = @ + 1]
              /\ reach' = Width(form) * (at + 1)
              /\ at' = at + 1
              /\ UNCHANGED <<cpu, form, len, stored, kernel, pc>>

Return == /\ pc = "tail" /\ at >= len
          /\ pc' = "done"
          /\ UNCHANGED <<cpu, form, len, stored, kernel, at, sum, reach>>

KernelNext == Refuse \/ Enter \/ Chunk \/ LeaveChunks \/ MaskedTail \/ ScalarTail \/ Return

KernelSpec == KernelInit /\ [][KernelNext]_kernelVars

-----------------------------------------------------------------------------
(* Properties.                                                             *)

\* Whatever kernel the CPU gets, for every length and representation, the result has
\* the term of each element exactly once, as the scalar reference has: chunks, the
\* reduction of the lanes and the tail leave nothing out and count nothing twice.
SumsEachOnce == pc = "done" => sum = [e \in 0 .. len - 1 |-> 1]

\* No load goes beyond the stored vector, also where a load is wider than what is used
\* of it; in a fetched batch, what follows is another vector or the end of the buffer.
LoadsInBounds == pc # "check" => reach <= stored

\* No kernel runs an instruction the CPU does not have.
OnlyWhatTheCpuHas == kernel # "none" => Requires(kernel, form) \subseteq cpu.features
=============================================================================
