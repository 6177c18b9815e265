------------------------------ MODULE MCKernels ------------------------------
(***************************************************************************)
(* An instance of Kernels: every CPU, and every length up to two chunks of  *)
(* the widest kernel and a tail.                                            *)
(***************************************************************************)
EXTENDS Kernels
=============================================================================
