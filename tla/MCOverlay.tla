------------------------------ MODULE MCOverlay ------------------------------
(***************************************************************************)
(* An instance of Overlay: up to three stored vectors, three edits, and     *)
(* deletes of an id of no vector.                                          *)
(***************************************************************************)
EXTENDS Overlay
=============================================================================
