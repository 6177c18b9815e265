------------------------------- MODULE MCTopK -------------------------------
(***************************************************************************)
(* Two ids and two scores give ties of both kinds; five offers fill a       *)
(* collector of two, then replace, reject, and offer an equal neighbor      *)
(* twice.  k = 0 is the collector that keeps nothing.                       *)
(***************************************************************************)
EXTENDS TopK
=============================================================================
