------------------------------ MODULE MCBundle ------------------------------
(***************************************************************************)
(* Two processes build, open and die at will, and one of them edits: stores *)
(* of one or two vectors, deletes of stored and of buffered ids, and        *)
(* inserts that extend a log over reopens.                                 *)
(***************************************************************************)
EXTENDS Bundle

CONSTANTS p1, p2
=============================================================================
