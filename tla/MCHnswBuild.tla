----------------------------- MODULE MCHnswBuild -----------------------------
(***************************************************************************)
(* An instance of HnswBuild: five points on a line, some of them the same,  *)
(* on three layers, with caps small enough that lists are pruned at every   *)
(* turn, and room between the two caps for the last pass.                   *)
(***************************************************************************)
EXTENDS HnswBuild

Gap(a, b) == IF a < b THEN b - a ELSE a - b

Line == {[x \in Node |-> [y \in Node |-> Gap(p[x], p[y])]] : p \in {q \in [Node -> {0, 1, 3}] : q[0] = 0}}
=============================================================================
