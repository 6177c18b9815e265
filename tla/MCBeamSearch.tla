---------------------------- MODULE MCBeamSearch ----------------------------
(***************************************************************************)
(* Every directed graph on four nodes with out-degree at most two, except   *)
(* that a single search starts at node 1 (or at 1 and 2), against distances *)
(* that make the search climb, descend, jump and tie.                       *)
(***************************************************************************)
EXTENDS BeamSearch

MCNode == 1 .. 4
MCGraphs == {g \in [MCNode -> SUBSET MCNode] :
               \A n \in MCNode : n \notin g[n] /\ Cardinality(g[n]) =< 2}
MCDistances == {<<4, 3, 2, 1>>, <<1, 3, 2, 4>>, <<2, 2, 1, 2>>}
MCEntrySets == {{1}, {1, 2}}
=============================================================================
