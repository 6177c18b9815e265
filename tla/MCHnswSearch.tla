---------------------------- MODULE MCHnswSearch ----------------------------
(***************************************************************************)
(* Four nodes; up to two upper layers, whose lists are empty, or send the   *)
(* descent towards the query, away from it and through a tie; every layer-0 *)
(* graph over four nodes in which each has one outgoing link, a chain, no    *)
(* link at all, and two denser graphs.  The hybrid search promotes all, or   *)
(* half of its frontier, or one candidate at a time.                        *)
(***************************************************************************)
EXTENDS HybridSearch

MCNode == 1 .. 4
MCGraphs == {g \in [MCNode -> SUBSET MCNode] :
               \A n \in MCNode : n \notin g[n] /\ Cardinality(g[n]) = 1}
            \cup {<<{2}, {3}, {4}, {}>>, [n \in MCNode |-> {}],
                  [n \in MCNode |-> MCNode \ {n}],
                  <<{2, 3}, {1, 4}, {4}, {2, 3}>>}
MCUpperGraphs == {<< >>,
                  << [n \in MCNode |-> {}] >>,
                  << <<{3, 4}, {}, {1}, {2}>> >>,
                  << <<{2, 3}, {1, 4}, {4}, {}>>, <<{2}, {1}, {}, {}>> >>}
MCDistances == {<<4, 3, 2, 1>>, <<1, 3, 2, 4>>, <<2, 2, 1, 2>>}

\* Approximations that agree with the first distances, reverse them, and tell nothing.
MCApproximations == {<<4, 3, 2, 1>>, <<1, 2, 3, 4>>, <<1, 1, 1, 1>>}
MCRerankRatios == {[num |-> 1, den |-> 1], [num |-> 1, den |-> 2]}
=============================================================================
