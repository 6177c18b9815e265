----------------------------- MODULE LayerGraph ------------------------------
(***************************************************************************)
(* One layer of the graph as a function from a node to the set of its       *)
(* out-neighbors, and what it means for a set of nodes to be the answer of  *)
(* a search in it.                                                         *)
(***************************************************************************)
EXTENDS FiniteSets, Integers

CONSTANT Node           \* node ids of the layer

Closed(g, C) == \A x \in C : g[x] \subseteq C

\* The nodes some path leads to from S.
Reach(g, S) == {n \in Node : \A C \in SUBSET Node :
                               S \subseteq C /\ Closed(g, C) => n \in C}

\* R is a possible answer of width w for a search that starts from S: as many
\* reachable nodes as fit, and neither a starting point nor any neighbor of the
\* answer that was left out is closer than a node of the answer.
LocalOptimum(g, d, w, S, R) ==
  /\ R \subseteq Reach(g, S)
  /\ IsFiniteSet(R) /\ Cardinality(R) =< w
  /\ Cardinality(R) < w => R = Reach(g, S)
  /\ \A r \in R : \A s \in S \ R : d[r] =< d[s]
  /\ \A r \in R : \A q \in R : \A n \in g[q] \ R : d[r] =< d[n]
=============================================================================
