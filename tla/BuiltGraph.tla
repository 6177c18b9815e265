----------------------------- MODULE BuiltGraph -----------------------------
(***************************************************************************)
(* What build_resident (slate-graph/src/hnsw.rs) promises of the graph it   *)
(* leaves.  HnswBuild is shown to keep this promise; ShardedBuild, which    *)
(* merges such graphs, and Layout, which reorders them, rest on it alone.   *)
(* A graph is a record: the level of each node, the highest layer, and the  *)
(* neighbors of each node on each layer.  S is the set of its nodes and     *)
(* first the one inserted first.                                           *)
(***************************************************************************)
EXTENDS Integers, FiniteSets

\* There are as many layers as the highest level drawn makes, all over the same nodes.
Layered(S, g) ==
  /\ g.top \in Nat
  /\ g.level \in [S -> 0 .. g.top] /\ \E x \in S : g.level[x] = g.top
  /\ g.adj \in [0 .. g.top -> [S -> SUBSET S]]

\* No list is longer than the cap of its layer.
Capped(S, g, M, MMax) ==
  \A l \in 0 .. g.top : \A x \in S :
    Cardinality(g.adj[l][x]) =< IF l = 0 THEN MMax ELSE M

\* The nodes a layer may link: the first stands in on layers above its level.
Linkable(S, first, g, l) == {x \in S : g.level[x] >= l} \cup {first}

\* Links join two different nodes of a layer.
LinksInLayer(S, first, g) ==
  \A l \in 0 .. g.top : \A x \in S : \A y \in g.adj[l][x] :
    x # y /\ {x, y} \subseteq Linkable(S, first, g, l)

\* A node inserted after another has a way out on each of its layers.
WaysOut(S, first, g) ==
  \A x \in S \ {first} : \A l \in 0 .. g.level[x] : g.adj[l][x] # {}

\* A layer with links has one at the first node.
LeavesFirst(S, first, g) ==
  \A l \in 0 .. g.top : (\E x \in S : g.adj[l][x] # {}) => g.adj[l][first] # {}

Built(S, first, g, M, MMax) ==
  /\ Layered(S, g)
  /\ Capped(S, g, M, MMax)
  /\ LinksInLayer(S, first, g)
  /\ WaysOut(S, first, g)
  /\ LeavesFirst(S, first, g)
=============================================================================
