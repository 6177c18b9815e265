---------------------------- MODULE ShardedBuild ----------------------------
(***************************************************************************)
(* HnswIndex::build_sharded (slate-graph/src/hnsw.rs): k-means splits the   *)
(* corpus into shards that may overlap, each shard gets a graph of its own, *)
(* and the graphs are merged into one, capped, and given an entry point.    *)
(*                                                                         *)
(* The graph of a shard is any of Graphs that build_resident may leave for  *)
(* its members (Built, which HnswBuild keeps).  Nodes are positions in the  *)
(* store, from 1; a shard's local ids are left out: they are in the order   *)
(* of its members.                                                         *)
(***************************************************************************)
EXTENDS KMeans, BuiltGraph

CONSTANTS Corpora,       \* stores, as sequences of vectors
          Shardings,     \* [shards, soft] given by the caller
          M, MMax,       \* degree caps: above layer 0, and on it
          Graphs(_),     \* graphs that builds over a set of nodes may leave
          None           \* no node

ASSUME ShardedAssumption ==
  /\ \A s \in Shardings : s.shards \in Nat /\ s.soft \in Nat
  /\ M \in Nat \ {0} /\ MMax \in Nat \ {0}
  /\ \A c \in Corpora : c \in Seq(Seq(Int)) /\ SameSpace(Range(c))
  /\ None \notin Nat

VARIABLES corpus,        \* the store
          sharding,
          members,       \* the nodes of each shard
          todo,          \* shards whose graph is not built yet
          adjacency,     \* the merged graph: for each layer a set of neighbors per node
          levels,        \* node_levels
          entry,         \* entry_point
          codes,         \* PQ codes, empty without a PQ tier
          phase

graph == <<adjacency, levels, entry, codes>>
shardVars == <<corpus, sharding, members, todo>>

Node == Indices(corpus)

NoLinks == [n \in Node |-> {}]

ShardInit == /\ corpus \in Corpora /\ sharding \in Shardings
             /\ members = << >> /\ todo = {}
             /\ adjacency = << >> /\ levels = << >> /\ entry = None /\ codes = << >>
             /\ phase = "build"
             /\ KMeansIdle

-----------------------------------------------------------------------------
\* build_resident over no vectors.
BuildNothing == /\ phase = "build" /\ corpus = << >>
                /\ adjacency' = <<NoLinks>>
                /\ phase' = "built"
                /\ UNCHANGED <<kmeansVars, shardVars, levels, entry, codes>>

First(S) == CHOOSE n \in S : \A m \in S : n =< m

\* What build_resident may make of the vectors of S, whose first is inserted first.
BuildResident(S) == {g \in Graphs(S) : Built(S, First(S), g, M, MMax)}

\* Its layers as lists of all nodes.
LayersOf(g) == [h \in 1 .. g.top + 1 |->
                  [n \in Node |-> IF n \in DOMAIN g.level THEN g.adj[h - 1][n] ELSE {}]]

\* build: too few vectors or shards for sharding.  With a PQ tier there are codes; a
\* vector stands for its code.
BuildWhole == /\ phase = "build" /\ corpus # << >>
              /\ sharding.shards =< 1 \/ sharding.shards >= Len(corpus)
              /\ \E g \in BuildResident(Node) :
                   levels' = g.level /\ adjacency' = LayersOf(g)
              /\ entry' = First(Node)
              /\ codes' \in {<< >>, corpus}
              /\ phase' = "built"
              /\ UNCHANGED <<kmeansVars, shardVars>>

TrainShards == /\ phase = "build"
               /\ sharding.shards > 1 /\ sharding.shards < Len(corpus)
               /\ Train(corpus, sharding.shards)
               /\ phase' = "train"
               /\ UNCHANGED <<shardVars, graph>>

RunKMeans == /\ phase = "train"
             /\ KMeansStep
             /\ UNCHANGED <<shardVars, graph, phase>>

\* nearest_centroids: the count nearest, ties by id.
NearestShards(v, count) ==
  {c \in Indices(centroids) :
     Cardinality({b \in Indices(centroids) :
       \/ SquaredL2(v, centroids[b]) < SquaredL2(v, centroids[c])
       \/ SquaredL2(v, centroids[b]) = SquaredL2(v, centroids[c]) /\ b < c}) < count}

\* soft_assign.clamp(1, shard_count)
Soft == IF sharding.soft < 1 THEN 1
        ELSE IF sharding.soft > Len(centroids) THEN Len(centroids) ELSE sharding.soft

Assign == /\ phase = "train" /\ kpc = "trained"
          /\ members' = [s \in Indices(centroids) |->
                           {n \in Node : s \in NearestShards(corpus[n], Soft)}]
          /\ todo' = Indices(centroids)
          /\ adjacency' = <<NoLinks>>
          /\ levels' = [n \in Node |-> 0]
          /\ phase' = "merge"
          /\ UNCHANGED <<kmeansVars, corpus, sharding, entry, codes>>

NextShard == CHOOSE s \in todo : \A t \in todo : s =< t

SkipShard == /\ phase = "merge" /\ todo # {} /\ members[NextShard] = {}
             /\ todo' = todo \ {NextShard}
             /\ UNCHANGED <<kmeansVars, corpus, sharding, members, graph, phase>>

\* A slip: a later shard's level replaces an earlier one's.
RaisedToLast(l) == [n \in Node |-> IF n \in DOMAIN l THEN l[n] ELSE levels[n]]

\* The highest level any shard assigned.
Raised(l) == [n \in Node |-> IF n \in DOMAIN l /\ l[n] > levels[n] THEN l[n] ELSE levels[n]]

\* The union of the graph so far and the layers of a shard, with as many as either has.
Merged(layers) ==
  LET height == IF Len(layers) > Len(adjacency) THEN Len(layers) ELSE Len(adjacency)
      At(g, h) == IF h =< Len(g) THEN g[h] ELSE NoLinks
  IN [h \in 1 .. height |-> [n \in Node |-> At(adjacency, h)[n] \cup At(layers, h)[n]]]

MergeShard == /\ phase = "merge" /\ todo # {} /\ members[NextShard] # {}
              /\ \E g \in BuildResident(members[NextShard]) :
                   /\ adjacency' = Merged(LayersOf(g))
                   /\ levels' = Raised(g.level)
              /\ todo' = todo \ {NextShard}
              /\ UNCHANGED <<kmeansVars, corpus, sharding, members, entry, codes, phase>>

Cap(h) == IF h = 1 THEN MMax ELSE M

\* select_neighbors: the closest, ties by id.
Closest(n, S, cap) ==
  {a \in S : Cardinality({b \in S :
     \/ SquaredL2(corpus[n], corpus[b]) < SquaredL2(corpus[n], corpus[a])
     \/ SquaredL2(corpus[n], corpus[b]) = SquaredL2(corpus[n], corpus[a]) /\ b < a}) < cap}

\* The entry point is the smallest of the nodes with the highest level.
HighestNode == CHOOSE n \in Node : \A m \in Node :
                 levels[m] < levels[n] \/ (levels[m] = levels[n] /\ n =< m)

CapAndEnter == /\ phase = "merge" /\ todo = {}
               /\ adjacency' = [h \in Indices(adjacency) |->
                                  [n \in Node |-> Closest(n, adjacency[h][n], Cap(h))]]
               /\ entry' = HighestNode
               /\ phase' = "built"
               /\ UNCHANGED <<kmeansVars, shardVars, levels, codes>>

ShardNext == \/ BuildNothing \/ BuildWhole \/ TrainShards \/ RunKMeans \/ Assign
             \/ SkipShard \/ MergeShard \/ CapAndEnter

-----------------------------------------------------------------------------
(* Properties.                                                             *)

Sharded == members # << >>

\* Nodes that may be linked above their level.
StandIns == {First(members[t]) : t \in {u \in DOMAIN members : members[u] # {}}}

LinksStayInLayer ==
  \A h \in Indices(adjacency) : \A n \in Node :
    adjacency[h][n] # {} => \A w \in {n} \cup adjacency[h][n] : levels[w] >= h - 1 \/ w \in StandIns

\* A graph merged from shards can be entered: the entry point is on the highest layer
\* there is, as in a single build it need not be; links stay among the nodes of their
\* layer and the first nodes of shards, although shards gave a node different levels;
\* and no list exceeds its cap.
MergedCanBeEntered ==
  phase = "built" /\ Sharded =>
    /\ levels[entry] = Len(adjacency) - 1
    /\ LinksStayInLayer
    /\ \A h \in Indices(adjacency) : \A n \in Node : Cardinality(adjacency[h][n]) =< Cap(h)

Closed(C) == \A n \in C : adjacency[1][n] \subseteq C

\* From n, layer 0 can be walked to every node of S.
Leads(n, S) == \A C \in SUBSET Node : n \in C /\ Closed(C) => S \subseteq C

\* What the doc of build_sharded says, "searchable exactly like a monolithic build":
\* from the entry point layer 0 can be walked to every node, given that in each shard
\* it can be from its first node.
MergedIsOneGraph ==
  phase = "built" /\ Sharded /\ (\A S \in Range(members) \ {{}} : Leads(First(S), S)) =>
    Leads(entry, Node)
=============================================================================
