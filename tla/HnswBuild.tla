------------------------------ MODULE HnswBuild ------------------------------
(***************************************************************************)
(* Building the graph: build_resident inserts the nodes one by one          *)
(* (insert_node in slate-graph/src/hnsw.rs) and ends with one pass of       *)
(* prune_high_degree.  A step is one layer of an insertion.  What the       *)
(* searches inside an insertion find is taken from their promise (module    *)
(* LayerGraph, which BeamSearch is shown to keep): any local optimum.       *)
(***************************************************************************)
EXTENDS LayerGraph, BuiltGraph

CONSTANTS Metrics,       \* distances between nodes: symmetric functions
          TopLevel,      \* bound: highest level drawn
          M, MMax,       \* degree caps: above layer 0, and on it
          EfConstruction,
          NoNode

ASSUME HnswBuildAssumption ==
  /\ IsFiniteSet(Node) /\ Node = 0 .. Cardinality(Node) - 1 /\ Node # {}
  /\ NoNode \notin Node
  /\ TopLevel \in Nat /\ EfConstruction \in Nat \ {0}
  /\ M \in Nat \ {0} /\ MMax \in Nat /\ M <= MMax
  /\ Metrics \subseteq [Node -> [Node -> Int]]
  /\ \A d \in Metrics : \A x, y \in Node : d[x][y] = d[y][x]

Layer == 0 .. TopLevel

VARIABLES metric,        \* the distance in use
          adj,           \* adjacency[layer][node]
          level,         \* node_levels
          entry,         \* entry_point
          maxLayer,
          node,          \* the node being inserted, or to be inserted next
          phase,         \* "idle", "descending", "linking" or "built"
          layer,         \* the layer the insertion works on
          current,       \* where the descent stands
          starts,        \* entry_points of the next layer search
          hubs           \* nodes prune_high_degree left alone

graph == <<metric, adj, level, entry, maxLayer>>
place == <<layer, current, starts>>
vars == <<graph, node, phase, place, hubs>>

CapForLayer(l) == IF l = 0 THEN MMax ELSE M

\* select_neighbors: the first cap of S by distance, ties by id.
Closest(S, cap, d) ==
  {x \in S : Cardinality({y \in S : d[y] < d[x] \/ (d[y] = d[x] /\ y < x)}) < cap}

Init ==
  /\ metric \in Metrics
  /\ adj = [l \in Layer |-> [x \in Node |-> {}]]
  /\ level = [x \in Node |-> 0]
  /\ entry = NoNode /\ maxLayer = 0
  /\ node = 0 /\ phase = "idle"
  /\ layer = 0 /\ current = NoNode /\ starts = {} /\ hubs = {}

\* A slip: a node that adds a layer becomes the entry point at once.
DrawPromoting(l) ==
  /\ phase = "idle" /\ node \in Node
  /\ level' = [level EXCEPT ![node] = l]
  /\ maxLayer' = IF l > maxLayer THEN l ELSE maxLayer
  /\ entry' = IF entry = NoNode \/ l > maxLayer THEN node ELSE entry
  /\ IF entry = NoNode
       THEN /\ node' = node + 1
            /\ UNCHANGED <<phase, place>>
       ELSE /\ phase' = IF maxLayer' > l THEN "descending" ELSE "linking"
            /\ layer' = maxLayer'
            /\ current' = entry' /\ starts' = {entry'}
            /\ UNCHANGED node
  /\ UNCHANGED <<metric, adj, hubs>>

\* A slip: a node adds one layer at most.
DrawOneLayer(l) ==
  /\ phase = "idle" /\ node \in Node
  /\ level' = [level EXCEPT ![node] = l]
  /\ maxLayer' = IF l > maxLayer THEN maxLayer + 1 ELSE maxLayer
  /\ IF entry = NoNode
       THEN /\ entry' = node /\ node' = node + 1
            /\ UNCHANGED <<phase, place>>
       ELSE /\ phase' = IF maxLayer' > l THEN "descending" ELSE "linking"
            /\ layer' = maxLayer'
            /\ current' = entry /\ starts' = {entry}
            /\ UNCHANGED <<entry, node>>
  /\ UNCHANGED <<metric, adj, hubs>>

\* A node of a level above every other adds the layers up to it.  The first node
\* becomes the entry point, and no later one does.
Draw(l) ==
  /\ phase = "idle" /\ node \in Node
  /\ level' = [level EXCEPT ![node] = l]
  /\ maxLayer' = IF l > maxLayer THEN l ELSE maxLayer
  /\ IF entry = NoNode
       THEN /\ entry' = node /\ node' = node + 1
            /\ UNCHANGED <<phase, place>>
       ELSE /\ phase' = IF maxLayer' > l THEN "descending" ELSE "linking"
            /\ layer' = maxLayer'
            /\ current' = entry /\ starts' = {entry}
            /\ UNCHANGED <<entry, node>>
  /\ UNCHANGED <<metric, adj, hubs>>

\* greedy_descend ends in a node without a closer neighbor.
Descend ==
  /\ phase = "descending"
  /\ LET d == metric[node]
     IN \E c \in Reach(adj[layer], {current}) :
          /\ c = current \/ d[c] < d[current]
          /\ \A n \in adj[layer][c] : d[c] <= d[n]
          /\ current' = c /\ starts' = {c}
  /\ layer' = layer - 1
  /\ phase' = IF layer' > level[node] THEN "descending" ELSE "linking"
  /\ UNCHANGED <<graph, node, hubs>>

\* prune_node
Pruned(x, list, l) == Closest(list, CapForLayer(l), metric[x])

\* A slip: the neighbors' lists are left to grow.
LinkedWithoutPruning(selected, l) ==
  [x \in Node |-> CASE x = node -> adj[l][x] \cup (selected \ {node})
                    [] x \in selected \ {node} -> adj[l][x] \cup {node}
                    [] OTHER -> adj[l][x]]

\* connect both ways, then prune each neighbor that has too many.
Linked(selected, l) ==
  [x \in Node |-> CASE x = node -> adj[l][x] \cup (selected \ {node})
                    [] x \in selected \ {node} -> Pruned(x, adj[l][x] \cup {node}, l)
                    [] OTHER -> adj[l][x]]

\* A slip: the edges of every layer are added to the top one.
LinkOnTopLayer ==
  /\ phase = "linking"
  /\ \E candidates \in SUBSET Node :
       /\ LocalOptimum(adj[layer], metric[node], EfConstruction, starts, candidates)
       /\ adj' = [adj EXCEPT ![maxLayer] =
                    Linked(Closest(candidates, CapForLayer(layer), metric[node]), maxLayer)]
       /\ starts' = IF candidates = {} THEN {current} ELSE candidates
  /\ IF layer = 0
       THEN phase' = "idle" /\ node' = node + 1 /\ UNCHANGED layer
       ELSE layer' = layer - 1 /\ UNCHANGED <<phase, node>>
  /\ UNCHANGED <<metric, level, entry, maxLayer, current, hubs>>

\* One layer of phase 2: search, link the closest, and start the next layer from
\* what was found.
Link ==
  /\ phase = "linking"
  /\ \E candidates \in SUBSET Node :
       /\ LocalOptimum(adj[layer], metric[node], EfConstruction, starts, candidates)
       /\ adj' = [adj EXCEPT ![layer] =
                    Linked(Closest(candidates, CapForLayer(layer), metric[node]), layer)]
       /\ starts' = IF candidates = {} THEN {current} ELSE candidates
  /\ IF layer = 0
       THEN phase' = "idle" /\ node' = node + 1 /\ UNCHANGED layer
       ELSE layer' = layer - 1 /\ UNCHANGED <<phase, node>>
  /\ UNCHANGED <<metric, level, entry, maxLayer, current, hubs>>

\* The first count nodes by out-degree on layer 0, ties by id.
Densest(count) ==
  LET degree == [x \in Node |-> Cardinality(adj[0][x])]
  IN {x \in Node : Cardinality({y \in Node : \/ degree[y] > degree[x]
                                             \/ (degree[y] = degree[x] /\ y < x)}) < count}

\* A slip: the closest M are kept, on-ramps or not.
TrimmedByDistance(x, kept) == Closest(adj[0][x], M, metric[x])

\* A slip: on-ramps are not charged to the budget of M.
TrimmedFullBudget(x, kept) ==
  LET list == (adj[0][x] \cap kept) \cup Closest(adj[0][x] \ kept, M, metric[x])
  IN IF Cardinality(list) > MMax THEN Closest(list, MMax, metric[x]) ELSE list

\* The list of a node that is no hub: its edges to the hubs in kept, and the closest
\* of the others for what is left of M.
Trimmed(x, kept) ==
  LET onRamps == adj[0][x] \cap kept
      budget == IF Cardinality(onRamps) < M THEN M - Cardinality(onRamps) ELSE 0
      list == onRamps \cup Closest(adj[0][x] \ kept, budget, metric[x])
  IN IF Cardinality(list) > MMax THEN Closest(list, MMax, metric[x]) ELSE list

\* prune_high_degree, for the number of hubs that hub_fraction comes to.
PruneHighDegree(count) ==
  /\ phase = "idle" /\ node \notin Node
  /\ hubs' = Densest(count)
  /\ adj' = [adj EXCEPT ![0] =
       [x \in Node |-> IF x \in hubs' \/ Cardinality(adj[0][x]) <= M
                         THEN adj[0][x] ELSE Trimmed(x, hubs')]]
  /\ phase' = "built"
  /\ UNCHANGED <<metric, level, entry, maxLayer, node, place>>

Next == \/ \E l \in Layer : Draw(l)
        \/ Descend \/ Link
        \/ \E count \in 0 .. Cardinality(Node) : PruneHighDegree(count)

Spec == Init /\ [][Next]_vars

-----------------------------------------------------------------------------
(* Properties.                                                             *)

\* However insertions and prunings alternate, no list outgrows its layer's cap
\* between two steps.
DegreesAreCapped ==
  \A l \in Layer : \A x \in Node : Cardinality(adj[l][x]) <= CapForLayer(l)

\* A node that went in after another keeps a way out on each of its layers,
\* whatever later insertions and the last pass prune.
NobodyIsStranded ==
  \A x \in 1 .. node - 1 : \A l \in 0 .. level[x] : adj[l][x] # {}

\* A descent can leave the entry point on every layer where there is an edge ...
EntryLeadsOn ==
  \A l \in Layer : (\E x \in Node : adj[l][x] # {}) => adj[l][entry] # {}

\* ... and on a layer above its own level it is the only node out of place: the
\* first node stands in on the layers that later nodes add.
EntryStandsIn ==
  /\ EntryLeadsOn
  /\ \A l \in Layer : \A x \in Node : \A y \in adj[l][x] :
       (level[x] >= l \/ x = entry) /\ (level[y] >= l \/ y = entry)

\* The last pass keeps every edge that leads to a hub, although it caps the result
\* again, and every edge of a hub.
OnRampsKept ==
  [][phase' = "built" =>
       \A x \in Node : /\ adj[0][x] \cap hubs' \subseteq adj'[0][x]
                       /\ x \in hubs' => adj'[0][x] = adj[0][x]]_vars

\* It also does its work: a node that is no hub is down to M edges, or to on-ramps.
OthersAreTrimmed ==
  phase = "built" => \A x \in Node \ hubs : \/ Cardinality(adj[0][x]) <= M
                                            \/ adj[0][x] \subseteq hubs

\* What build_resident hands to its callers, build_sharded and layout_order among
\* them, is all that they need of it (module BuiltGraph).
BuildKeepsPromise ==
  phase = "built" =>
    Built(Node, 0, [level |-> level, top |-> maxLayer,
                    adj |-> [l \in 0 .. maxLayer |-> adj[l]]], M, MMax)
=============================================================================
