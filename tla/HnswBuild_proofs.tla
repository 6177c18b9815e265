--------------------------- MODULE HnswBuild_proofs ---------------------------
(***************************************************************************)
(* Proofs about HnswBuild, for every number of nodes, levels drawn, caps,    *)
(* beam width and number of hubs, and whatever local optima the searches     *)
(* inside the insertions return.                                           *)
(***************************************************************************)
EXTENDS HnswBuild, FiniteSetTheorems, TLAPS

\* The nodes inserted.
Old == 0 .. node - 1

EdgesAt(l) == \E x \in Node : adj[l][x] # {}

\* The nodes that may have edges on layer l: inserted ones, and the one being inserted
\* where it is linked already, of level l at least or the entry point.
Ends(l) == {z \in Old \cup (IF phase = "linking" /\ l > layer THEN {node} ELSE {}) :
              level[z] >= l \/ z = entry}

Typed == /\ metric \in Metrics
         /\ adj \in [Layer -> [Node -> SUBSET Node]]
         /\ level \in [Node -> Layer]
         /\ node \in 0 .. Cardinality(Node)
         /\ maxLayer \in Layer
         /\ entry \in Old \cup {NoNode}
         /\ node > 0 => entry \in Old
         /\ phase \in {"idle", "descending", "linking", "built"}

\* Where an insertion stands.  A layer without edges is entered from the entry point.
Placed == phase \in {"descending", "linking"} =>
            /\ node \in Node /\ entry \in Old
            /\ layer \in Layer
            /\ phase = "descending" => layer > level[node] /\ starts = {current}
            /\ phase = "linking" => layer <= level[node]
            /\ current \in Old
            /\ starts # {} /\ starts \subseteq Old
            /\ \A y \in starts : level[y] >= layer \/ y = entry
            /\ ~ EdgesAt(layer) => starts = {entry}

EdgesWithin == \A l \in Layer : \A x \in Node :
                 /\ adj[l][x] \subseteq Ends(l)
                 /\ adj[l][x] # {} => x \in Ends(l)

\* A layer with edges has edges on the layer below, but for the one worked on.
Tower == \A l \in Layer : (l + 1) \in Layer /\ EdgesAt(l + 1) =>
           EdgesAt(l) \/ (phase = "linking" /\ l = layer)

\* The layers of the node being inserted that are done with.
LinkedSoFar == phase = "linking" => \A l \in layer + 1 .. level[node] : adj[l][node] # {}

IInv == /\ Typed /\ Placed /\ EdgesWithin /\ Tower /\ LinkedSoFar
        /\ DegreesAreCapped /\ EntryLeadsOn /\ NobodyIsStranded /\ OthersAreTrimmed

-----------------------------------------------------------------------------

LEMMA ConstantsFit ==
  /\ IsFiniteSet(Node) /\ Cardinality(Node) \in Nat /\ Cardinality(Node) > 0
  /\ Node = 0 .. Cardinality(Node) - 1 /\ NoNode \notin Node
  /\ M \in Nat /\ M > 0 /\ MMax \in Nat /\ M <= MMax /\ TopLevel \in Nat
  /\ EfConstruction \in Nat /\ EfConstruction > 0
  /\ \A d \in Metrics : \A x \in Node : d[x] \in [Node -> Int]
<1>1. IsFiniteSet(Node) /\ Node = 0 .. Cardinality(Node) - 1 /\ Node # {}
  BY HnswBuildAssumption DEF HnswBuildAssumption
<1>2. Cardinality(Node) \in Nat
  BY <1>1, FS_CardinalityType
<1> QED
  BY <1>1, <1>2, HnswBuildAssumption DEF HnswBuildAssumption

LEMMA CapsFit ==
  ASSUME NEW l \in Layer
  PROVE  CapForLayer(l) \in Nat /\ CapForLayer(l) > 0
BY ConstantsFit DEF CapForLayer

LEMMA SubsetsAreFinite ==
  ASSUME NEW S \in SUBSET Node
  PROVE  IsFiniteSet(S) /\ Cardinality(S) \in Nat
BY ConstantsFit, FS_Subset, FS_CardinalityType

\* select_neighbors keeps some of what it is given, no more than the cap, and not
\* nothing of something.
LEMMA ClosestFits ==
  ASSUME NEW S \in SUBSET Node, NEW cap \in Nat, NEW d \in [Node -> Int]
  PROVE  /\ Closest(S, cap, d) \subseteq S
         /\ Cardinality(Closest(S, cap, d)) \in Nat
         /\ Cardinality(Closest(S, cap, d)) <= cap
         /\ S # {} /\ cap > 0 => Closest(S, cap, d) # {}
<1> DEFINE Preds(x) == {y \in S : d[y] < d[x] \/ (d[y] = d[x] /\ y < x)}
           rank == [x \in S |-> Cardinality(Preds(x))]
           kept == Closest(S, cap, d)
<1>1. \A x \in S : d[x] \in Int /\ x \in Int
  BY ConstantsFit
<1>2. \A x \in S : /\ Preds(x) \in SUBSET Node /\ Preds(x) \in SUBSET S
                   /\ IsFiniteSet(Preds(x)) /\ Cardinality(Preds(x)) \in Nat
                   /\ x \notin Preds(x)
  BY <1>1, SubsetsAreFinite
<1>3. \A x, y \in S : y \in Preds(x) => rank[y] < rank[x]
  <2> SUFFICES ASSUME NEW x \in S, NEW y \in S, y \in Preds(x) PROVE rank[y] < rank[x]
    OBVIOUS
  <2>1. Preds(y) \in SUBSET Preds(x)
    BY <1>1
  <2>2. Preds(y) # Preds(x)
    BY <1>2
  <2>3. /\ Cardinality(Preds(y)) <= Cardinality(Preds(x))
        /\ Cardinality(Preds(y)) # Cardinality(Preds(x))
    <3> HIDE DEF Preds
    <3> QED
      BY <1>2, <2>1, <2>2, FS_Subset
  <2>4. Cardinality(Preds(y)) < Cardinality(Preds(x))
    <3> HIDE DEF Preds
    <3> QED
      BY <1>2, <2>3
  <2> QED
    BY <2>4
<1>4. \A x, y \in S : x # y => rank[x] # rank[y]
  <2>1. \A x, y \in S : x # y => y \in Preds(x) \/ x \in Preds(y)
    BY <1>1
  <2>2. \A x \in S : rank[x] \in Nat
    BY <1>2
  <2> HIDE DEF Preds, rank
  <2> QED
    BY <1>3, <2>1, <2>2
<1>5. kept = {x \in S : rank[x] < cap}
  BY DEF Closest
<1>6. \A x \in S : rank[x] \in Nat
  BY <1>2
<1>7. kept \subseteq S /\ kept \in SUBSET Node
  BY <1>5
<1>8. Cardinality(kept) \in Nat /\ Cardinality(kept) <= cap
  <2> DEFINE rankOf == [x \in kept |-> rank[x]]
  <2> HIDE DEF Preds, rank, kept
  <2>1. rankOf \in [kept -> 0 .. cap - 1]
    BY <1>5, <1>6, <1>7
  <2>2. \A x, y \in kept : rankOf[x] = rankOf[y] => x = y
    BY <1>4, <1>7
  <2>3. rankOf \in Injection(kept, 0 .. cap - 1)
    <3> HIDE DEF rankOf
    <3> QED
      BY <2>1, <2>2 DEF Injection, IsInjective
  <2>4. IsFiniteSet(0 .. cap - 1) /\ Cardinality(0 .. cap - 1) = cap
    BY FS_Interval
  <2>5. Cardinality(kept) <= Cardinality(0 .. cap - 1)
    BY <2>3, <2>4, FS_Injection
  <2> QED
    BY <1>7, <2>4, <2>5, SubsetsAreFinite
<1>9. ASSUME S # {}, cap > 0 PROVE kept # {}
  <2> DEFINE size == Cardinality(S)
  <2>1. IsFiniteSet(S) /\ size \in Nat
    BY SubsetsAreFinite
  <2>2. size > 0
    BY <1>9, <2>1, FS_EmptySet
  <2>3. \A x \in S : rank[x] \in 0 .. size - 1
    <3> SUFFICES ASSUME NEW x \in S PROVE rank[x] \in 0 .. size - 1
      OBVIOUS
    <3>1. Cardinality(Preds(x)) <= size /\ Cardinality(Preds(x)) # size
      <4>1. Preds(x) \in SUBSET S /\ Preds(x) # S
        BY <1>2
      <4> HIDE DEF Preds
      <4> QED
        BY <2>1, <4>1, FS_Subset
    <3> QED
      BY <1>2, <2>1, <3>1
  <2>4. rank \in [S -> 0 .. size - 1]
    BY <2>3
  <2> HIDE DEF Preds, rank, kept
  <2>5. rank \in Injection(S, 0 .. size - 1)
    BY <1>4, <2>4 DEF Injection, IsInjective
  <2>6. IsFiniteSet(0 .. size - 1) /\ Cardinality(0 .. size - 1) = size
    BY <2>1, <2>2, FS_Interval
  <2>7. rank \in Surjection(S, 0 .. size - 1)
    BY <2>5, <2>6, FS_Injection
  <2>8. PICK x \in S : rank[x] = 0
    BY <2>1, <2>2, <2>7 DEF Surjection
  <2> QED
    BY <1>5, <1>9, <2>8
<1> QED
  BY <1>7, <1>8, <1>9

\* A search reaches where it starts, and stays in what is closed.
LEMMA ReachFits ==
  ASSUME NEW g \in [Node -> SUBSET Node], NEW S \in SUBSET Node
  PROVE  /\ S \subseteq Reach(g, S)
         /\ \A C \in SUBSET Node : S \subseteq C /\ Closed(g, C) => Reach(g, S) \subseteq C
BY DEF Reach

\* A local optimum of a search that has somewhere to start is not empty.
LEMMA OptimumIsSome ==
  ASSUME NEW g \in [Node -> SUBSET Node], NEW S \in SUBSET Node, S # {},
         NEW d, NEW R, LocalOptimum(g, d, EfConstruction, S, R)
  PROVE  R # {} /\ R \subseteq Reach(g, S)
<1>1. S \subseteq Reach(g, S)
  BY ReachFits
<1>2. R = {} => Cardinality(R) < EfConstruction
  BY ConstantsFit, FS_EmptySet
<1> QED
  BY <1>1, <1>2 DEF LocalOptimum

-----------------------------------------------------------------------------

LEMMA InitHolds == Init => IInv
<1> SUFFICES ASSUME Init PROVE IInv
  OBVIOUS
<1>1. /\ \A l \in Layer : \A x \in Node : adj[l][x] = {}
      /\ Cardinality({}) = 0
  BY FS_EmptySet DEF Init
<1>2. \A l \in Layer : CapForLayer(l) \in Nat
  BY CapsFit
<1>3. Typed
  BY ConstantsFit DEF Init, Typed, Old, Layer
<1>4. Placed /\ LinkedSoFar /\ OthersAreTrimmed
  BY DEF Init, Placed, LinkedSoFar, OthersAreTrimmed
<1>5. EdgesWithin /\ Tower /\ EntryLeadsOn
  BY <1>1 DEF EdgesWithin, Tower, EdgesAt, EntryLeadsOn
<1>6. DegreesAreCapped
  BY <1>1, <1>2, SMTT(20) DEF DegreesAreCapped
<1>7. NobodyIsStranded
  BY DEF Init, NobodyIsStranded
<1> QED
  BY <1>3, <1>4, <1>5, <1>6, <1>7 DEF IInv

\* A step that leaves the graph's edges alone keeps what is said of them.
LEMMA SameEdges ==
  ASSUME IInv, UNCHANGED adj, phase' # "built", phase # "linking",
         \A z \in Old : z \in Old' /\ level'[z] = level[z] /\ (z = entry => z = entry')
  PROVE  /\ EdgesWithin' /\ Tower' /\ DegreesAreCapped' /\ OthersAreTrimmed'
<1>1. \A l \in Layer : Ends(l) \subseteq Ends(l)'
  BY DEF Ends
<1>2. EdgesWithin'
  BY <1>1 DEF IInv, EdgesWithin
<1>3. Tower'
  BY DEF IInv, Tower, EdgesAt
<1>4. DegreesAreCapped' /\ OthersAreTrimmed'
  BY DEF IInv, DegreesAreCapped, OthersAreTrimmed, CapForLayer
<1> QED
  BY <1>2, <1>3, <1>4

LEMMA DrawHolds == ASSUME IInv, NEW l \in Layer, Draw(l) PROVE IInv'
<1>1. /\ phase = "idle" /\ node \in Node /\ node \in Nat /\ node \notin Old
      /\ Old \subseteq Node /\ l \in Nat
      /\ adj' = adj /\ metric' = metric /\ hubs' = hubs
      /\ level' = [level EXCEPT ![node] = l]
      /\ level' \in [Node -> Layer] /\ level'[node] = l
      /\ \A z \in Old : level'[z] = level[z]
      /\ maxLayer' \in Layer /\ maxLayer' \in Nat /\ l <= maxLayer'
  BY ConstantsFit DEF IInv, Typed, Draw, Old, Layer
<1>2. CASE entry = NoNode
  <2>1. /\ entry' = node /\ node' = node + 1 /\ phase' = "idle"
        /\ node = 0 /\ Old = {} /\ Old' = {0}
    BY <1>1, <1>2, ConstantsFit DEF Draw, IInv, Typed, Old
  <2>2. \A k \in Layer : \A x \in Node : adj[k][x] = {}
    BY <1>1, <2>1 DEF IInv, EdgesWithin, Ends
  <2>3. Typed'
    BY <1>1, <2>1, ConstantsFit DEF IInv, Typed
  <2>4. Placed' /\ LinkedSoFar'
    BY <2>1 DEF Placed, LinkedSoFar
  <2>5. EdgesWithin' /\ Tower' /\ DegreesAreCapped' /\ OthersAreTrimmed'
    BY <1>1, <2>1, SameEdges
  <2>6. EntryLeadsOn'
    BY <1>1, <2>2 DEF EntryLeadsOn
  <2>7. NobodyIsStranded'
    BY <2>1 DEF NobodyIsStranded
  <2> QED
    BY <2>3, <2>4, <2>5, <2>6, <2>7 DEF IInv
<1>3. CASE entry # NoNode
  <2>1. /\ phase' = IF maxLayer' > l THEN "descending" ELSE "linking"
        /\ layer' = maxLayer' /\ current' = entry /\ starts' = {entry}
        /\ entry' = entry /\ node' = node /\ Old' = Old /\ entry \in Old
    BY <1>1, <1>3 DEF Draw, IInv, Typed, Old
  <2>2. Typed'
    BY <1>1, <2>1 DEF IInv, Typed
  <2>3. Placed'
    BY <1>1, <2>1 DEF Placed, Layer
  <2>4. LinkedSoFar'
    <3>1. phase' = "linking" => layer' = l /\ level'[node'] = l
      BY <1>1, <2>1
    <3>2. l + 1 .. l = {}
      BY <1>1
    <3> QED
      BY <3>1, <3>2 DEF LinkedSoFar
  <2>5. EdgesWithin' /\ Tower' /\ DegreesAreCapped' /\ OthersAreTrimmed'
    BY <1>1, <2>1, SameEdges
  <2>6. EntryLeadsOn'
    BY <1>1, <2>1 DEF IInv, EntryLeadsOn
  <2>7. NobodyIsStranded'
    BY <1>1, <2>1 DEF IInv, NobodyIsStranded, Old
  <2> QED
    BY <2>2, <2>3, <2>4, <2>5, <2>6, <2>7 DEF IInv
<1> QED
  BY <1>2, <1>3

\* The inserted nodes are closed under the edges of the layer worked on.
LEMMA SearchStaysInOld ==
  ASSUME IInv, phase \in {"descending", "linking"}
  PROVE  /\ Old \in SUBSET Node /\ adj[layer] \in [Node -> SUBSET Node]
         /\ \A x \in Node : adj[layer][x] \subseteq Old
         /\ \A x \in Node : \A y \in adj[layer][x] : level[y] >= layer \/ y = entry
         /\ starts \in SUBSET Node
         /\ Reach(adj[layer], starts) \subseteq
              {y \in Old : level[y] >= layer \/ y = entry}
         /\ ~ EdgesAt(layer) => Reach(adj[layer], starts) = {entry}
<1>1. layer \in Layer /\ starts \subseteq Old /\ node \in Node
  BY DEF IInv, Placed
<1>2. Old \in SUBSET Node /\ adj[layer] \in [Node -> SUBSET Node] /\ starts \in SUBSET Node
  BY <1>1, ConstantsFit DEF Old, IInv, Typed
<1>3. \A x \in Node : adj[layer][x] \subseteq {y \in Old : level[y] >= layer \/ y = entry}
  BY <1>1 DEF IInv, EdgesWithin, Ends, Layer
<1>4. Reach(adj[layer], starts) \subseteq {y \in Old : level[y] >= layer \/ y = entry}
  <2> DEFINE C == {y \in Old : level[y] >= layer \/ y = entry}
  <2>1. C \in SUBSET Node /\ Closed(adj[layer], C)
    BY <1>2, <1>3 DEF Closed
  <2>2. starts \subseteq C
    BY DEF IInv, Placed
  <2> QED
    BY <1>2, <2>1, <2>2, ReachFits
<1>5. ASSUME ~ EdgesAt(layer) PROVE Reach(adj[layer], starts) = {entry}
  <2>1. starts = {entry} /\ \A x \in Node : adj[layer][x] = {}
    BY <1>5 DEF EdgesAt, IInv, Placed
  <2>2. Closed(adj[layer], starts)
    BY <1>2, <2>1 DEF Closed
  <2> QED
    BY <1>2, <2>1, <2>2, ReachFits
<1> QED
  BY <1>2, <1>3, <1>4, <1>5

LEMMA DescendHolds == ASSUME IInv, Descend PROVE IInv'
<1>1. /\ phase = "descending" /\ layer \in Layer /\ layer > level[node] /\ starts = {current}
      /\ node \in Node /\ level[node] \in Layer
      /\ layer' = layer - 1 /\ layer' \in Layer
      /\ phase' = IF layer' > level[node] THEN "descending" ELSE "linking"
      /\ UNCHANGED <<metric, adj, level, entry, maxLayer, node, hubs>>
  BY ConstantsFit DEF IInv, Typed, Placed, Descend, Layer, graph
<1>2. PICK c \in Reach(adj[layer], {current}) : current' = c /\ starts' = {c}
  BY DEF Descend
<1>3. /\ c \in Old /\ c \in Node
      /\ level[c] >= layer \/ c = entry
      /\ ~ EdgesAt(layer) => c = entry
  BY <1>1, <1>2, SearchStaysInOld
<1>4. Old' = Old /\ \A k : EdgesAt(k)' = EdgesAt(k)
  BY <1>1 DEF Old, EdgesAt
<1>5. ~ EdgesAt(layer') => c = entry
  BY <1>1, <1>3 DEF IInv, Tower, Layer
<1>6. Typed'
  BY <1>1, <1>4 DEF IInv, Typed
<1>7. Placed'
  <2>1. level[c] \in Layer
    BY <1>3 DEF IInv, Typed
  <2>2. level[c] >= layer' \/ c = entry
    BY <1>1, <1>3, <2>1, ConstantsFit DEF Layer
  <2>3. ~ EdgesAt(layer)' => c = entry
    BY <1>1, <1>5 DEF EdgesAt
  <2>4. phase' = "linking" => layer' <= level'[node']
    BY <1>1, ConstantsFit DEF Layer
  <2> QED
    BY <1>1, <1>2, <1>3, <1>4, <2>2, <2>3, <2>4 DEF IInv, Placed
<1>8. EdgesWithin' /\ Tower' /\ DegreesAreCapped' /\ OthersAreTrimmed'
  BY <1>1, <1>4, SameEdges
<1>9. LinkedSoFar'
  BY <1>1 DEF LinkedSoFar, Layer
<1>10. EntryLeadsOn' /\ NobodyIsStranded'
  BY <1>1 DEF IInv, EntryLeadsOn, NobodyIsStranded
<1> QED
  BY <1>6, <1>7, <1>8, <1>9, <1>10 DEF IInv
LEMMA LinkHolds == ASSUME IInv, Link PROVE IInv'
<1> DEFINE cap == CapForLayer(layer)
<1>1. /\ phase = "linking" /\ layer \in Layer /\ layer \in Nat /\ layer <= level[node]
      /\ node \in Node /\ node \in Nat /\ node \notin Old /\ level[node] \in Layer
      /\ entry \in Old /\ entry \in Node /\ entry # node /\ current \in Old
      /\ UNCHANGED <<metric, level, entry, maxLayer, current, hubs>>
      /\ IF layer = 0 THEN phase' = "idle" /\ node' = node + 1 /\ layer' = layer
                      ELSE layer' = layer - 1 /\ phase' = "linking" /\ node' = node
  BY ConstantsFit, SMTT(20) DEF IInv, Typed, Placed, Link, Layer, Old
<1>2. PICK candidates \in SUBSET Node :
        /\ LocalOptimum(adj[layer], metric[node], EfConstruction, starts, candidates)
        /\ adj' = [adj EXCEPT ![layer] =
                     Linked(Closest(candidates, cap, metric[node]), layer)]
        /\ starts' = IF candidates = {} THEN {current} ELSE candidates
  BY DEF Link
<1> DEFINE selected == Closest(candidates, cap, metric[node])
<1>3. /\ candidates # {}
      /\ candidates \subseteq {y \in Old : level[y] >= layer \/ y = entry}
      /\ ~ EdgesAt(layer) => candidates = {entry}
  <2>1. starts # {}
    BY <1>1 DEF IInv, Placed
  <2>2. candidates # {} /\ candidates \subseteq Reach(adj[layer], starts)
    BY <1>1, <1>2, <2>1, SearchStaysInOld, OptimumIsSome
  <2> QED
    BY <1>1, <2>2, SearchStaysInOld
<1>4. /\ cap \in Nat /\ cap > 0 /\ \A x \in Node : metric[x] \in [Node -> Int]
  BY <1>1, CapsFit, ConstantsFit DEF IInv, Typed
<1>5. /\ selected # {} /\ selected \subseteq candidates /\ node \notin selected
      /\ selected \in SUBSET Node
      /\ Cardinality(selected) <= cap
  <2> HIDE DEF cap
  <2> QED
    BY <1>1, <1>2, <1>3, <1>4, ClosestFits
<1>6. /\ adj \in [Layer -> [Node -> SUBSET Node]] /\ adj[layer][node] = {}
  <2>1. node \notin Ends(layer)
    BY <1>1 DEF Ends, Layer
  <2> QED
    BY <1>1, <2>1 DEF IInv, Typed, EdgesWithin
<1> HIDE DEF cap, selected
<1>7. /\ adj' = [adj EXCEPT ![layer] = Linked(selected, layer)]
      /\ adj'[layer] = Linked(selected, layer)
      /\ \A l \in Layer \ {layer} : adj'[l] = adj[l]
  BY <1>1, <1>2, <1>6 DEF selected
<1>8. adj'[layer][node] = selected
  BY <1>1, <1>5, <1>6, <1>7 DEF Linked
<1>9. \A x \in selected :
        /\ adj'[layer][x] \subseteq adj[layer][x] \cup {node}
        /\ adj'[layer][x] # {} /\ Cardinality(adj'[layer][x]) <= cap
  <2> SUFFICES ASSUME NEW x \in selected
               PROVE  /\ adj'[layer][x] \subseteq adj[layer][x] \cup {node}
                      /\ adj'[layer][x] # {} /\ Cardinality(adj'[layer][x]) <= cap
    OBVIOUS
  <2>1. adj'[layer][x] = Closest(adj[layer][x] \cup {node}, cap, metric[x])
    BY <1>5, <1>7 DEF Linked, Pruned, cap
  <2>2. adj[layer][x] \cup {node} \in SUBSET Node /\ metric[x] \in [Node -> Int]
    BY <1>1, <1>4, <1>5, <1>6
  <2> DEFINE list == adj[layer][x] \cup {node}
             kept == Closest(list, cap, metric[x])
  <2>3. list # {} /\ list \in SUBSET Node
    BY <2>2
  <2>4. kept \subseteq list /\ Cardinality(kept) <= cap /\ kept # {}
    <3> HIDE DEF list
    <3> QED
      BY <1>4, <2>2, <2>3, ClosestFits
  <2> QED
    BY <2>1, <2>4
<1>10. \A x \in Node \ (selected \cup {node}) : adj'[layer][x] = adj[layer][x]
  BY <1>7 DEF Linked
<1>11. \A x \in Node : /\ adj'[layer][x] \subseteq adj[layer][x] \cup {node} \cup selected
                       /\ adj[layer][x] # {} => adj'[layer][x] # {}
                       /\ x \notin selected \cup {node} => adj'[layer][x] = adj[layer][x]
  BY <1>5, <1>8, <1>9, <1>10
<1>12. /\ Old \subseteq Old' /\ node' \in 0 .. Cardinality(Node)
       /\ node' # node => Old' = Old \cup {node} /\ layer = 0
       /\ node' = node => Old' = Old /\ layer > 0
  BY <1>1, ConstantsFit DEF Old
<1>0. PICK here \in Layer : here = layer
  BY <1>1
<1>13. /\ \A l \in Layer : Ends(l) \subseteq Ends(l)'
       /\ node \in Ends(here)'
  <2>1. CASE layer = 0
    <3>1. Old' = Old \cup {node}
      BY <1>1, <1>12, <2>1
    <3> QED
      BY <1>0, <1>1, <2>1, <3>1 DEF Ends
  <2>2. CASE layer # 0
    BY <1>0, <1>1, <1>12, <2>2 DEF Ends, Layer
  <2> QED
    BY <2>1, <2>2
<1>14. candidates \subseteq Ends(here)'
  BY <1>0, <1>1, <1>3, <1>12 DEF Ends
<1>15. Typed'
  <2>1. Linked(selected, layer) \in [Node -> SUBSET Node]
    <3>0. \A x \in Node : adj[layer][x] \in SUBSET Node
      BY <1>1, <1>6
    <3>1. \A x \in Node : Linked(selected, layer)[x] \in SUBSET Node
      BY <1>1, <1>5, <1>7, <1>11, <3>0
    <3>2. Linked(selected, layer) = [x \in Node |-> Linked(selected, layer)[x]]
      BY DEF Linked
    <3> QED
      BY <3>1, <3>2
  <2>2. adj' \in [Layer -> [Node -> SUBSET Node]]
    BY <1>6, <1>7, <2>1
  <2> QED
    BY <1>1, <1>12, <2>2 DEF IInv, Typed
<1>16. EdgesWithin'
  <2> SUFFICES ASSUME NEW l \in Layer, NEW x \in Node
               PROVE  /\ adj'[l][x] \subseteq Ends(l)'
                      /\ adj'[l][x] # {} => x \in Ends(l)'
    BY DEF EdgesWithin
  <2>1. CASE l # layer
    BY <1>7, <1>13, <2>1 DEF IInv, EdgesWithin
  <2>2. CASE l = layer
    <3>1. /\ adj[layer][x] \subseteq Ends(here)'
          /\ adj[layer][x] # {} => x \in Ends(here)'
      BY <1>0, <1>1, <1>13 DEF IInv, EdgesWithin
    <3> QED
      BY <1>0, <1>5, <1>11, <1>13, <1>14, <2>2, <3>1
  <2> QED
    BY <2>1, <2>2
<1>17. /\ EdgesAt(here)'
       /\ \A l \in Layer \ {layer} : EdgesAt(l)' <=> EdgesAt(l)
  BY <1>0, <1>1, <1>5, <1>7, <1>8 DEF EdgesAt
<1>18. Placed'
  <2> SUFFICES ASSUME layer # 0 PROVE Placed'
    BY <1>1 DEF Placed
  <2>1. /\ layer' = layer - 1 /\ layer' \in Layer /\ layer' \in Layer \ {layer}
        /\ phase' = "linking" /\ node' = node /\ Old' = Old
        /\ layer' <= level'[node']
    BY <1>1, <1>12, ConstantsFit DEF Layer
  <2>2. PICK below \in Layer \ {layer} : below = layer'
    BY <2>1
  <2>3. ~ EdgesAt(below)' => candidates = {entry}
    <3>1. EdgesAt(layer) => EdgesAt(below)
      BY <1>1, <2>1, <2>2 DEF IInv, Tower, Layer
    <3> QED
      BY <1>3, <1>17, <2>2, <3>1
  <2>4. \A y \in candidates : level'[y] >= layer' \/ y = entry'
    <3>1. \A y \in candidates : level[y] \in Layer
      BY <1>2 DEF IInv, Typed
    <3> QED
      BY <1>1, <1>3, <2>1, <3>1 DEF Layer
  <2>5. ~ EdgesAt(layer)' => starts' = {entry'}
    BY <1>1, <1>2, <1>3, <2>2, <2>3 DEF EdgesAt
  <2> QED
    BY <1>1, <1>2, <1>3, <2>1, <2>4, <2>5 DEF Placed
<1>19. Tower'
  <2> SUFFICES ASSUME NEW l \in Layer, (l + 1) \in Layer, EdgesAt(l + 1)',
                      ~ (phase' = "linking" /\ l = layer')
               PROVE  EdgesAt(l)'
    BY DEF Tower
  <2>1. CASE l = layer
    BY <1>0, <1>17, <2>1
  <2>2. CASE l # layer
    <3>1. l + 1 # layer
      BY <1>1, <2>2 DEF Layer
    <3>2. EdgesAt(l + 1)
      BY <1>17, <3>1
    <3> QED
      BY <1>17, <2>2, <3>2 DEF IInv, Tower
  <2> QED
    BY <2>1, <2>2
<1>20. LinkedSoFar'
  <2> SUFFICES ASSUME layer # 0, NEW l \in layer .. level[node]
               PROVE  adj'[l][node] # {}
    BY <1>1 DEF LinkedSoFar, Layer
  <2>1. l \in Layer
    BY <1>1, ConstantsFit DEF Layer
  <2>2. CASE l = layer
    BY <1>5, <1>8, <2>2
  <2>3. CASE l # layer
    <3>1. l \in layer + 1 .. level[node]
      BY <1>1, <2>3, ConstantsFit DEF Layer
    <3> QED
      BY <1>1, <1>7, <2>1, <2>3, <3>1 DEF IInv, LinkedSoFar
  <2> QED
    BY <2>2, <2>3
<1>21. DegreesAreCapped'
  <2> SUFFICES ASSUME NEW l \in Layer, NEW x \in Node
               PROVE  Cardinality(adj'[l][x]) <= CapForLayer(l)
    BY DEF DegreesAreCapped, CapForLayer
  <2>1. CASE l # layer
    BY <1>7, <2>1 DEF IInv, DegreesAreCapped
  <2>2. CASE l = layer
    BY <1>5, <1>8, <1>9, <1>10, <2>2 DEF IInv, DegreesAreCapped, cap
  <2> QED
    BY <2>1, <2>2
<1>22. EntryLeadsOn'
  <2>1. adj'[layer][entry] # {}
    <3>1. CASE EdgesAt(layer)
      BY <1>1, <1>11, <3>1 DEF EdgesAt, IInv, EntryLeadsOn
    <3>2. CASE ~ EdgesAt(layer)
      BY <1>3, <1>5, <1>9, <3>2
    <3> QED
      BY <3>1, <3>2
  <2> QED
    BY <1>1, <1>7, <2>1 DEF IInv, EntryLeadsOn
<1>23. NobodyIsStranded'
  <2> SUFFICES ASSUME NEW x \in 1 .. node' - 1, NEW l \in 0 .. level[x]
               PROVE  adj'[l][x] # {}
    BY <1>1 DEF NobodyIsStranded
  <2>1. x \in Node /\ x \in 1 .. node
    BY <1>1, ConstantsFit
  <2>2. level[x] \in Layer /\ l \in Layer
    BY <2>1, ConstantsFit DEF IInv, Typed, Layer
  <2>3. CASE x # node
    <3>1. adj[l][x] # {}
      <4>1. x \in 1 .. node - 1
        BY <1>1, <2>1, <2>3
      <4> QED
        BY <4>1 DEF IInv, NobodyIsStranded
    <3> QED
      BY <1>7, <1>11, <2>1, <2>2, <3>1
  <2>4. CASE x = node
    <3>1. layer = 0
      BY <1>1, <2>4
    <3>2. CASE l = 0
      BY <1>5, <1>8, <2>4, <3>1, <3>2
    <3>3. CASE l # 0
      <4>1. l \in layer + 1 .. level[node]
        BY <1>1, <2>2, <2>4, <3>1, <3>3, ConstantsFit DEF Layer
      <4> QED
        BY <1>1, <1>7, <2>2, <2>4, <3>1, <3>3, <4>1 DEF IInv, LinkedSoFar
    <3> QED
      BY <3>2, <3>3
  <2> QED
    BY <2>3, <2>4
<1>24. OthersAreTrimmed'
  BY <1>1 DEF OthersAreTrimmed
<1> QED
  BY <1>15, <1>16, <1>18, <1>19, <1>20, <1>21, <1>22, <1>23, <1>24 DEF IInv

LEMMA LongIsSome == ASSUME NEW S, Cardinality(S) > M PROVE S # {}
<1>1. Cardinality({}) = 0
  BY FS_EmptySet
<1>2. ~ (0 > M)
  BY ConstantsFit
<1> QED
  BY <1>1, <1>2

\* What the last pass leaves of a list that is longer than M, and within its cap.
LEMMA TrimmedFits ==
  ASSUME NEW x \in Node, NEW kept, adj[0][x] \in SUBSET Node, metric[x] \in [Node -> Int],
         Cardinality(adj[0][x]) > M, Cardinality(adj[0][x]) <= MMax
  PROVE  /\ adj[0][x] \cap kept \subseteq Trimmed(x, kept)
         /\ Trimmed(x, kept) \subseteq adj[0][x]
         /\ Trimmed(x, kept) # {}
         /\ Cardinality(Trimmed(x, kept)) <= MMax
         /\ \/ Cardinality(Trimmed(x, kept)) <= M
            \/ Trimmed(x, kept) \subseteq kept
<1> DEFINE onRamps == adj[0][x] \cap kept
           others == adj[0][x] \ kept
           budget == IF Cardinality(onRamps) < M THEN M - Cardinality(onRamps) ELSE 0
           closest == Closest(others, budget, metric[x])
           list == onRamps \cup closest
<1>1. /\ onRamps \in SUBSET Node /\ others \in SUBSET Node
      /\ IsFiniteSet(onRamps) /\ Cardinality(onRamps) \in Nat
  <2>1. onRamps \in SUBSET Node /\ others \in SUBSET Node
    OBVIOUS
  <2> QED
    BY <2>1, SubsetsAreFinite
<1>2. budget \in Nat
  <2> HIDE DEF onRamps
  <2> QED
    BY <1>1, ConstantsFit
<1>3. /\ closest \subseteq others /\ Cardinality(closest) \in Nat
      /\ Cardinality(closest) <= budget
      /\ others # {} /\ budget > 0 => closest # {}
      /\ IsFiniteSet(closest)
  <2> HIDE DEF budget, others
  <2>1. closest \subseteq others /\ closest \in SUBSET Node
    BY <1>1, <1>2, ClosestFits
  <2> QED
    BY <1>1, <1>2, <2>1, ClosestFits, SubsetsAreFinite
<1>4. list \subseteq adj[0][x] /\ onRamps \subseteq list /\ list \in SUBSET Node
  BY <1>3
<1>5. /\ Cardinality(adj[0][x]) \in Nat /\ Cardinality(list) \in Nat
      /\ Cardinality(list) <= Cardinality(adj[0][x])
      /\ IsFiniteSet(list)
  <2>1. IsFiniteSet(adj[0][x])
    BY SubsetsAreFinite
  <2> HIDE DEF list
  <2> QED
    BY <1>4, <2>1, SubsetsAreFinite, FS_Subset
<1>6. Trimmed(x, kept) = list
  <2>1. ~ (Cardinality(list) > MMax)
    <3> HIDE DEF list
    <3> QED
      BY <1>5, ConstantsFit
  <2> QED
    BY <2>1 DEF Trimmed
<1>7. list # {}
  <2>1. adj[0][x] # {}
    BY LongIsSome
  <2>2. CASE onRamps # {}
    BY <2>2
  <2>3. CASE onRamps = {}
    <3>1. others # {} /\ Cardinality(onRamps) = 0
      BY <2>1, <2>3, FS_EmptySet
    <3>2. budget > 0
      <4> HIDE DEF onRamps
      <4> QED
        BY <3>1, ConstantsFit
    <3> QED
      BY <1>3, <3>1, <3>2
  <2> QED
    BY <2>2, <2>3
<1>8. Cardinality(list) <= M \/ list \subseteq kept
  <2>1. CASE Cardinality(onRamps) < M
    <3>1. /\ IsFiniteSet(onRamps \cup closest)
          /\ Cardinality(onRamps \cup closest) <= Cardinality(onRamps) + Cardinality(closest)
      <4>1. Cardinality(onRamps \cup closest) =
              Cardinality(onRamps) + Cardinality(closest) - Cardinality(onRamps \cap closest)
        <5> HIDE DEF onRamps, closest
        <5> QED
          BY <1>1, <1>3, FS_Union
      <4>2. IsFiniteSet(onRamps \cap closest) /\ Cardinality(onRamps \cap closest) \in Nat
        BY <1>1, <1>3, FS_Intersection, FS_CardinalityType
      <4> HIDE DEF onRamps, closest
      <4> QED
        BY <1>1, <1>3, <4>1, <4>2, FS_Union
    <3>2. budget = M - Cardinality(onRamps)
      BY <2>1
    <3> HIDE DEF onRamps, closest, budget
    <3> QED
      BY <1>1, <1>3, <1>5, <3>1, <3>2, ConstantsFit
  <2>2. CASE ~ (Cardinality(onRamps) < M)
    <3>1. budget = 0
      BY <2>2
    <3>2. closest = {}
      <4> HIDE DEF closest, budget
      <4> QED
        BY <1>3, <3>1, FS_EmptySet
    <3> QED
      BY <3>2
  <2> QED
    BY <2>1, <2>2
<1> HIDE DEF list
<1> QED
  BY <1>4, <1>5, <1>6, <1>7, <1>8, ConstantsFit

\* The last pass takes from the lists of layer 0, never all of one.
LEMMA PruneHolds == ASSUME IInv, NEW count, PruneHighDegree(count) PROVE IInv'
<1>1. /\ phase = "idle" /\ phase' = "built" /\ node \notin Node /\ 0 \in Layer
      /\ UNCHANGED <<metric, level, entry, maxLayer, node, layer, current, starts>>
      /\ \A l \in Layer \ {0} : adj'[l] = adj[l]
      /\ \A x \in Node : adj'[0][x] = IF x \in hubs' \/ Cardinality(adj[0][x]) <= M
                                        THEN adj[0][x] ELSE Trimmed(x, hubs')
      /\ adj' = [adj EXCEPT ![0] = adj'[0]] /\ DOMAIN adj'[0] = Node
      /\ adj'[0] = [x \in Node |-> adj'[0][x]]
  BY ConstantsFit DEF IInv, Typed, PruneHighDegree, place, Layer
<1>2. \A x \in Node : /\ adj[0][x] \in SUBSET Node /\ metric[x] \in [Node -> Int]
                      /\ Cardinality(adj[0][x]) \in Nat /\ Cardinality(adj[0][x]) <= MMax
  BY <1>1, SubsetsAreFinite, ConstantsFit
  DEF IInv, Typed, DegreesAreCapped, CapForLayer
<1>3. ASSUME NEW x \in Node, Cardinality(adj[0][x]) > M
      PROVE  /\ adj[0][x] \cap hubs' \subseteq Trimmed(x, hubs')
             /\ Trimmed(x, hubs') \subseteq adj[0][x]
             /\ Trimmed(x, hubs') # {}
             /\ Cardinality(Trimmed(x, hubs')) <= MMax
             /\ \/ Cardinality(Trimmed(x, hubs')) <= M
                \/ Trimmed(x, hubs') \subseteq hubs'
  BY <1>1, <1>2, <1>3, TrimmedFits
<1>4. \A x \in Node : /\ adj'[0][x] \subseteq adj[0][x]
                      /\ adj'[0][x] # {} <=> adj[0][x] # {}
                      /\ Cardinality(adj'[0][x]) <= MMax
                      /\ \/ x \in hubs' \/ Cardinality(adj'[0][x]) <= M
                         \/ adj'[0][x] \subseteq hubs'
  <2> SUFFICES ASSUME NEW x \in Node
               PROVE  /\ adj'[0][x] \subseteq adj[0][x]
                      /\ adj'[0][x] # {} <=> adj[0][x] # {}
                      /\ Cardinality(adj'[0][x]) <= MMax
                      /\ \/ x \in hubs' \/ Cardinality(adj'[0][x]) <= M
                         \/ adj'[0][x] \subseteq hubs'
    OBVIOUS
  <2>1. CASE x \in hubs' \/ Cardinality(adj[0][x]) <= M
    BY <1>1, <1>2, <2>1
  <2>2. CASE ~ (x \in hubs' \/ Cardinality(adj[0][x]) <= M)
    <3>1. adj'[0][x] = Trimmed(x, hubs')
      BY <1>1, <2>2
    <3>2. Cardinality(adj[0][x]) > M
      BY <1>2, <2>2, ConstantsFit
    <3>3. adj[0][x] # {}
      BY <3>2, LongIsSome
    <3> QED
      BY <1>3, <3>1, <3>2, <3>3
  <2> QED
    BY <2>1, <2>2
<1>5. \A l \in Layer : \A x \in Node : /\ adj'[l][x] \subseteq adj[l][x]
                                       /\ adj'[l][x] # {} <=> adj[l][x] # {}
  BY <1>1, <1>4
<1>6. Typed'
  <2>1. adj' \in [Layer -> [Node -> SUBSET Node]]
    <3>1. adj'[0] \in [Node -> SUBSET Node]
      BY <1>1, <1>2, <1>4
    <3> QED
      BY <1>1, <3>1 DEF IInv, Typed
  <2> QED
    BY <1>1, <2>1 DEF IInv, Typed, Old
<1>7. Placed' /\ LinkedSoFar'
  BY <1>1 DEF Placed, LinkedSoFar
<1>8. EdgesWithin'
  <2>1. \A l \in Layer : Ends(l)' = Ends(l)
    BY <1>1 DEF Ends, Old
  <2> QED
    BY <1>5, <2>1 DEF IInv, EdgesWithin
<1>9. Tower'
  <2>1. \A l \in Layer : EdgesAt(l)' <=> EdgesAt(l)
    BY <1>5 DEF EdgesAt
  <2> QED
    BY <1>1, <2>1 DEF IInv, Tower
<1>10. DegreesAreCapped'
  BY <1>1, <1>4 DEF IInv, DegreesAreCapped, CapForLayer
<1>11. EntryLeadsOn'
  <2> SUFFICES ASSUME NEW l \in Layer, NEW x \in Node, adj'[l][x] # {}
               PROVE  adj'[l][entry] # {}
    BY <1>1 DEF EntryLeadsOn
  <2>1. adj[l][entry] # {}
    BY <1>5 DEF IInv, EntryLeadsOn
  <2>2. entry \in Node
    BY <1>1, ConstantsFit DEF IInv, Typed, Old
  <2> QED
    BY <1>5, <2>1, <2>2
<1>12. NobodyIsStranded'
  <2> SUFFICES ASSUME NEW x \in 1 .. node - 1, NEW l \in 0 .. level[x]
               PROVE  adj'[l][x] # {}
    BY <1>1 DEF NobodyIsStranded
  <2>1. x \in Node
    BY ConstantsFit DEF IInv, Typed
  <2>2. l \in Layer
    BY <2>1, ConstantsFit DEF IInv, Typed, Layer
  <2> QED
    BY <1>5, <2>1, <2>2 DEF IInv, NobodyIsStranded
<1>13. OthersAreTrimmed'
  BY <1>1, <1>4 DEF OthersAreTrimmed
<1> QED
  BY <1>6, <1>7, <1>8, <1>9, <1>10, <1>11, <1>12, <1>13 DEF IInv

LEMMA StepHolds == IInv /\ [Next]_vars => IInv'
<1> SUFFICES ASSUME IInv, [Next]_vars PROVE IInv'
  OBVIOUS
<1>1. CASE \E l \in Layer : Draw(l)
  BY <1>1, DrawHolds
<1>2. CASE Descend
  BY <1>2, DescendHolds
<1>3. CASE Link
  BY <1>3, LinkHolds
<1>4. CASE \E count \in 0 .. Cardinality(Node) : PruneHighDegree(count)
  BY <1>4, PruneHolds
<1>5. CASE UNCHANGED vars
  BY <1>5, SMTT(20) DEF vars, graph, place, IInv, Typed, Placed, EdgesWithin, Tower, LinkedSoFar,
     DegreesAreCapped, EntryLeadsOn, NobodyIsStranded, OthersAreTrimmed, Old, EdgesAt,
     Ends, CapForLayer
<1> QED
  BY <1>1, <1>2, <1>3, <1>4, <1>5 DEF Next

LEMMA Invariant == Spec => []IInv
<1> QED
  BY InitHolds, StepHolds, PTL DEF Spec

-----------------------------------------------------------------------------

\* insert_node: pruning the neighbors that a new node links to keeps every list within
\* its layer's cap, however insertions go on, and prune_high_degree does as well.
THEOREM CapsHold == Spec => []DegreesAreCapped
<1>1. IInv => DegreesAreCapped
  BY DEF IInv
<1> QED
  BY <1>1, Invariant, PTL

\* insert_node, prune_node, prune_high_degree: no pruning takes the last edge out of a
\* node that went in after another, on any of its layers.
THEOREM WaysOutStay == Spec => []NobodyIsStranded
<1>1. IInv => NobodyIsStranded
  BY DEF IInv
<1> QED
  BY <1>1, Invariant, PTL

\* insert_node never replaces the first entry point, and need not: on each layer with
\* edges it has some, and is the only node there that may be above its own level.
THEOREM FirstNodeStandsIn == Spec => []EntryStandsIn
<1>1. IInv => EntryStandsIn
  <2> SUFFICES ASSUME IInv PROVE EntryStandsIn
    OBVIOUS
  <2>1. \A l \in Layer : \A x \in Node : \A y \in adj[l][x] :
          (level[x] >= l \/ x = entry) /\ (level[y] >= l \/ y = entry)
    BY DEF IInv, EdgesWithin, Ends
  <2> QED
    BY <2>1 DEF IInv, EntryStandsIn
<1> QED
  BY <1>1, Invariant, PTL

\* prune_high_degree leaves no node but a hub with more than M edges, unless they all
\* lead to hubs.
THEOREM LastPassTrims == Spec => []OthersAreTrimmed
<1>1. IInv => OthersAreTrimmed
  BY DEF IInv
<1> QED
  BY <1>1, Invariant, PTL

\* prune_high_degree caps what it has trimmed once more, which could drop edges to
\* hubs; it never does, because the insertions have kept the lists within that cap.
THEOREM HubsStayReachable == Spec => OnRampsKept
<1>1. IInv /\ [Next]_vars =>
        [phase' = "built" =>
           \A x \in Node : /\ adj[0][x] \cap hubs' \subseteq adj'[0][x]
                           /\ x \in hubs' => adj'[0][x] = adj[0][x]]_vars
  <2> SUFFICES ASSUME IInv, Next, phase' = "built", NEW x \in Node
               PROVE  /\ adj[0][x] \cap hubs' \subseteq adj'[0][x]
                      /\ x \in hubs' => adj'[0][x] = adj[0][x]
    OBVIOUS
  <2>1. PICK count \in 0 .. Cardinality(Node) : PruneHighDegree(count)
    BY DEF Next, Draw, Descend, Link, IInv, Typed
  <2>2. adj'[0][x] = IF x \in hubs' \/ Cardinality(adj[0][x]) <= M
                       THEN adj[0][x] ELSE Trimmed(x, hubs')
    BY <2>1, ConstantsFit DEF PruneHighDegree, IInv, Typed, Layer
  <2>3. /\ adj[0][x] \in SUBSET Node /\ metric[x] \in [Node -> Int]
        /\ Cardinality(adj[0][x]) \in Nat /\ Cardinality(adj[0][x]) <= MMax
    BY SubsetsAreFinite, ConstantsFit DEF IInv, Typed, DegreesAreCapped, CapForLayer, Layer
  <2>4. Cardinality(adj[0][x]) > M => adj[0][x] \cap hubs' \subseteq Trimmed(x, hubs')
    BY <2>3, TrimmedFits
  <2> QED
    BY <2>2, <2>3, <2>4, ConstantsFit
<1> QED
  BY <1>1, Invariant, PTL DEF Spec, OnRampsKept

-----------------------------------------------------------------------------
(* The promise of the whole build.                                         *)

\* The layers are those of the highest level drawn so far, and a node not yet drawn
\* has the level of the first.
Risen == /\ entry # NoNode => entry = 0
         /\ \A x \in Node : level[x] <= maxLayer
         /\ \E x \in Node : level[x] = maxLayer
         /\ \A x \in Node : x > node \/ (x = node /\ phase = "idle") => level[x] = 0
         /\ phase = "built" => node \notin Node

NoSelfLinks == \A l \in Layer : \A x \in Node : x \notin adj[l][x]

LEMMA RisenInit == Init => Risen /\ NoSelfLinks
<1>1. 0 \in Node
  BY ConstantsFit
<1> QED
  BY <1>1 DEF Init, Risen, NoSelfLinks

LEMMA RisenDraw == ASSUME IInv, Risen, NEW l \in Layer, Draw(l) PROVE Risen'
<1>1. /\ phase = "idle" /\ node \in Node /\ node \in Nat /\ l \in Nat
      /\ level \in [Node -> Layer] /\ maxLayer \in Nat
      /\ \A x \in Node : level'[x] = IF x = node THEN l ELSE level[x]
      /\ maxLayer' = IF l > maxLayer THEN l ELSE maxLayer
      /\ \A x \in Node : x \in Nat /\ level[x] \in Nat
      /\ level[node] = 0
  BY ConstantsFit DEF IInv, Typed, Draw, Risen, Layer
<1>2. \A x \in Node : level'[x] <= maxLayer'
  <2> SUFFICES ASSUME NEW x \in Node PROVE level'[x] <= maxLayer'
    OBVIOUS
  <2>1. level[x] <= maxLayer /\ level[x] \in Nat
    BY <1>1 DEF Risen
  <2>2. level'[x] = IF x = node THEN l ELSE level[x]
    BY <1>1
  <2> QED
    BY <1>1, <2>1, <2>2
<1>3. \E x \in Node : level'[x] = maxLayer'
  <2>1. CASE l > maxLayer
    BY <1>1, <2>1
  <2>2. CASE ~ (l > maxLayer)
    <3>1. PICK w \in Node : level[w] = maxLayer
      BY DEF Risen
    <3>2. CASE w = node
      BY <1>1, <2>2, <3>1, <3>2
    <3>3. CASE w # node
      BY <1>1, <2>2, <3>1, <3>3
    <3> QED
      BY <3>2, <3>3
  <2> QED
    BY <2>1, <2>2
<1>4. entry' # NoNode => entry' = 0
  <2>1. entry = NoNode => node = 0
    BY <1>1, ConstantsFit DEF IInv, Typed, Old
  <2> QED
    BY <2>1 DEF Draw, Risen
<1>5. \A x \in Node : x > node' \/ (x = node' /\ phase' = "idle") => level'[x] = 0
  <2> SUFFICES ASSUME NEW x \in Node, x > node' \/ (x = node' /\ phase' = "idle")
               PROVE  level'[x] = 0
    OBVIOUS
  <2>1. x \in Nat /\ (node' = node + 1 \/ (node' = node /\ phase' # "idle"))
    BY <1>1 DEF Draw
  <2>2. x > node
    <3>1. CASE node' = node + 1
      BY <1>1, <2>1, <3>1
    <3>2. CASE node' = node /\ phase' # "idle"
      BY <3>2
    <3> QED
      BY <2>1, <3>1, <3>2
  <2>3. x # node
    BY <1>1, <2>1, <2>2
  <2>4. level[x] = 0
    BY <2>2 DEF Risen
  <2> QED
    BY <1>1, <2>3, <2>4
<1>6. phase' # "built"
  BY <1>1 DEF Draw
<1> QED
  BY <1>2, <1>3, <1>4, <1>5, <1>6 DEF Risen

LEMMA RisenLink == ASSUME IInv, Risen, NoSelfLinks, Link PROVE Risen' /\ NoSelfLinks'
<1>1. /\ layer \in Layer /\ node \in Node /\ node \in Nat /\ phase = "linking"
      /\ adj \in [Layer -> [Node -> SUBSET Node]]
      /\ UNCHANGED <<metric, level, entry, maxLayer>>
      /\ (node' = node /\ phase' = "linking") \/ (node' = node + 1 /\ phase' = "idle")
      /\ \A x \in Node : x \in Nat
      /\ \A x \in Node : metric[x] \in [Node -> Int]
  BY ConstantsFit DEF IInv, Typed, Placed, Link
<1>2. Risen'
  <2>1. \A x \in Node : x > node' \/ (x = node' /\ phase' = "idle") => level'[x] = 0
    <3> SUFFICES ASSUME NEW x \in Node, x > node' \/ (x = node' /\ phase' = "idle")
                 PROVE  level[x] = 0
      BY <1>1
    <3>1. x > node
      <4>1. x \in Nat
        BY <1>1
      <4>2. CASE node' = node /\ phase' = "linking"
        BY <4>2
      <4>3. CASE node' = node + 1
        BY <1>1, <4>1, <4>3
      <4> QED
        BY <1>1, <4>2, <4>3
    <3> QED
      BY <3>1 DEF Risen
  <2> QED
    BY <1>1, <2>1 DEF Risen
<1>3. PICK candidates \in SUBSET Node :
        adj' = [adj EXCEPT ![layer] =
                  Linked(Closest(candidates, CapForLayer(layer), metric[node]), layer)]
  BY DEF Link
<1> DEFINE selected == Closest(candidates, CapForLayer(layer), metric[node])
<1>4. selected \subseteq candidates
  BY DEF Closest
<1> HIDE DEF selected
<1>5. \A x \in Node : x \notin Linked(selected, layer)[x]
  <2> SUFFICES ASSUME NEW x \in Node PROVE x \notin Linked(selected, layer)[x]
    OBVIOUS
  <2>1. CASE x = node
    <3>1. Linked(selected, layer)[node] = adj[layer][node] \cup (selected \ {node})
      BY <1>1 DEF Linked
    <3>2. node \notin adj[layer][node]
      BY <1>1 DEF NoSelfLinks
    <3> QED
      BY <2>1, <3>1, <3>2
  <2>2. CASE x # node /\ x \in selected
    <3>1. Linked(selected, layer)[x] = Pruned(x, adj[layer][x] \cup {node}, layer)
      BY <1>1, <2>2 DEF Linked
    <3>2. Pruned(x, adj[layer][x] \cup {node}, layer) \subseteq adj[layer][x] \cup {node}
      BY DEF Pruned, Closest
    <3> QED
      BY <1>1, <2>2, <3>1, <3>2 DEF NoSelfLinks
  <2>3. CASE x # node /\ x \notin selected
    <3>1. Linked(selected, layer)[x] = adj[layer][x]
      BY <2>3 DEF Linked
    <3> QED
      BY <1>1, <3>1 DEF NoSelfLinks
  <2> QED
    BY <2>1, <2>2, <2>3
<1>6. \A l \in Layer : l # layer => adj'[l] = adj[l]
  BY <1>1, <1>3
<1>7. adj'[layer] = Linked(selected, layer)
  BY <1>1, <1>3 DEF selected
<1>8. NoSelfLinks'
  BY <1>5, <1>6, <1>7 DEF NoSelfLinks
<1> QED
  BY <1>2, <1>8

LEMMA RisenPrune ==
  ASSUME IInv, Risen, NoSelfLinks, NEW count, PruneHighDegree(count)
  PROVE  Risen' /\ NoSelfLinks'
<1>1. /\ UNCHANGED <<level, entry, maxLayer, node>> /\ node \notin Node
      /\ node \in Nat /\ 0 \in Layer /\ phase' = "built"
      /\ adj \in [Layer -> [Node -> SUBSET Node]]
      /\ \A l \in Layer \ {0} : adj'[l] = adj[l]
      /\ \A x \in Node : adj'[0][x] = IF x \in hubs' \/ Cardinality(adj[0][x]) <= M
                                        THEN adj[0][x] ELSE Trimmed(x, hubs')
  BY ConstantsFit DEF IInv, Typed, PruneHighDegree, Layer
<1>2. \A x \in Node : x \in Nat
  BY ConstantsFit
<1>3. Risen'
  BY <1>1, <1>2 DEF Risen
<1>4. \A x \in Node : Trimmed(x, hubs') \subseteq adj[0][x]
  BY DEF Trimmed, Closest
<1>5. \A x \in Node : x \notin adj'[0][x]
  BY <1>1, <1>4 DEF NoSelfLinks
<1>6. NoSelfLinks'
  BY <1>1, <1>5 DEF NoSelfLinks
<1> QED
  BY <1>3, <1>6

LEMMA RisenStep == IInv /\ Risen /\ NoSelfLinks /\ [Next]_vars => Risen' /\ NoSelfLinks'
<1> SUFFICES ASSUME IInv, Risen, NoSelfLinks, [Next]_vars PROVE Risen' /\ NoSelfLinks'
  OBVIOUS
<1>1. ASSUME NEW l \in Layer, Draw(l) PROVE Risen' /\ NoSelfLinks'
  <2>1. NoSelfLinks'
    BY <1>1 DEF Draw, NoSelfLinks
  <2> QED
    BY <1>1, <2>1, RisenDraw
<1>2. CASE Descend
  <2>1. UNCHANGED <<adj, level, entry, maxLayer, node>> /\ phase' \notin {"idle", "built"}
    BY <1>2 DEF Descend, graph
  <2> QED
    BY <2>1 DEF Risen, NoSelfLinks
<1>3. CASE Link
  BY <1>3, RisenLink
<1>4. CASE \E count \in 0 .. Cardinality(Node) : PruneHighDegree(count)
  BY <1>4, RisenPrune
<1>5. CASE UNCHANGED vars
  BY <1>5 DEF vars, graph, Risen, NoSelfLinks
<1> QED
  BY <1>1, <1>2, <1>3, <1>4, <1>5 DEF Next

\* All of it is a finished build's promise.
LEMMA PromiseFollows == IInv /\ Risen /\ NoSelfLinks => BuildKeepsPromise
<1> SUFFICES ASSUME IInv, Risen, NoSelfLinks, phase = "built"
             PROVE  Built(Node, 0, [level |-> level, top |-> maxLayer,
                            adj |-> [l \in 0 .. maxLayer |-> adj[l]]], M, MMax)
  BY DEF BuildKeepsPromise
<1> DEFINE g == [level |-> level, top |-> maxLayer, adj |-> [l \in 0 .. maxLayer |-> adj[l]]]
<1>1. /\ maxLayer \in Nat /\ 0 .. maxLayer \subseteq Layer
      /\ adj \in [Layer -> [Node -> SUBSET Node]]
      /\ level \in [Node -> Layer]
      /\ \A x \in Node : level[x] \in 0 .. maxLayer /\ x \in Nat
  BY ConstantsFit DEF IInv, Typed, Risen, Layer
<1>2. g.level = level /\ g.top = maxLayer /\ \A l \in 0 .. maxLayer : g.adj[l] = adj[l]
  OBVIOUS
<1>3. DOMAIN level = Node /\ g.adj = [l \in 0 .. maxLayer |-> adj[l]]
  BY <1>1
<1> HIDE DEF g
<1>4. Layered(Node, g)
  <2>1. level \in [Node -> 0 .. maxLayer]
    BY <1>1
  <2>2. [l \in 0 .. maxLayer |-> adj[l]] \in [0 .. maxLayer -> [Node -> SUBSET Node]]
    BY <1>1
  <2> QED
    BY <1>1, <1>2, <1>3, <2>1, <2>2 DEF Layered, Risen
<1>5. Capped(Node, g, M, MMax)
  BY <1>1, <1>2 DEF Capped, IInv, DegreesAreCapped, CapForLayer
<1>6. /\ \A x \in Node : x \in Old
      /\ entry = 0 /\ entry \in Node
      /\ \A x \in Node \ {0} : x \in 1 .. node - 1
  <2>1. node = Cardinality(Node) /\ node \in Nat /\ node > 0
    BY ConstantsFit DEF IInv, Typed, Risen
  <2>2. Old = Node /\ entry \in Old
    BY <2>1, ConstantsFit DEF Old, IInv, Typed
  <2>3. entry = 0
    BY <2>2, ConstantsFit DEF Risen
  <2> QED
    BY <2>1, <2>2, <2>3, ConstantsFit DEF Old
<1>7. LinksInLayer(Node, 0, g)
  <2> SUFFICES ASSUME NEW l \in 0 .. maxLayer, NEW x \in Node, NEW y \in adj[l][x]
               PROVE  x # y /\ {x, y} \subseteq Linkable(Node, 0, g, l)
    BY <1>2 DEF LinksInLayer
  <2>1. l \in Layer /\ y \in Node
    BY <1>1
  <2>2. x \in Ends(l) /\ y \in Ends(l)
    BY <2>1 DEF IInv, EdgesWithin
  <2>3. (level[x] >= l \/ x = 0) /\ (level[y] >= l \/ y = 0)
    BY <1>6, <2>2 DEF Ends
  <2>4. x # y
    BY <2>1 DEF NoSelfLinks
  <2> QED
    BY <1>2, <2>1, <2>3, <2>4 DEF Linkable
<1>8. WaysOut(Node, 0, g)
  <2> SUFFICES ASSUME NEW x \in Node \ {0}, NEW l \in 0 .. level[x]
               PROVE  g.adj[l][x] # {}
    BY <1>2 DEF WaysOut
  <2>1. l \in 0 .. maxLayer
    BY <1>1
  <2>2. adj[l][x] # {}
    BY <1>6 DEF IInv, NobodyIsStranded
  <2> QED
    BY <1>2, <2>1, <2>2
<1>9. LeavesFirst(Node, 0, g)
  BY <1>1, <1>2, <1>6 DEF LeavesFirst, IInv, EntryLeadsOn
<1> QED
  BY <1>4, <1>5, <1>7, <1>8, <1>9 DEF Built, g

\* build_resident: whatever levels are drawn and whatever local optima the searches
\* return, the graph that it leaves is one that its callers can rest on.
THEOREM BuildsAsPromised == Spec => []BuildKeepsPromise
<1>1. Spec => [](Risen /\ NoSelfLinks)
  <2>1. Init => Risen /\ NoSelfLinks
    BY RisenInit
  <2>2. IInv /\ (Risen /\ NoSelfLinks) /\ [Next]_vars => (Risen /\ NoSelfLinks)'
    BY RisenStep
  <2> QED
    BY <2>1, <2>2, Invariant, PTL DEF Spec
<1>2. IInv /\ (Risen /\ NoSelfLinks) => BuildKeepsPromise
  BY PromiseFollows
<1> QED
  BY <1>1, <1>2, Invariant, PTL
=============================================================================
