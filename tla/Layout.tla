------------------------------- MODULE Layout -------------------------------
(***************************************************************************)
(* Graph-aware layout (slate-graph/src/hnsw.rs): layout_order sweeps layer  *)
(* 0 breadth first, write_reordered_store writes the vectors in that order, *)
(* and relabel renames the nodes of the index to match.  The index comes    *)
(* from build or build_sharded (ShardedBuild); the order may also be given  *)
(* by the caller.                                                          *)
(***************************************************************************)
EXTENDS ShardedBuild

CONSTANT CallerOrders    \* orders a caller may pass, permutations or not

VARIABLES order,         \* order[new] = old
          queue,         \* BFS queue
          visited,
          rewritten,     \* the new store
          renamed        \* the relabeled index: [adjacency, levels, entry, codes]

layoutVars == <<order, queue, visited, rewritten, renamed>>
vars == <<kmeansVars, shardVars, graph, phase, layoutVars>>

Init == /\ ShardInit
        /\ order = << >> /\ queue = << >> /\ visited = {}
        /\ rewritten = << >> /\ renamed = << >>

Build == ShardNext /\ UNCHANGED layoutVars

StartOrder == /\ phase = "built"
              /\ phase' = "order"
              /\ UNCHANGED <<kmeansVars, shardVars, graph, layoutVars>>

CallerOrder(o) == /\ phase = "built"
                  /\ order' = o
                  /\ phase' = "ordered"
                  /\ UNCHANGED <<kmeansVars, shardVars, graph, queue, visited, rewritten, renamed>>

\* A slip: the ids in falling order.
NextRootFalling == IF entry # None /\ entry \notin visited THEN entry
                   ELSE CHOOSE n \in Node \ visited : \A m \in Node \ visited : m =< n

\* The roots: the entry point, then the ids in order.
NextRoot == IF entry # None /\ entry \notin visited THEN entry
            ELSE CHOOSE n \in Node \ visited : \A m \in Node \ visited : n =< m

Root == /\ phase = "order" /\ queue = << >> /\ visited # Node
        /\ queue' = <<NextRoot>>
        /\ visited' = visited \cup {NextRoot}
        /\ UNCHANGED <<kmeansVars, shardVars, graph, phase, order, rewritten, renamed>>

\* Neighbors are queued by degree, then id.
ByDegree(S) ==
  LET Degree(n) == Cardinality(adjacency[1][n])
      Before(a, b) == Degree(a) < Degree(b) \/ (Degree(a) = Degree(b) /\ a < b)
      Place(n) == Cardinality({m \in S : Before(m, n)}) + 1
  IN [p \in 1 .. Cardinality(S) |-> CHOOSE n \in S : Place(n) = p]

\* A slip: a stack in place of the queue.
ExpandDepthFirst ==
  /\ phase = "order" /\ queue # << >>
  /\ LET fresh == adjacency[1][Head(queue)] \ visited
     IN /\ order' = Append(order, Head(queue))
        /\ queue' = ByDegree(fresh) \o Tail(queue)
        /\ visited' = visited \cup fresh
  /\ UNCHANGED <<kmeansVars, shardVars, graph, phase, rewritten, renamed>>

Expand ==
  /\ phase = "order" /\ queue # << >>
  /\ LET fresh == adjacency[1][Head(queue)] \ visited
     IN /\ order' = Append(order, Head(queue))
        /\ queue' = Tail(queue) \o ByDegree(fresh)
        /\ visited' = visited \cup fresh
  /\ UNCHANGED <<kmeansVars, shardVars, graph, phase, rewritten, renamed>>

Ordered == /\ phase = "order" /\ queue = << >> /\ visited = Node
           /\ phase' = "ordered"
           /\ UNCHANGED <<kmeansVars, shardVars, graph, layoutVars>>

\* Both halves refuse an order that is too short, out of range, or repeats an id.
IsPermutation(o) == /\ Len(o) = Len(corpus)
                    /\ \A a \in Indices(o) : o[a] \in Node
                    /\ \A a, b \in Indices(o) : a # b => o[a] # o[b]

\* write_reordered_store
WriteReordered == /\ phase = "ordered" /\ IsPermutation(order)
                  /\ rewritten' = [new \in Indices(order) |-> corpus[order[new]]]
                  /\ phase' = "rewritten"
                  /\ UNCHANGED <<kmeansVars, shardVars, graph, order, queue, visited, renamed>>

\* The new file has no header then and cannot be opened.
RefuseOrder == /\ phase = "ordered" /\ ~ IsPermutation(order)
               /\ phase' = "refused"
               /\ UNCHANGED <<kmeansVars, shardVars, graph, layoutVars>>

\* A slip: the order is applied where its inverse is due.
PositionForward(old) == order[old]

\* pos[old] = new
Position(old) == CHOOSE new \in Indices(order) : order[new] = old

\* relabel
Relabel ==
  /\ phase = "rewritten"
  /\ renamed' =
       [adjacency |-> [h \in Indices(adjacency) |-> [new \in Node |->
                         UNION {{Position(w) : w \in adjacency[h][old]} :
                                old \in {o \in Node : Position(o) = new}}]],
        levels |-> [new \in Node |-> levels[CHOOSE old \in Node : Position(old) = new]],
        entry  |-> IF entry = None THEN None ELSE Position(entry),
        codes  |-> [new \in Indices(codes) |-> codes[CHOOSE old \in Node : Position(old) = new]]]
  /\ phase' = "laid out"
  /\ UNCHANGED <<kmeansVars, shardVars, graph, order, queue, visited, rewritten>>

Next == \/ Build \/ StartOrder \/ Root \/ Expand \/ Ordered
        \/ \E o \in CallerOrders : CallerOrder(o)
        \/ WriteReordered \/ RefuseOrder \/ Relabel

Spec == Init /\ [][Next]_vars

-----------------------------------------------------------------------------
(* Properties.                                                             *)

\* Nodes at most d links from the entry point.
Ball == LET b[d \in 0 .. Len(corpus)] ==
              IF d = 0 THEN {entry} \cap Node
              ELSE b[d - 1] \cup UNION {adjacency[1][n] : n \in b[d - 1]}
        IN b

\* The order is a permutation however the graph falls apart, and follows the links from
\* the entry point: a node never comes before one that fewer links lead to, and what no
\* path leads to comes last.
OrderIsBreadthFirst ==
  phase = "order" /\ visited = Node /\ queue = << >> =>
    /\ IsPermutation(order)
    /\ \A a, b \in Indices(order) : \A d \in 0 .. Len(corpus) :
         a < b /\ order[b] \in Ball[d] => order[a] \in Ball[d]

\* What no path from the entry point leads to follows by id, island by island: a node
\* that no earlier one links has a lower id than all that come after it.
IslandsComeById ==
  phase = "order" /\ visited = Node /\ queue = << >> =>
    \A a, b \in Indices(order) :
      /\ 1 < a /\ a < b
      /\ \A c \in 1 .. a - 1 : order[a] \notin adjacency[1][order[c]]
      => order[a] < order[b]

\* The index as what it says of vectors, without ids.
Meaning(store, g) ==
  [links |-> [h \in Indices(g.adjacency) |->
                {<<store[e[1]], store[e[2]]>> :
                   e \in {l \in (DOMAIN g.levels) \X (DOMAIN g.levels) : l[2] \in g.adjacency[h][l[1]]}}],
   levels |-> {<<store[n], g.levels[n]>> : n \in DOMAIN g.levels},
   entry  |-> IF g.entry = None THEN None ELSE store[g.entry],
   codes  |-> {<<store[n], g.codes[n]>> : n \in DOMAIN g.codes}]

\* The relabeled index says of the rewritten store what the index said of the store:
\* links, levels, entry point and codes still belong to the vectors they belonged to.
\* (Vectors of an instance are distinct.)
RelabelIsRenaming ==
  phase = "laid out" =>
    Meaning(rewritten, renamed) =
      Meaning(corpus, [adjacency |-> adjacency, levels |-> levels,
                       entry |-> entry, codes |-> codes])
=============================================================================
