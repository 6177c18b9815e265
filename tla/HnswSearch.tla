----------------------------- MODULE HnswSearch -----------------------------
(***************************************************************************)
(* HnswIndex::search, from the entry point to the k neighbors returned: a   *)
(* greedy descent with a beam of one through the upper layers, the          *)
(* best-first search of layer 0 (BeamSearch) from where the descent ended,  *)
(* and the collector that keeps the best k (TopK, here by its result).      *)
(***************************************************************************)
EXTENDS BeamSearch, Sequences

CONSTANTS UpperGraphs,   \* adjacency[1 .. max_layer], a sequence of graphs
          EntryPoints,   \* entry_point, or None for an empty index
          EfSearches,    \* config.ef_search
          Ks             \* config.k

ASSUME QueryAssumption ==
  /\ IsFiniteSet(Node)
  /\ UpperGraphs \subseteq Seq([Node -> SUBSET Node])
  /\ EntryPoints \subseteq Node \cup {None}
  /\ EfSearches \subseteq Nat /\ Ks \subseteq Nat

VARIABLES upper,         \* adjacency lists of the layers above 0
          entry,         \* entry_point
          efSearch, k,   \* the query's configuration
          steer,         \* the distances the descent compares: search reads the
                         \* exact ones, search_hybrid (HybridSearch) estimates them
          phase,         \* "enter", "descend", "layer0", "returned" or "error"
          layer,         \* the layer the descent is on
          current,       \* the closest node found so far
          walk,          \* neighbors of the sweep not looked at yet
          improved,      \* current moved during this sweep
          answer         \* the neighbors returned

query == <<adj, dist, upper, entry, efSearch, k, steer>>
beam == <<ef, entries, todo, visited, frontier, results, cand, pc>>
descent == <<layer, current, walk, improved>>
allVars == <<query, beam, descent, evals, phase, answer>>

Largest(S) == CHOOSE x \in S : \A y \in S : y =< x

SearchInit ==
  /\ adj \in Graphs /\ dist \in Distances /\ upper \in UpperGraphs
  /\ entry \in EntryPoints
  /\ efSearch \in EfSearches /\ k \in Ks
  /\ steer = dist
  /\ phase = "enter"
  /\ layer = Len(upper) /\ current = None /\ walk = {} /\ improved = FALSE
  /\ answer = {}
  /\ ef = 0 /\ entries = {} /\ todo = {} /\ visited = {} /\ frontier = {}
  /\ results = {} /\ cand = None /\ pc = "loop" /\ evals = 0

\* let Some(entry) = self.entry_point else: an empty graph has no neighbors.
EmptyGraph == /\ phase = "enter"
              /\ entry = None
              /\ phase' = "returned"
              /\ UNCHANGED <<query, beam, descent, evals, answer>>

\* The distance of the entry point; `improved = true` opens the first sweep.
Enter == /\ phase = "enter"
         /\ entry # None
         /\ current' = entry
         /\ evals' = evals + 1
         /\ phase' = "descend"
         /\ improved' = TRUE
         /\ UNCHANGED <<query, beam, layer, walk, answer>>

\* The slip of not resetting `improved` when a sweep begins.
SweepWithoutReset == /\ phase = "descend" /\ layer > 0 /\ improved /\ walk = {}
                     /\ walk' = upper[layer][current]
                     /\ UNCHANGED <<query, beam, layer, current, improved, evals, phase,
                                    answer>>

\* while improved: a sweep walks the list `current` has when it begins, even if
\* `current` moves during the sweep.
Sweep == /\ phase = "descend" /\ layer > 0 /\ improved /\ walk = {}
         /\ improved' = FALSE
         /\ walk' = upper[layer][current]
         /\ UNCHANGED <<query, beam, layer, current, evals, phase, answer>>

\* One neighbor of the sweep: a strict improvement moves `current`.
Look(n) ==
  /\ phase = "descend" /\ n \in walk
  /\ walk' = walk \ {n}
  /\ evals' = evals + 1
  /\ IF steer[n] < steer[current]
       THEN current' = n /\ improved' = TRUE
       ELSE UNCHANGED <<current, improved>>
  /\ UNCHANGED <<query, beam, layer, phase, answer>>

\* The slip of leaving a layer whenever the list is walked.
DescendAlways == /\ phase = "descend" /\ walk = {}
                 /\ layer' = layer - 1
                 /\ improved' = TRUE
                 /\ UNCHANGED <<query, beam, current, walk, evals, phase, answer>>

\* A sweep without improvement ends the layer.
Descend == /\ phase = "descend" /\ layer > 0 /\ walk = {} /\ ~ improved
           /\ layer' = layer - 1
           /\ improved' = TRUE
           /\ UNCHANGED <<query, beam, current, walk, evals, phase, answer>>

\* The slip of ignoring k in the beam width.
BeamWidthWithoutK == Largest({efSearch, 1})

\* ef = config.ef_search.max(config.k).max(1)
BeamWidth == Largest({efSearch, k, 1})

\* The call of search_layer_disk on the node the descent ended at.
EnterLayer0 == /\ phase = "descend" /\ layer = 0
               /\ phase' = "layer0"
               /\ ef' = BeamWidth
               /\ entries' = {current}
               /\ todo' = entries'
               /\ UNCHANGED <<query, descent, evals, answer, visited, frontier,
                              results, cand, pc>>

SearchLayer0 == /\ phase = "layer0"
                /\ Next
                /\ UNCHANGED <<upper, entry, efSearch, k, steer, phase, answer, descent>>

\* The best k of a set, ties by id: what TopK makes of any stream of it.
BestK(S) == {n \in S : Cardinality({m \in S : Closer(m, n)}) < k}

\* Collect the best k of the beam.
Return == /\ phase = "layer0" /\ pc = "done"
          /\ phase' = "returned"
          /\ answer' = BestK(results)
          /\ UNCHANGED <<query, beam, descent, evals>>

\* A failed read of the entry point, of a swept neighbor, or in layer 0.
Error == /\ \/ phase = "enter" /\ entry # None
            \/ phase = "descend" /\ walk # {}
            \/ phase = "layer0" /\ pc = "failed"
         /\ phase' = "error"
         /\ UNCHANGED <<query, beam, descent, evals, answer>>

SearchNext == \/ EmptyGraph \/ Enter \/ Sweep \/ Descend \/ EnterLayer0
              \/ \E n \in Node : Look(n)
              \/ SearchLayer0 \/ Return \/ Error

SearchFairness == WF_allVars(SearchNext)

SearchSpec == SearchInit /\ [][SearchNext]_allVars
SearchFairSpec == SearchSpec /\ SearchFairness

-----------------------------------------------------------------------------
\* A layer is left only at one of its local minima: no neighbor there of the
\* node handed down is closer, though the node moved while lists were walked.
LeavesAtLocalMinimum ==
  [][layer' < layer /\ layer > 0 =>
       \A n \in upper[layer][current] : steer[current] =< steer[n]]_allVars

\* The answer has k neighbors unless fewer can be reached in layer 0 from the
\* node the descent ended at, however ef_search and k compare.
AnswerIsFull ==
  phase = "returned" /\ entry # None =>
    LET reachable == Promise!Reach(adj, {current})
    IN Cardinality(answer) = IF Cardinality(reachable) < k
                               THEN Cardinality(reachable) ELSE k

\* No neighbor of an answer is skipped for a farther one: a node one hop from the
\* answer that is not in it is no closer than the answer's farthest.
AnswerIsLocallyBest ==
  phase = "returned" =>
    \A q \in answer, r \in answer : \A n \in adj[q] \ answer : dist[r] =< dist[n]

\* Every query is answered or reports an error.
SearchReturns == <>(phase \in {"returned", "error"})
=============================================================================
