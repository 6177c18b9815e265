----------------------------- MODULE BeamSearch -----------------------------
(***************************************************************************)
(* The best-first search of one HNSW layer: HnswIndex::search_layer, which  *)
(* construction runs over vectors in RAM from several entry points, and     *)
(* search_layer_disk, which a query runs over the store from one.  The two  *)
(* bodies are the same loop; they differ in where a distance comes from and *)
(* in what can fail.                                                        *)
(*                                                                         *)
(* One step is one distance evaluation or one turn of the outer loop.  The  *)
(* order in which an adjacency list or the list of entry points is walked   *)
(* is left open, so what is shown holds for every order.                    *)
(***************************************************************************)
EXTENDS Integers, FiniteSets

CONSTANTS Node,         \* node ids of the layer
          Graphs,       \* adjacency lists, as sets of out-neighbors
          Distances,    \* distance of each node to the query
          Efs,          \* beam widths
          EntrySets,    \* the nodes a search may start from
          None          \* no node is being expanded

ASSUME SearchAssumption ==
  /\ Node \subseteq Nat
  /\ Graphs \subseteq [Node -> SUBSET Node]
  /\ Distances \subseteq [Node -> Int]
  /\ Efs \subseteq Nat \ {0}
  /\ \A S \in EntrySets : S \subseteq Node
  /\ None \notin Node

VARIABLES adj,        \* adjacency[layer], frozen during a search
          dist,       \* distance of each node to the query
          ef,         \* beam width
          entries,    \* entry points given by the caller
          todo,       \* entry points not seeded yet
          visited,    \* nodes marked visited
          frontier,   \* min-heap of candidates
          results,    \* max-heap of at most ef results
          cand,       \* the candidate whose neighbors are being walked
          pc,         \* "loop", "expand", "done" or "failed"
          evals       \* distances computed (nodes_visited, exact, seeks)

question == <<adj, dist, ef, entries>>
vars == <<adj, dist, ef, entries, todo, visited, frontier, results, cand, pc, evals>>

\* Both heaps order by (score, node); Candidate inverts the order.
Closer(a, b) == dist[a] < dist[b] \/ (dist[a] = dist[b] /\ a < b)
Nearest(S)  == {n \in S : \A m \in S \ {n} : Closer(n, m)}
Farthest(S) == {n \in S : \A m \in S \ {n} : Closer(m, n)}

Init == /\ adj \in Graphs
        /\ dist \in Distances
        /\ ef \in Efs
        /\ entries \in EntrySets
        /\ todo = entries
        /\ visited = {}
        /\ frontier = {}
        /\ results = {}
        /\ cand = None
        /\ pc = "loop"
        /\ evals = 0

\* results.push, then results.pop if that made more than ef.
Push(n) ==
  IF Cardinality(results \cup {n}) > ef
    THEN \E w \in Farthest(results \cup {n}) : results' = (results \cup {n}) \ {w}
    ELSE results' = results \cup {n}

\* The slip of marking a node visited only once it is expanded.
VisitUnmarked(n) == /\ visited' = visited
                    /\ evals' = evals + 1

\* Mark n visited and compute its distance.
Visit(n) == /\ visited' = visited \cup {n}
            /\ evals' = evals + 1

\* An entry point enters both heaps, whatever its distance.
Seed(e) == /\ pc = "loop"
           /\ e \in todo
           /\ todo' = todo \ {e}
           /\ Visit(e)
           /\ frontier' = frontier \cup {e}
           /\ Push(e)
           /\ UNCHANGED <<question, cand, pc>>

\* The slip of comparing with any result, not with the worst.
CannotImproveSome(c) == /\ Cardinality(results) >= ef
                        /\ \E w \in results : dist[c] > dist[w]

\* results.len() >= ef and the popped candidate is worse than the worst result.
CannotImprove(c) == /\ Cardinality(results) >= ef
                    /\ \E w \in Farthest(results) : dist[c] > dist[w]

\* The slip of reading the top of the frontier without removing it.
PopByPeeking(c) == /\ pc = "loop"
                   /\ todo = {}
                   /\ c \in Nearest(frontier)
                   /\ frontier' = frontier
                   /\ IF CannotImprove(c)
                        THEN pc' = "done" /\ cand' = None
                        ELSE pc' = "expand" /\ cand' = c
                   /\ UNCHANGED <<question, todo, visited, results, evals>>

\* frontier.pop() and the test that may end the loop.
Pop(c) == /\ pc = "loop"
          /\ todo = {}
          /\ c \in Nearest(frontier)
          /\ frontier' = frontier \ {c}
          /\ IF CannotImprove(c)
               THEN pc' = "done" /\ cand' = None
               ELSE pc' = "expand" /\ cand' = c
          /\ UNCHANGED <<question, todo, visited, results, evals>>

\* while let Some(cand) = frontier.pop() ends on an empty frontier.
Exhaust == /\ pc = "loop"
           /\ todo = {}
           /\ frontier = {}
           /\ pc' = "done"
           /\ UNCHANGED <<question, todo, visited, frontier, results, cand, evals>>

\* results.len() < ef || worst_score.is_none_or(|w| d < w)
Accepts(n) == \/ Cardinality(results) < ef
              \/ \A w \in Farthest(results) : dist[n] < dist[w]

\* One neighbor of the candidate that was not visited yet.
Consider(n) == /\ pc = "expand"
               /\ n \in adj[cand] \ visited
               /\ Visit(n)
               /\ IF Accepts(n)
                    THEN frontier' = frontier \cup {n} /\ Push(n)
                    ELSE UNCHANGED <<frontier, results>>
               /\ UNCHANGED <<question, todo, cand, pc>>

\* The slip of leaving the walk (break) at a visited neighbor, not skipping it.
ExpandedAtVisited == /\ pc = "expand"
                     /\ adj[cand] \cap visited # {} \/ adj[cand] = {}
                     /\ pc' = "loop"
                     /\ cand' = None
                     /\ UNCHANGED <<question, todo, visited, frontier, results, evals>>

\* The walk of the adjacency list is over.
Expanded == /\ pc = "expand"
            /\ adj[cand] \subseteq visited
            /\ pc' = "loop"
            /\ cand' = None
            /\ UNCHANGED <<question, todo, visited, frontier, results, evals>>

\* dist_disk(..)? on a node already marked visited: the search returns the error.
ReadError(n) == /\ \/ pc = "loop" /\ n \in todo
                   \/ pc = "expand" /\ n \in adj[cand] \ visited
                /\ visited' = visited \cup {n}
                /\ pc' = "failed"
                /\ UNCHANGED <<question, todo, frontier, results, cand, evals>>

Next == \/ \E n \in Node : Seed(n) \/ Pop(n) \/ Consider(n) \/ ReadError(n)
        \/ Exhaust
        \/ Expanded

\* The search is a loop of one thread: it runs until it returns.
Fairness == WF_vars(Next)

Spec == Init /\ [][Next]_vars
FairSpec == Spec /\ Fairness

-----------------------------------------------------------------------------
(* What the search promises, and how its states map to that promise.        *)

Promise == INSTANCE LayerSearch WITH
             status <- CASE pc = "done"   -> "answered"
                         [] pc = "failed" -> "failed"
                         [] OTHER         -> "searching",
             answer <- IF pc = "done" THEN results ELSE {}

TypeOK == /\ adj \in Graphs
          /\ dist \in Distances
          /\ ef \in Efs
          /\ entries \in EntrySets
          /\ todo \subseteq entries
          /\ visited \subseteq Node
          /\ frontier \subseteq visited
          /\ results \subseteq visited
          /\ cand \in Node \cup {None}
          /\ pc \in {"loop", "expand", "done", "failed"}
          /\ evals \in Nat

\* A failed search returns no answer.
Returning == pc # "failed"

\* The result heap never exceeds ef, and while it holds fewer than ef nodes
\* nothing was turned away: it holds every node visited so far.
FullOrEverything ==
  Returning => /\ Cardinality(results) =< ef
               /\ Cardinality(results) < ef => results = visited

\* A visited node that is not a result is no closer than any result, though the
\* beam's worst node changes after it was turned away or evicted.
TurnedAwayIsFarther ==
  Returning => \A r \in results : \A v \in visited \ results : dist[r] =< dist[v]

\* A result is still to be expanded, is being expanded, or had all its
\* neighbors visited: the frontier loses no node the answer depends on.
NoResultForgotten ==
  Returning => \A r \in results : \/ r \in frontier
                                  \/ pc = "expand" /\ r = cand
                                  \/ adj[r] \subseteq visited

\* The three together, which the stopping rule rests on.
SoundBeam == FullOrEverything /\ TurnedAwayIsFarther /\ NoResultForgotten

\* When the search returns, the stopping rule has cut off nothing that matters:
\* the answer is a local optimum of width ef of the reachable graph.
AnswerIsLocalOptimum ==
  pc = "done" => Promise!LocalOptimum(adj, dist, ef, entries, results)

\* Each node is read at most once, so the seeks, the nodes and the exact
\* distances the counters report are the nodes visited.
ReadsOnce == Returning => evals = Cardinality(visited)

\* The search implements the promise of LayerSearch.
ImplementsPromise == Promise!Spec

\* The loop ends: every node enters the frontier at most once.
Terminates == <>(pc \in {"done", "failed"})
=============================================================================
