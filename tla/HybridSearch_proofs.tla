------------------------- MODULE HybridSearch_proofs -------------------------
(***************************************************************************)
(* Proofs about the search of an HNSW index: of one layer (BeamSearch), and *)
(* of the two queries (HybridSearch), for every graph, layers, distances,   *)
(* approximations and configuration.                                       *)
(*                                                                         *)
(* The best-first search of a layer returns a local optimum of the graph,   *)
(* for every beam width and set of entry points, and so implements the      *)
(* promise of LayerSearch.  Its inductive invariant says of every moment of *)
(* the search what the answer needs at its end: the beam is full or holds   *)
(* all that was visited, what was turned away is farther than what was      *)
(* kept, and every kept node is expanded, being expanded, or still in the   *)
(* frontier.                                                               *)
(*                                                                         *)
(* From the beam's invariant follow the theorems on search; search_hybrid   *)
(* has an invariant of its own.                                            *)
(***************************************************************************)
EXTENDS HybridSearch, Ranking

-----------------------------------------------------------------------------
(* One layer.                                                              *)

Reached == Promise!Reach(adj, entries)

\* Where the search is in its two loops.
Control == /\ pc \in {"loop", "expand", "done", "failed"}
           /\ pc = "expand" => todo = {} /\ cand \in visited
           /\ pc = "done" => todo = {} /\ \A r \in results : adj[r] \subseteq visited

\* The question may be any, not only one of the constants: HnswSearch asks its own.
Shape == /\ adj \in [Node -> SUBSET Node] /\ dist \in [Node -> Int]
         /\ ef \in Nat \ {0} /\ entries \in SUBSET Node
         /\ todo \subseteq entries
         /\ visited \subseteq Node
         /\ frontier \subseteq visited
         /\ results \subseteq visited
         /\ IsFiniteSet(results)

Beam == /\ Cardinality(results) =< ef
        /\ Cardinality(results) < ef => results = visited
        /\ \A r \in results : \A v \in visited \ results : dist[r] =< dist[v]
        /\ \A r \in results : \/ r \in frontier
                              \/ pc = "expand" /\ r = cand
                              \/ adj[r] \subseteq visited

Seeded == /\ entries \ todo \subseteq visited
          /\ todo \cap visited = {}
          /\ visited \subseteq Reached

\* After a failed read nothing is claimed: the search returned an error.
IInv == /\ Shape
        /\ Returning => Control /\ Beam /\ Seeded

LEMMA Types ==
  ASSUME Shape
  PROVE  /\ adj \in [Node -> SUBSET Node]
         /\ dist \in [Node -> Int]
         /\ ef \in Nat /\ ef > 0
         /\ entries \subseteq Node
         /\ Node \subseteq Nat
         /\ Cardinality(results) \in Nat
BY SearchAssumption, FS_CardinalityType DEF SearchAssumption, Shape

\* What the heaps' orders say about distances.
LEMMA FarthestIsMax ==
  ASSUME NEW S \in SUBSET Node, NEW w \in Farthest(S), NEW m \in S,
         dist \in [Node -> Int]
  PROVE  w \in S /\ dist[m] =< dist[w]
BY DEF Farthest, Closer

LEMMA NearestIsMin ==
  ASSUME NEW S \in SUBSET Node, NEW w \in Nearest(S), NEW m \in S,
         dist \in [Node -> Int]
  PROVE  w \in S /\ dist[w] =< dist[m]
BY DEF Nearest, Closer

\* A path can be extended, and starts at an entry point.
LEMMA ReachGrows ==
  ASSUME NEW g \in [Node -> SUBSET Node], NEW S \in SUBSET Node
  PROVE  /\ S \subseteq Promise!Reach(g, S)
         /\ \A x \in Promise!Reach(g, S) : g[x] \subseteq Promise!Reach(g, S)
BY DEF Promise!Reach, Promise!Closed

LEMMA ReachIsLeast ==
  ASSUME NEW g, NEW S \in SUBSET Node, NEW C \in SUBSET Node,
         S \subseteq C, \A x \in C : g[x] \subseteq C
  PROVE  Promise!Reach(g, S) \subseteq C
BY DEF Promise!Reach, Promise!Closed

\* Pushing a node not visited before keeps the beam, whatever its distance: if
\* the beam was full the farthest of the old and the new leaves it.
LEMMA PushKeepsBeam ==
  ASSUME Shape, Beam,
         NEW n \in Node, n \notin visited,
         visited' = visited \cup {n},
         frontier' = frontier \cup {n},
         UNCHANGED <<question, pc, cand>>,
         Push(n)
  PROVE  /\ results' \subseteq visited'
         /\ IsFiniteSet(results')
         /\ Beam'
<1>1. /\ adj \in [Node -> SUBSET Node] /\ dist \in [Node -> Int]
      /\ ef \in Nat /\ ef > 0 /\ Cardinality(results) \in Nat
      /\ adj' = adj /\ dist' = dist /\ ef' = ef
  BY Types DEF question
<1>2. /\ results \subseteq visited /\ visited \subseteq Node /\ frontier \subseteq visited
      /\ IsFiniteSet(results) /\ n \notin results
  BY DEF Shape
<1>3. /\ IsFiniteSet(results \cup {n})
      /\ Cardinality(results \cup {n}) = Cardinality(results) + 1
  BY <1>2, FS_AddElement
<1>4. CASE Cardinality(results \cup {n}) =< ef
  <2>1. results' = results \cup {n}
    BY <1>1, <1>3, <1>4 DEF Push
  <2>2. results = visited
    BY <1>1, <1>3, <1>4 DEF Beam
  <2>3. results' = visited'
    BY <2>1, <2>2
  <2>4. \A r \in results' : \/ r \in frontier'
                            \/ pc' = "expand" /\ r = cand'
                            \/ adj'[r] \subseteq visited'
    BY <2>1, <1>1 DEF Beam
  <2> QED BY <2>1, <2>3, <2>4, <1>1, <1>3, <1>4 DEF Beam
<1>5. CASE Cardinality(results \cup {n}) > ef
  <2>1. PICK w \in Farthest(results \cup {n}) : results' = (results \cup {n}) \ {w}
    BY <1>5 DEF Push
  <2>2. /\ w \in results \cup {n}
        /\ \A m \in results \cup {n} : dist[m] =< dist[w]
    <3>1. results \cup {n} \in SUBSET Node
      BY <1>2
    <3>2. w \in results \cup {n}
      BY <2>1 DEF Farthest
    <3> QED BY <3>1, <3>2, <2>1, <1>1, FarthestIsMax
  <2>3. Cardinality(results) = ef
    BY <1>1, <1>3, <1>5 DEF Beam
  <2>4. IsFiniteSet(results') /\ Cardinality(results') = ef
    <3>1. /\ IsFiniteSet((results \cup {n}) \ {w})
          /\ Cardinality((results \cup {n}) \ {w}) = Cardinality(results \cup {n}) - 1
      BY <1>3, <2>2, FS_RemoveElement
    <3> QED BY <3>1, <2>1, <2>3, <1>1, <1>3
  <2>5. ASSUME NEW r \in results', NEW v \in visited' \ results'
        PROVE  dist[r] =< dist[v]
    <3>1. r \in results \cup {n} /\ r \in Node /\ dist[r] =< dist[w]
      BY <2>1, <2>2, <1>2
    <3>2. CASE v = w
      BY <3>1, <3>2
    <3>3. CASE v # w
      <4>1. v \in visited \ results /\ v \in Node
        BY <3>3, <2>1, <1>2
      <4>2. CASE w = n
        BY <4>1, <4>2, <2>1 DEF Beam
      <4>3. CASE w # n
        <5>1. w \in results /\ w \in Node
          BY <4>3, <2>2, <1>2
        <5>2. dist[w] =< dist[v]
          BY <5>1, <4>1 DEF Beam
        <5> QED BY <5>1, <5>2, <3>1, <4>1, <1>1
      <4> QED BY <4>2, <4>3
    <3> QED BY <3>2, <3>3
  <2>6. \A r \in results' : \/ r \in frontier'
                            \/ pc' = "expand" /\ r = cand'
                            \/ adj'[r] \subseteq visited'
    BY <2>1, <1>1 DEF Beam
  <2>7. results' \subseteq visited'
    BY <2>1, <1>2
  <2> QED BY <2>4, <2>5, <2>6, <2>7, <1>1 DEF Beam
<1> QED BY <1>1, <1>3, <1>4, <1>5

LEMMA SeedKeepsIInv ==
  ASSUME IInv, NEW e \in Node, Seed(e)
  PROVE  IInv'
<1>1. /\ Shape /\ Control /\ Beam /\ Seeded /\ Returning /\ Returning'
  BY DEF IInv, Seed, Returning
<1>2. Beam' /\ results' \subseteq visited' /\ IsFiniteSet(results')
  <2>1. e \notin visited
    BY <1>1 DEF Seeded, Seed
  <2> QED BY <1>1, <2>1, PushKeepsBeam DEF Seed, Visit
<1>3. Shape'
  BY <1>1, <1>2 DEF Shape, Seed, Visit, question
<1>4. Seeded'
  <2>1. e \in Reached /\ Reached' = Reached
    <3>1. e \in entries
      BY <1>1 DEF Seed, Shape
    <3>2. entries \subseteq Reached
      BY <1>1, Types, ReachGrows DEF Reached
    <3> QED BY <3>1, <3>2 DEF Seed, question, Reached
  <2> QED BY <2>1, <1>1 DEF Seeded, Seed, Visit, question
<1>5. Control'
  BY <1>1 DEF Control, Seed
<1> QED BY <1>2, <1>3, <1>4, <1>5 DEF IInv

LEMMA PopKeepsIInv ==
  ASSUME IInv, NEW c \in Node, Pop(c)
  PROVE  IInv'
<1>1. /\ Shape /\ Control /\ Beam /\ Seeded /\ Returning
      /\ UNCHANGED <<adj, dist, ef, entries, todo, visited, results>>
      /\ pc = "loop" /\ todo = {} /\ c \in Nearest(frontier)
      /\ frontier' = frontier \ {c}
  BY DEF IInv, Pop, Returning, question
<1>2. /\ dist \in [Node -> Int] /\ adj \in [Node -> SUBSET Node]
      /\ frontier \subseteq visited /\ visited \subseteq Node /\ results \subseteq visited
      /\ c \in frontier
  BY <1>1, Types DEF Shape, Nearest
<1>3. Shape' /\ Seeded'
  BY <1>1 DEF Shape, Seeded, Reached
<1>4. CASE CannotImprove(c)
  <2>1. pc' = "done"
    BY <1>4 DEF Pop
  <2>2. PICK w \in Farthest(results) : dist[c] > dist[w]
    BY <1>4 DEF CannotImprove
  <2>3. ASSUME NEW r \in results PROVE adj[r] \subseteq visited
    <3>1. dist[r] =< dist[w] /\ w \in results
      BY <1>2, <2>2, FarthestIsMax
    <3>2. r \notin frontier
      <4>1. r \in frontier => dist[c] =< dist[r]
        BY <1>1, <1>2, NearestIsMin
      <4>2. dist[r] \in Int /\ dist[c] \in Int /\ dist[w] \in Int
        BY <1>2, <3>1
      <4> QED BY <4>1, <4>2, <3>1, <2>2
    <3> QED BY <3>2, <1>1 DEF Beam
  <2>4. Control'
    BY <2>1, <2>3, <1>1 DEF Control
  <2>5. Beam'
    BY <2>3, <1>1 DEF Beam
  <2> QED BY <2>4, <2>5, <1>3 DEF IInv
<1>5. CASE ~ CannotImprove(c)
  <2>1. pc' = "expand" /\ cand' = c
    BY <1>5 DEF Pop
  <2>2. Control'
    BY <2>1, <1>1, <1>2 DEF Control
  <2>3. Beam'
    BY <2>1, <1>1 DEF Beam
  <2> QED BY <2>2, <2>3, <1>3 DEF IInv
<1> QED BY <1>4, <1>5

LEMMA ConsiderKeepsIInv ==
  ASSUME IInv, NEW n \in Node, Consider(n)
  PROVE  IInv'
<1>1. /\ Shape /\ Control /\ Beam /\ Seeded /\ Returning
      /\ UNCHANGED <<adj, dist, ef, entries, todo, cand, pc>>
      /\ pc = "expand" /\ todo = {} /\ cand \in visited
      /\ n \in adj[cand] /\ n \notin visited
      /\ visited' = visited \cup {n}
  BY DEF IInv, Consider, Returning, question, Control, Visit
<1>2. Beam' /\ results' \subseteq visited' /\ IsFiniteSet(results')
           /\ frontier' \subseteq visited'
  <2>1. CASE Accepts(n)
    <3>1. Push(n) /\ frontier' = frontier \cup {n}
      BY <2>1 DEF Consider
    <3> QED BY <3>1, <1>1, PushKeepsBeam DEF question, Shape
  <2>2. CASE ~ Accepts(n)
    <3>1. UNCHANGED <<frontier, results>>
      BY <2>2 DEF Consider
    <3>2. PICK w \in Farthest(results) : ~ (dist[n] < dist[w])
      BY <2>2 DEF Accepts
    <3>3. ~ (Cardinality(results) < ef)
      BY <2>2 DEF Accepts
    <3>4. ASSUME NEW r \in results PROVE dist[r] =< dist[n]
      <4>1. /\ results \in SUBSET Node /\ dist \in [Node -> Int]
            /\ dist[r] =< dist[w] /\ w \in results
        BY <1>1, <3>2, Types, FarthestIsMax DEF Shape
      <4>2. dist[r] \in Int /\ dist[n] \in Int /\ dist[w] \in Int
        BY <4>1
      <4> QED BY <4>1, <4>2, <3>2
    <3>5. Beam'
      BY <3>1, <3>3, <3>4, <1>1 DEF Beam
    <3> QED BY <3>1, <3>5, <1>1 DEF Shape
  <2> QED BY <2>1, <2>2
<1>3. Shape'
  BY <1>1, <1>2 DEF Shape
<1>4. Seeded'
  <2>1. n \in Reached
    <3>1. /\ adj \in [Node -> SUBSET Node] /\ entries \in SUBSET Node
          /\ cand \in Reached
      BY <1>1, Types DEF Seeded
    <3> QED BY <3>1, <1>1, ReachGrows DEF Reached
  <2>2. Reached' = Reached
    BY <1>1 DEF Reached
  <2> QED BY <2>1, <2>2, <1>1 DEF Seeded
<1>5. Control'
  BY <1>1 DEF Control
<1> QED BY <1>2, <1>3, <1>4, <1>5 DEF IInv

LEMMA OtherStepsKeepIInv ==
  ASSUME IInv, Exhaust \/ Expanded \/ UNCHANGED vars
  PROVE  IInv'
<1>1. /\ Shape
      /\ Returning => Control /\ Beam /\ Seeded
      /\ UNCHANGED <<adj, dist, ef, entries, todo, visited, frontier, results>>
  BY DEF IInv, Exhaust, Expanded, vars, question
<1>2. Shape' /\ (Returning => Seeded')
  BY <1>1 DEF Shape, Seeded, Reached
<1>3. CASE Exhaust
  <2>1. Control'
    BY <1>1, <1>3 DEF Exhaust, Control, Beam, Returning
  <2>2. Beam'
    BY <1>1, <1>3 DEF Exhaust, Beam, Returning
  <2> QED BY <2>1, <2>2, <1>2, <1>3 DEF IInv, Exhaust, Returning
<1>4. CASE Expanded
  <2>1. Control'
    BY <1>1, <1>4 DEF Expanded, Control, Returning
  <2>2. Beam'
    BY <1>1, <1>4 DEF Expanded, Beam, Returning
  <2> QED BY <2>1, <2>2, <1>2, <1>4 DEF IInv, Expanded, Returning
<1>5. CASE UNCHANGED vars
  BY <1>1, <1>2, <1>5 DEF IInv, vars, question, Returning, Control, Beam
<1> QED BY <1>3, <1>4, <1>5

LEMMA NextKeepsIInv == IInv /\ [Next]_vars => IInv'
<1> SUFFICES ASSUME IInv, [Next]_vars PROVE IInv'
  OBVIOUS
<1>1. ASSUME NEW n \in Node, ReadError(n) PROVE IInv'
  BY <1>1 DEF IInv, ReadError, Returning, Shape, question
<1>2. CASE Exhaust \/ Expanded \/ UNCHANGED vars
  BY <1>2, OtherStepsKeepIInv
<1>3. CASE \E n \in Node : Seed(n) \/ Pop(n) \/ Consider(n) \/ ReadError(n)
  BY <1>1, <1>3, SeedKeepsIInv, PopKeepsIInv, ConsiderKeepsIInv
<1> QED BY <1>2, <1>3 DEF Next

\* A search that is about to begin, with any question.
Fresh == /\ adj \in [Node -> SUBSET Node] /\ dist \in [Node -> Int]
         /\ ef \in Nat \ {0} /\ entries \in SUBSET Node
         /\ todo = entries /\ visited = {} /\ frontier = {} /\ results = {}
         /\ pc = "loop"

LEMMA FreshEstablishesIInv == Fresh => IInv
<1> SUFFICES ASSUME Fresh PROVE IInv
  OBVIOUS
<1>1. ef \in Nat /\ ef > 0 /\ Cardinality(results) = 0 /\ IsFiniteSet(results)
  BY FS_EmptySet DEF Fresh
<1> QED BY <1>1 DEF Fresh, IInv, Shape, Control, Beam, Seeded, Returning

LEMMA InitEstablishesIInv == Init => IInv
<1>1. Init => Fresh
  BY SearchAssumption DEF Init, Fresh, SearchAssumption
<1> QED BY <1>1, FreshEstablishesIInv

\* At the end the invariant is the promise.
LEMMA IInvGivesAnswer == IInv => AnswerIsLocalOptimum
<1> SUFFICES ASSUME IInv, pc = "done"
             PROVE  Promise!LocalOptimum(adj, dist, ef, entries, results)
  BY DEF AnswerIsLocalOptimum
<1>1. /\ Shape /\ Beam /\ Seeded /\ todo = {}
      /\ \A r \in results : adj[r] \subseteq visited
  BY DEF IInv, Returning, Control
<1>2. /\ adj \in [Node -> SUBSET Node] /\ entries \in SUBSET Node
      /\ results \subseteq visited /\ visited \subseteq Node
      /\ entries \subseteq visited /\ visited \subseteq Reached
  BY <1>1, Types DEF Shape, Seeded
<1>3. Cardinality(results) < ef => results = Reached
  <2> SUFFICES ASSUME Cardinality(results) < ef PROVE results = Reached
    OBVIOUS
  <2>1. results = visited
    BY <1>1 DEF Beam
  <2>2. Reached \subseteq visited
    BY <2>1, <1>1, <1>2, ReachIsLeast DEF Reached
  <2> QED BY <2>1, <2>2, <1>2
<1>4. \A r \in results : \A s \in entries \ results : dist[r] =< dist[s]
  BY <1>1, <1>2 DEF Beam
<1>5. \A r \in results : \A q \in results : \A n \in adj[q] \ results : dist[r] =< dist[n]
  BY <1>1, <1>2 DEF Beam
<1>6. /\ Promise!Cardinality(results) = Cardinality(results)
      /\ Promise!IsFiniteSet(results) = IsFiniteSet(results)
  BY DEF Promise!Cardinality, Cardinality, Promise!IsFiniteSet, IsFiniteSet
<1> QED BY <1>1, <1>2, <1>3, <1>4, <1>5, <1>6 DEF Promise!LocalOptimum, Beam, Shape, Reached

\* The search of one layer returns a local optimum (search_layer and
\* search_layer_disk): the stopping rule cuts off nothing that matters.
THEOREM SearchReturnsLocalOptimum == Spec => []AnswerIsLocalOptimum
BY InitEstablishesIInv, NextKeepsIInv, IInvGivesAnswer, PTL DEF Spec

\* At every moment the beam is full or holds all that was visited, and nothing
\* turned away is closer than what was kept.
THEOREM BeamStaysSound == Spec => []SoundBeam
<1>1. IInv => SoundBeam
  BY DEF IInv, Beam, SoundBeam, FullOrEverything, TurnedAwayIsFarther, NoResultForgotten, Returning
<1> QED BY <1>1, InitEstablishesIInv, NextKeepsIInv, PTL DEF Spec

\* A node is marked visited before its vector is read, and a marked node is not read
\* again.
Counted == IsFiniteSet(visited) /\ (Returning => evals = Cardinality(visited))

LEMMA VisitCounts ==
  ASSUME Counted, Returning, NEW n \in Node \ visited, Visit(n)
  PROVE  Counted'
<1>1. IsFiniteSet(visited) /\ evals = Cardinality(visited)
  BY DEF Counted
<1>2. visited' = visited \cup {n} /\ evals' = evals + 1
  BY DEF Visit
<1>3. IsFiniteSet(visited \cup {n}) /\ Cardinality(visited \cup {n}) = Cardinality(visited) + 1
  BY <1>1, FS_AddElement
<1> QED BY <1>1, <1>2, <1>3 DEF Counted

LEMMA NextKeepsCounted == IInv /\ Counted /\ [Next]_vars => Counted'
<1> SUFFICES ASSUME IInv, Counted, [Next]_vars PROVE Counted'
  OBVIOUS
<1>1. ASSUME NEW n \in Node, Seed(n) PROVE Counted'
  BY <1>1, VisitCounts DEF IInv, Seeded, Seed, Returning
<1>2. ASSUME NEW n \in Node, Consider(n) PROVE Counted'
  BY <1>2, VisitCounts DEF Consider, Returning
<1>3. ASSUME NEW n \in Node, ReadError(n) PROVE Counted'
  BY <1>3, FS_AddElement DEF ReadError, Counted, Returning
<1>4. CASE Exhaust \/ Expanded \/ UNCHANGED vars \/ \E n \in Node : Pop(n)
  BY <1>4 DEF Exhaust, Expanded, Pop, vars, Counted, Returning
<1> QED BY <1>1, <1>2, <1>3, <1>4 DEF Next

\* search_layer and search_layer_disk read the vector of a node at most once, so what the
\* counters report of a search is the number of nodes visited.
THEOREM NodesAreReadOnce == Spec => []ReadsOnce
<1>1. Init => Counted
  BY FS_EmptySet DEF Init, Counted
<1>2. Counted => ReadsOnce
  BY DEF Counted, ReadsOnce
<1> QED
  BY <1>1, <1>2, NextKeepsCounted, InitEstablishesIInv, NextKeepsIInv, PTL DEF Spec

LEMMA NextKeepsTypeOK == TypeOK /\ [Next]_vars => TypeOK'
<1> SUFFICES ASSUME TypeOK, [Next]_vars PROVE TypeOK'
  OBVIOUS
<1>1. /\ entries \subseteq Node /\ adj \in [Node -> SUBSET Node]
  BY SearchAssumption DEF TypeOK, SearchAssumption
<1>2. ASSUME NEW n \in Node, Seed(n) PROVE TypeOK'
  BY <1>1, <1>2 DEF TypeOK, Seed, Visit, Push, Farthest, question
<1>3. ASSUME NEW n \in Node, Pop(n) PROVE TypeOK'
  BY <1>1, <1>3 DEF TypeOK, Pop, question
<1>4. ASSUME NEW n \in Node, Consider(n) PROVE TypeOK'
  BY <1>1, <1>4 DEF TypeOK, Consider, Visit, Push, Farthest, question
<1>5. ASSUME NEW n \in Node, ReadError(n) PROVE TypeOK'
  BY <1>1, <1>5 DEF TypeOK, ReadError, question
<1>6. CASE Exhaust \/ Expanded \/ UNCHANGED vars
  BY <1>6 DEF TypeOK, Exhaust, Expanded, vars, question
<1> QED BY <1>2, <1>3, <1>4, <1>5, <1>6 DEF Next

\* The variables of the search keep their types.
THEOREM BeamTypeCorrect == Spec => []TypeOK
<1>1. Init => TypeOK
  BY DEF Init, TypeOK
<1> QED BY <1>1, NextKeepsTypeOK, PTL DEF Spec

LEMMA NextAnswer == IInv' => AnswerIsLocalOptimum'
BY IInvGivesAnswer, PTL

\* A step that ends the search is the step that answers, a failed read is the
\* step that fails, and every other step is invisible to the caller.
LEMMA StepImplementsPromise ==
  ASSUME IInv, IInv', [Next]_vars
  PROVE  [Promise!Next]_(Promise!view)
<1> DEFINE st == CASE pc = "done"   -> "answered"
                   [] pc = "failed" -> "failed"
                   [] OTHER         -> "searching"
           ans == IF pc = "done" THEN results ELSE {}
<1>1. CASE pc \in {"loop", "expand"} /\ pc' \in {"loop", "expand"} /\ UNCHANGED question
  BY <1>1 DEF question, Promise!view
<1>2. CASE pc \in {"loop", "expand"} /\ pc' = "done" /\ UNCHANGED question
  <2>1. st = "searching" /\ st' = "answered" /\ ans' = results'
    BY <1>2
  <2>2. Promise!LocalOptimum(adj', dist', ef', entries', results')
    BY <1>2, NextAnswer DEF AnswerIsLocalOptimum
  <2>3. Promise!LocalOptimum(adj, dist, ef, entries, ans')
    BY <2>1, <2>2, <1>2 DEF question
  <2>4. ans' \in SUBSET Node
    BY <2>1, <1>2 DEF IInv, Shape
  <2>5. Promise!Answer
    BY <2>1, <2>3, <2>4, <1>2 DEF Promise!Answer, Promise!question, question
  <2> QED BY <2>5 DEF Promise!Next
<1>3. CASE pc \in {"loop", "expand"} /\ pc' = "failed" /\ UNCHANGED question
  BY <1>3 DEF Promise!Next, Promise!Fail, Promise!question, question
<1>4. CASE UNCHANGED vars
  BY <1>4 DEF vars, question, Promise!view
<1>5. ASSUME NEW n \in Node, Seed(n) \/ Pop(n) \/ Consider(n) \/ ReadError(n)
      PROVE  /\ pc \in {"loop", "expand"}
             /\ pc' \in {"loop", "expand", "done", "failed"}
             /\ UNCHANGED question
  BY <1>5 DEF Seed, Pop, Consider, ReadError
<1>6. Exhaust \/ Expanded => /\ pc \in {"loop", "expand"}
                             /\ pc' \in {"loop", "expand", "done", "failed"}
                             /\ UNCHANGED question
  BY DEF Exhaust, Expanded
<1> QED BY <1>1, <1>2, <1>3, <1>4, <1>5, <1>6 DEF Next

\* search_layer and search_layer_disk implement the promise of LayerSearch: seen
\* from their caller, a run is one step to a local optimum or to an error.
THEOREM SearchImplementsPromise == Spec => ImplementsPromise
<1>1. Init => Promise!Init
  BY DEF Init, Promise!Init
<1>2. IInv /\ IInv' /\ [Next]_vars => [Promise!Next]_(Promise!view)
  BY StepImplementsPromise
<1> QED BY <1>1, <1>2, InitEstablishesIInv, NextKeepsIInv, PTL
  DEF Spec, Promise!Spec, ImplementsPromise

-----------------------------------------------------------------------------
(* The queries.                                                            *)

QueryTyped ==
  /\ adj \in [Node -> SUBSET Node] /\ dist \in [Node -> Int] /\ steer \in [Node -> Int]
  /\ k \in Nat /\ efSearch \in Nat /\ layer \in Nat
  /\ entry \in Node \cup {None} /\ current \in Node \cup {None}
  /\ call \in {"search", "search_hybrid"}
  /\ phase \in {"enter", "descend", "layer0", "hybrid", "returned", "error"}
  /\ ratio.num \in Nat /\ ratio.den \in Nat \ {0} /\ batchSize \in Nat

\* Neither beam nor gate is touched before layer 0.
Untouched == /\ todo = {} /\ visited = {} /\ frontier = {} /\ results = {} /\ pc = "loop"
             /\ exactKnown = {} /\ exactFrontier = {} /\ turn = "fetch" /\ answer = {}

Descending == /\ phase \in {"enter", "descend"} => Untouched
              /\ phase \in {"descend", "layer0", "hybrid"} => entry # None /\ current \in Node
              /\ phase = "layer0" => call = "search"
              /\ phase = "hybrid" => call = "search_hybrid"
              /\ phase = "returned" /\ entry = None => answer = {} /\ exactKnown = {}

\* A sweep without improvement looked at every neighbor it took off its list.
Sweeping ==
  phase = "descend" /\ ~ improved =>
    \A n \in upper[layer][current] \ walk : steer[current] =< steer[n]

Answered == phase = "returned" /\ entry # None

ByBeam ==
  call = "search" /\ (phase = "layer0" \/ Answered) =>
    /\ IInv /\ current \in Node
    /\ ef = BeamWidth /\ entries = {current}
    /\ Answered => pc = "done" /\ answer = BestK(results)

\* What the gate of search_hybrid keeps: a node is discovered once, then waits with an
\* approximate distance, then with an exact one, and when expanded its neighbors are
\* discovered.
Gate ==
  /\ ef = BeamWidth /\ current \in discovered
  /\ discovered = approxPq \cup exactKnown /\ approxPq \cap exactKnown = {}
  /\ exactFrontier \subseteq exactKnown
  /\ discovered \subseteq Promise!Reach(adj, {current})
  /\ \A x \in exactKnown \ exactFrontier : adj[x] \subseteq discovered
  /\ results = Kept(exactKnown)
  /\ turn = "expand" /\ (fetched = 0 \/ FullRerank) => approxPq = {}

\* The loop is left for a reason.
Stopped == /\ turn = "expand"
           /\ \/ \E best \in Nearest(exactFrontier) : ~ CanImprove(best)
              \/ exactFrontier = {} /\ fetched = 0

ByGate ==
  call = "search_hybrid" /\ (phase = "hybrid" \/ Answered) =>
    /\ Gate /\ current \in Node
    /\ Answered => Stopped /\ answer = BestK(results)

QInv == QueryTyped /\ Descending /\ Sweeping /\ ByBeam /\ ByGate

-----------------------------------------------------------------------------

LEMMA NodesAreNumbers == /\ Node \in SUBSET Nat /\ IsFiniteSet(Node) /\ None \notin Node
BY SearchAssumption, QueryAssumption DEF SearchAssumption, QueryAssumption

LEMMA BeamIsWide ==
  ASSUME QueryTyped
  PROVE  BeamWidth \in Nat /\ BeamWidth >= 1 /\ BeamWidth >= k
<1>1. /\ \E x \in {efSearch, k, 1} : \A y \in {efSearch, k, 1} : y =< x
      /\ {efSearch, k, 1} \subseteq Nat
  BY DEF QueryTyped
<1>2. /\ BeamWidth \in {efSearch, k, 1}
      /\ \A y \in {efSearch, k, 1} : y =< BeamWidth
  BY <1>1 DEF BeamWidth, Largest
<1> QED
  BY <1>1, <1>2

\* Heaps and collectors rank by exact distance.
LEMMA KeptIsFirst ==
  ASSUME QueryTyped, NEW S \in SUBSET Node
  PROVE  /\ Ranked(S, dist) /\ Ranked(S, steer)
         /\ Kept(S) = Foremost(S, ef, dist) /\ BestK(S) = Foremost(S, k, dist)
<1>1. IsFiniteSet(S)
  BY NodesAreNumbers, FS_Subset
<1>2. Ranked(S, dist) /\ Ranked(S, steer)
  BY <1>1, NodesAreNumbers DEF QueryTyped, Ranked
<1>3. \A a \in S : {b \in S : Closer(b, a)} = AllAhead(S, dist, a)
  BY DEF Closer, AllAhead, Ahead
<1>4. Kept(S) = Foremost(S, ef, dist) /\ BestK(S) = Foremost(S, k, dist)
  BY <1>3 DEF Kept, BestK, Foremost
<1> QED
  BY <1>2, <1>4

\* Keeping the ef closest of what was kept and a batch loses nothing.
LEMMA KeepingIsIncremental ==
  ASSUME QueryTyped, ef \in Nat, NEW S \in SUBSET Node, NEW B \in SUBSET Node
  PROVE  Kept(Kept(S) \cup B) = Kept(S \cup B)
<1> DEFINE C == Kept(S) \cup B
           A == S \cup B
<1>1. Kept(S) = Foremost(S, ef, dist) /\ Ranked(S, dist)
  BY KeptIsFirst
<1>2. C \in SUBSET A /\ A \in SUBSET Node /\ C \in SUBSET Node
  BY <1>1 DEF Foremost
<1>3. /\ Ranked(A, dist) /\ Ranked(C, dist)
      /\ Kept(A) = Foremost(A, ef, dist) /\ Kept(C) = Foremost(C, ef, dist)
  <2> HIDE DEF A, C
  <2> QED
    BY <1>2, KeptIsFirst
<1>4. ASSUME NEW b \in A \ C PROVE ef <= Cardinality(AllAhead(C, dist, b))
  <2>1. b \in S \ Foremost(S, ef, dist)
    BY <1>1, <1>4
  <2>2. \A a \in Foremost(S, ef, dist) : Ahead(dist, a, b)
    BY <1>1, <2>1, ForemostAreAhead
  <2>3. Foremost(S, ef, dist) \in SUBSET AllAhead(C, dist, b)
    BY <1>1, <2>2 DEF AllAhead
  <2>4. Cardinality(Foremost(S, ef, dist)) = ef
    <3>1. Cardinality(S) \in Nat
      BY <1>1, FS_CardinalityType DEF Ranked
    <3> QED
      BY <1>1, <2>1, <3>1, ForemostAreEnough
  <2>5. IsFiniteSet(AllAhead(C, dist, b))
    <3>1. AllAhead(C, dist, b) \in SUBSET C
      BY DEF AllAhead
    <3> HIDE DEF C
    <3> QED
      BY <1>3, <3>1, FS_Subset DEF Ranked
  <2> HIDE DEF C
  <2> QED
    BY <2>3, <2>4, <2>5, FS_Subset
<1> HIDE DEF A, C
<1>5. Foremost(C, ef, dist) = Foremost(A, ef, dist)
  BY <1>2, <1>3, <1>4, CandidatesAreEnough
<1> QED
  BY <1>3, <1>5 DEF A, C

\* A beam of at least k holds the best k.
LEMMA BeamHoldsBest ==
  ASSUME QueryTyped, ef \in Nat, k <= ef, NEW S \in SUBSET Node
  PROVE  BestK(Kept(S)) = BestK(S)
<1> DEFINE C == Kept(S)
<1>1. Kept(S) = Foremost(S, ef, dist) /\ Ranked(S, dist) /\ k \in Nat
  BY KeptIsFirst DEF QueryTyped
<1>2. C \in SUBSET S /\ C = Foremost(S, ef, dist)
  BY <1>1 DEF Foremost
<1>3. Ranked(C, dist) /\ BestK(S) = Foremost(S, k, dist) /\ BestK(C) = Foremost(C, k, dist)
  <2> HIDE DEF C
  <2> QED
    BY <1>2, KeptIsFirst
<1>4. ASSUME NEW b \in S \ C PROVE k <= Cardinality(AllAhead(C, dist, b))
  <2>1. \A a \in C : Ahead(dist, a, b)
    BY <1>1, <1>2, <1>4, ForemostAreAhead
  <2>2. AllAhead(C, dist, b) = C
    BY <2>1 DEF AllAhead
  <2>3. Cardinality(S) \in Nat
    BY <1>1, FS_CardinalityType DEF Ranked
  <2>4. Cardinality(C) = ef
    BY <1>1, <1>2, <1>4, <2>3, ForemostAreEnough
  <2> HIDE DEF C
  <2> QED
    BY <1>1, <2>2, <2>4
<1> HIDE DEF C
<1>5. Foremost(C, k, dist) = Foremost(S, k, dist)
  BY <1>1, <1>2, <1>3, <1>4, CandidatesAreEnough
<1> QED
  BY <1>3, <1>5 DEF C

\* A node left out of a ranking is no closer than those in it.
LEMMA OthersAreFarther ==
  ASSUME QueryTyped, NEW S \in SUBSET Node, NEW r \in BestK(S), NEW n \in S \ BestK(S)
  PROVE  dist[r] =< dist[n]
<1>1. /\ Ranked(S, dist) /\ BestK(S) = Foremost(S, k, dist) /\ k \in Nat
  BY KeptIsFirst DEF QueryTyped
<1>2. Ahead(dist, r, n)
  BY <1>1, ForemostAreAhead
<1>3. r \in Node /\ n \in Node
  BY DEF BestK
<1> QED
  BY <1>2, <1>3 DEF Ahead, QueryTyped

-----------------------------------------------------------------------------
\* The batch.

LEMMA BudgetFits ==
  ASSUME QueryTyped, NEW count \in Nat, Cardinality(approxPq) = count,
         count <= Cardinality(Node)
  PROVE  /\ Budget \in Nat /\ Budget >= 1
         /\ FullRerank => count <= Budget
<1> DEFINE sum == count * ratio.num + ratio.den - 1
           want == sum \div ratio.den
           cap == Clamp(batchSize, 1, batchSize)
<1>1. ratio.num \in Nat /\ ratio.den \in Nat \ {0} /\ batchSize \in Nat
  BY DEF QueryTyped
<1>2. count * ratio.num \in Nat
  BY <1>1
<1>3. sum \in Nat /\ sum >= count * ratio.num
  BY <1>1, <1>2
<1>4. want \in Nat
  <2> HIDE DEF sum
  <2>1. sum >= 0 * ratio.den
    BY <1>1, <1>3
  <2> QED
    BY <1>1, <1>3, <2>1, QuotientBounds
<1>5. ASSUME FullRerank PROVE want >= count
  <2>1. ratio.num >= ratio.den
    BY <1>5 DEF FullRerank
  <2>2. count * ratio.num >= count * ratio.den
    BY <1>1, <2>1
  <2> HIDE DEF sum
  <2>3. sum >= count * ratio.den
    BY <1>1, <1>2, <1>3, <2>2
  <2> QED
    BY <1>1, <1>3, <2>3, QuotientBounds
<1>6. cap \in Nat /\ cap >= 1 /\ cap >= batchSize
  BY <1>1 DEF Clamp
<1>7. Budget = Clamp(want, 1, cap)
  BY DEF Budget
<1>8. Cardinality(Node) \in Nat
  BY NodesAreNumbers, FS_CardinalityType
<1>9. FullRerank => batchSize >= Cardinality(Node)
  BY DEF FullRerank
<1> HIDE DEF want, cap
<1> QED
  BY <1>1, <1>4, <1>5, <1>6, <1>7, <1>8, <1>9 DEF Clamp

-----------------------------------------------------------------------------
\* Steps.

LEMMA QInitHolds == HybridInit => QInv
<1> SUFFICES ASSUME HybridInit PROVE QInv
  OBVIOUS
<1>0. upper \in Seq([Node -> SUBSET Node]) /\ layer \in Nat
  BY QueryAssumption DEF HybridInit, SearchInit, QueryAssumption
<1>1. QueryTyped
  BY <1>0, SearchAssumption, QueryAssumption
  DEF HybridInit, SearchInit, SearchAssumption, QueryAssumption, QueryTyped
<1> QED
  BY <1>1 DEF HybridInit, SearchInit, QInv, Descending, Untouched, Sweeping, ByBeam, ByGate,
              Answered

LEMMA AskHybridKeeps == ASSUME QInv, AskHybrid PROVE QInv'
<1>1. QueryTyped'
  BY HybridAssumption
  DEF QInv, QueryTyped, AskHybrid, descent, HybridAssumption
<1> QED
  BY <1>1 DEF QInv, AskHybrid, Descending, Untouched, Sweeping, ByBeam, ByGate, Answered,
              beam, descent, gate

LEMMA DescentKeeps ==
  ASSUME QInv, UNCHANGED <<config, gate>>,
         EmptyGraph \/ Enter \/ Sweep \/ Descend \/ \E n \in Node : Look(n)
  PROVE  QInv'
<1> USE DEF config, gate, query, beam, descent
<1>1. CASE EmptyGraph
  BY <1>1 DEF QInv, QueryTyped, Descending, Untouched, Sweeping, ByBeam, ByGate, Answered,
              EmptyGraph
<1>2. CASE Enter
  BY <1>2 DEF QInv, QueryTyped, Descending, Untouched, Sweeping, ByBeam, ByGate, Answered,
              Enter
<1>3. CASE Sweep
  BY <1>3 DEF QInv, QueryTyped, Descending, Untouched, Sweeping, ByBeam, ByGate, Answered,
              Sweep
<1>4. CASE Descend
  BY <1>4 DEF QInv, QueryTyped, Descending, Untouched, Sweeping, ByBeam, ByGate, Answered,
              Descend
<1>5. CASE \E n \in Node : Look(n)
  <2>1. PICK n \in Node : Look(n)
    BY <1>5
  <2>2. QueryTyped' /\ Descending' /\ ByBeam' /\ ByGate'
    BY <2>1 DEF QInv, QueryTyped, Descending, Untouched, ByBeam, ByGate, Answered, Look
  <2>3. Sweeping'
    <3>1. CASE steer[n] < steer[current]
      BY <2>1, <3>1 DEF Sweeping, Look
    <3>2. CASE ~ (steer[n] < steer[current])
      <4>1. /\ current \in Node /\ steer[current] \in Int /\ steer[n] \in Int
        BY <2>1 DEF QInv, QueryTyped, Descending, Look
      <4>2. steer[current] =< steer[n]
        BY <3>2, <4>1
      <4>3. /\ UNCHANGED <<phase, improved, upper, layer, current, steer>>
            /\ walk' = walk \ {n}
        BY <2>1, <3>2 DEF Look
      <4> QED
        BY <4>2, <4>3 DEF QInv, Sweeping
    <3> QED
      BY <3>1, <3>2
  <2> QED
    BY <2>2, <2>3 DEF QInv
<1> QED
  BY <1>1, <1>2, <1>3, <1>4, <1>5

\* A search that ends in an error claims nothing.
LEMMA ErrorKeeps ==
  ASSUME QInv, UNCHANGED <<query, descent, config>>, phase' = "error"
  PROVE  QInv'
BY DEF QInv, QueryTyped, Descending, Untouched, Sweeping, ByBeam, ByGate, Answered,
       query, descent, config

LEMMA FreshKeeps == Fresh' => IInv'
BY FreshEstablishesIInv, PTL

LEMMA EnterLayer0Keeps ==
  ASSUME QInv, call = "search", EnterLayer0, UNCHANGED <<config, gate>>
  PROVE  QInv'
<1> USE DEF config, gate, query, descent
<1>1. QueryTyped'
  BY DEF QInv, QueryTyped, EnterLayer0
<1>2. /\ BeamWidth \in Nat /\ BeamWidth >= 1 /\ BeamWidth' = BeamWidth
  BY BeamIsWide DEF QInv, EnterLayer0, BeamWidth
<1>3. Untouched /\ current \in Node /\ entry # None
  BY DEF QInv, Descending, EnterLayer0
<1>4. Fresh'
  BY <1>1, <1>2, <1>3 DEF EnterLayer0, Fresh, QueryTyped, Untouched
<1>5. IInv'
  BY <1>4, FreshKeeps
<1>6. ByBeam' /\ ByGate'
  BY <1>2, <1>3, <1>5 DEF EnterLayer0, ByBeam, ByGate, Answered
<1> QED
  BY <1>1, <1>3, <1>6 DEF QInv, EnterLayer0, Descending, Sweeping

LEMMA SearchLayer0Keeps ==
  ASSUME QInv, call = "search", SearchLayer0, UNCHANGED <<config, gate>>
  PROVE  QInv'
<1> USE DEF config, gate, descent
<1>1. /\ phase = "layer0" /\ phase' = phase /\ Next
      /\ UNCHANGED <<upper, entry, efSearch, k, steer, answer, layer, current, walk, improved>>
  BY DEF SearchLayer0
<1>2. UNCHANGED <<adj, dist, ef, entries>>
  BY <1>1 DEF Next, Seed, Pop, Consider, ReadError, Exhaust, Expanded, question
<1>3. IInv'
  BY <1>1, NextKeepsIInv DEF QInv, ByBeam
<1>4. BeamWidth' = BeamWidth
  BY <1>1 DEF BeamWidth
<1>5. ByBeam' /\ ByGate'
  BY <1>1, <1>2, <1>3, <1>4 DEF QInv, ByBeam, ByGate, Answered
<1> QED
  BY <1>1, <1>2, <1>5 DEF QInv, QueryTyped, Descending, Sweeping

LEMMA ReturnKeeps ==
  ASSUME QInv, call = "search", Return, UNCHANGED <<config, gate>>
  PROVE  QInv'
<1> USE DEF config, gate, query, beam, descent
<1>1. /\ phase = "layer0" /\ pc = "done" /\ phase' = "returned" /\ answer' = BestK(results)
      /\ UNCHANGED vars /\ UNCHANGED <<upper, entry, efSearch, k, steer, descent>>
  BY DEF Return, vars
<1>2. IInv'
  BY <1>1, NextKeepsIInv DEF QInv, ByBeam
<1>3. BeamWidth' = BeamWidth /\ BestK(results)' = BestK(results)
  BY <1>1 DEF BeamWidth, BestK, Closer, vars
<1>4. ByBeam' /\ ByGate'
  BY <1>1, <1>2, <1>3 DEF QInv, ByBeam, ByGate, Answered, vars
<1> QED
  BY <1>1, <1>4 DEF QInv, QueryTyped, Descending, Sweeping, vars

LEMMA SearchKeeps ==
  ASSUME QInv, call = "search", SearchNext, UNCHANGED <<config, gate>>
  PROVE  QInv'
<1>1. CASE EmptyGraph \/ Enter \/ Sweep \/ Descend \/ \E n \in Node : Look(n)
  BY <1>1, DescentKeeps
<1>2. CASE EnterLayer0
  BY <1>2, EnterLayer0Keeps
<1>3. CASE SearchLayer0
  BY <1>3, SearchLayer0Keeps
<1>4. CASE Return
  BY <1>4, ReturnKeeps
<1>5. CASE Error
  BY <1>5, ErrorKeeps DEF Error
<1> QED
  BY <1>1, <1>2, <1>3, <1>4, <1>5 DEF SearchNext

-----------------------------------------------------------------------------
\* Steps of the hybrid loop.

LEMMA EnterHybridKeeps == ASSUME QInv, EnterHybrid PROVE QInv'
<1> USE DEF config, query, descent
<1>1. QueryTyped'
  BY DEF QInv, QueryTyped, EnterHybrid
<1>2. Untouched /\ current \in Node /\ entry # None
  BY DEF QInv, Descending, EnterHybrid
<1>3. /\ BeamWidth' = BeamWidth /\ UNCHANGED <<adj, dist, k, current, entry, call>>
      /\ ef' = BeamWidth /\ discovered' = {current} /\ approxPq' = {current}
      /\ exactKnown' = {} /\ exactFrontier' = {} /\ results' = {} /\ turn' = "fetch"
      /\ phase' = "hybrid" /\ call = "search_hybrid"
  BY <1>2 DEF EnterHybrid, BeamWidth, Untouched
<1>4. current \in Promise!Reach(adj, {current})
  BY <1>1, <1>2, <1>3, ReachGrows DEF QInv, QueryTyped
<1>5. Kept(exactKnown)' = {}
  BY <1>3 DEF Kept
<1>6. Gate'
  BY <1>3, <1>4, <1>5 DEF Gate
<1>7. ByBeam' /\ ByGate'
  BY <1>2, <1>3, <1>6 DEF ByBeam, ByGate, Answered
<1> QED
  BY <1>1, <1>2, <1>3, <1>7 DEF QInv, Descending, Sweeping

LEMMA PoppedIsFirst ==
  ASSUME QueryTyped, Gate, current \in Node
  PROVE  /\ Popped = Foremost(approxPq, Budget, steer)
         /\ approxPq \in SUBSET Node /\ exactKnown \in SUBSET Node
         /\ Ranked(approxPq, steer) /\ Popped \ exactKnown = Popped
         /\ Cardinality(approxPq) \in Nat
         /\ Budget \in Nat /\ Budget >= 1
         /\ FullRerank => Cardinality(approxPq) <= Budget
<1>1. discovered \in SUBSET Node
  BY DEF Gate, Promise!Reach
<1>2. approxPq \in SUBSET Node /\ exactKnown \in SUBSET Node
  BY <1>1 DEF Gate
<1>3. approxPq \ exactKnown = approxPq
  BY DEF Gate
<1>4. \A c \in approxPq :
        {d \in approxPq \ exactKnown : ApproxCloser(d, c)} = AllAhead(approxPq, steer, c)
  BY <1>3 DEF ApproxCloser, AllAhead, Ahead
<1>5. Popped = Foremost(approxPq, Budget, steer)
  BY <1>4 DEF Popped, Foremost
<1>6. Ranked(approxPq, steer)
  BY <1>2, KeptIsFirst
<1>7. Cardinality(approxPq) \in Nat /\ Cardinality(approxPq) <= Cardinality(Node)
  BY <1>2, NodesAreNumbers, FS_Subset, FS_CardinalityType
<1>8. Budget \in Nat /\ Budget >= 1 /\ (FullRerank => Cardinality(approxPq) <= Budget)
  BY <1>7, BudgetFits
<1>9. Popped \subseteq approxPq
  BY DEF Popped
<1> QED
  BY <1>2, <1>3, <1>5, <1>6, <1>7, <1>8, <1>9

LEMMA FetchKeeps == ASSUME QInv, Fetch PROVE QInv'
<1> DEFINE batch == Popped \ exactKnown
<1>0. /\ QueryTyped /\ Gate /\ current \in Node /\ call = "search_hybrid" /\ entry # None
      /\ phase = "hybrid"
  BY DEF QInv, Descending, ByGate, Fetch
<1>1. /\ approxPq' = approxPq \ Popped /\ exactKnown' = exactKnown \cup batch
      /\ exactFrontier' = exactFrontier \cup batch /\ results' = Kept(results \cup batch)
      /\ fetched' = Cardinality(batch) /\ turn' = "expand"
      /\ UNCHANGED <<query, ef, descent, phase, answer, config, discovered>>
  BY DEF Fetch
<1>2. /\ Popped \in SUBSET approxPq /\ batch = Popped
      /\ approxPq \in SUBSET Node /\ exactKnown \in SUBSET Node /\ batch \in SUBSET Node
  BY <1>0, PoppedIsFirst DEF Popped
<1> HIDE DEF batch
<1>3. QueryTyped' /\ Descending' /\ Sweeping' /\ ByBeam'
  BY <1>0, <1>1 DEF QInv, QueryTyped, Descending, Sweeping, ByBeam, Answered, query, descent,
                    config
<1>4. results' = Kept(exactKnown \cup batch)
  <2>1. ef \in Nat
    BY <1>0, BeamIsWide DEF Gate
  <2>2. results = Kept(exactKnown)
    BY <1>0 DEF Gate
  <2> QED
    BY <1>0, <1>1, <1>2, <2>1, <2>2, KeepingIsIncremental
<1>5. Kept(exactKnown)' = Kept(exactKnown \cup batch)
  BY <1>1 DEF Kept, Closer, query
<1>6. fetched' = 0 \/ FullRerank => approxPq' = {}
  <2>1. CASE FullRerank
    <3>1. Popped = approxPq
      BY <1>0, <2>1, PoppedIsFirst, ForemostAreEnough
    <3> QED
      BY <1>1, <3>1
  <2>2. CASE fetched' = 0
    <3>1. IsFiniteSet(batch)
      BY <1>2, NodesAreNumbers, FS_Subset
    <3>2. Popped = {}
      BY <1>1, <1>2, <2>2, <3>1, FS_EmptySet
    <3>3. Cardinality(Popped) = 0
      BY <3>2, FS_EmptySet
    <3>4. ~ (Budget <= Cardinality(approxPq))
      BY <1>0, <3>3, PoppedIsFirst, ForemostAreEnough
    <3>5. Popped = approxPq
      BY <1>0, <3>4, PoppedIsFirst, ForemostAreEnough
    <3> QED
      BY <1>1, <3>5
  <2> QED
    BY <2>1, <2>2
<1>7. FullRerank' = FullRerank /\ BeamWidth' = BeamWidth
  BY <1>1 DEF FullRerank, BeamWidth, config, query
<1>8. Gate'
  BY <1>0, <1>1, <1>2, <1>4, <1>5, <1>6, <1>7 DEF Gate, query, descent
<1> QED
  BY <1>0, <1>1, <1>3, <1>8 DEF QInv, ByGate, Answered, query, descent, config

LEMMA ExpandKeeps == ASSUME QInv, NEW best \in Node, Expand(best) PROVE QInv'
<1>0. /\ QueryTyped /\ Gate /\ current \in Node /\ call = "search_hybrid" /\ entry # None
      /\ phase = "hybrid"
  BY DEF QInv, Descending, ByGate, Expand
<1>1. /\ best \in exactFrontier /\ exactFrontier' = exactFrontier \ {best}
      /\ discovered' = discovered \cup (adj[best] \ discovered)
      /\ approxPq' = approxPq \cup (adj[best] \ discovered) /\ turn' = "fetch"
      /\ UNCHANGED <<query, beam, descent, phase, answer, config, exactKnown>>
  BY DEF Expand, Nearest
<1>2. QueryTyped' /\ Descending' /\ Sweeping' /\ ByBeam'
  BY <1>0, <1>1 DEF QInv, QueryTyped, Descending, Sweeping, ByBeam, Answered, query, descent,
                    config
<1>3. adj[best] \subseteq Promise!Reach(adj, {current})
  BY <1>0, <1>1, ReachGrows DEF QueryTyped, Gate
<1>4. Kept(exactKnown)' = Kept(exactKnown) /\ BeamWidth' = BeamWidth
  BY <1>1 DEF Kept, Closer, BeamWidth, query, beam
<1>5. Gate'
  BY <1>0, <1>1, <1>3, <1>4 DEF Gate, query, beam, descent
<1> QED
  BY <1>0, <1>1, <1>2, <1>5 DEF QInv, ByGate, Answered, query, descent, config

\* What the loop left is not touched again.
LEMMA GateStays ==
  ASSUME UNCHANGED <<query, beam, descent, config, gate>>
  PROVE  /\ Gate' = Gate /\ Stopped' = Stopped /\ BestK(results)' = BestK(results)
         /\ BeamWidth' = BeamWidth
<1> USE DEF query, beam, descent, config, gate
<1>1. BeamWidth' = BeamWidth /\ BestK(results)' = BestK(results)
      /\ Kept(exactKnown)' = Kept(exactKnown) /\ FullRerank' = FullRerank
  BY DEF BeamWidth, BestK, Kept, Closer, FullRerank
<1>2. Gate' = Gate
  BY <1>1 DEF Gate
<1>3. Stopped' = Stopped
  BY DEF Stopped, Nearest, CanImprove, Farthest, Closer
<1> QED
  BY <1>1, <1>2, <1>3

LEMMA StopKeeps == ASSUME QInv, Stop PROVE QInv'
<1>1. /\ phase = "hybrid" /\ call = "search_hybrid" /\ entry # None /\ current \in Node
      /\ Gate /\ Stopped
      /\ phase' = "returned" /\ answer' = BestK(results)
      /\ UNCHANGED <<query, beam, descent, evals, config, gate>>
  BY DEF QInv, Descending, ByGate, Stop, Stopped
<1>2. Gate' /\ Stopped' /\ BestK(results)' = BestK(results)
  BY <1>1, GateStays
<1>3. QueryTyped' /\ Descending' /\ Sweeping' /\ ByBeam'
  BY <1>1 DEF QInv, QueryTyped, Descending, Sweeping, ByBeam, Answered, query, descent,
              config
<1>4. ByGate'
  BY <1>1, <1>2 DEF ByGate, query, descent, config
<1> QED
  BY <1>3, <1>4 DEF QInv

LEMMA StutterKeeps == ASSUME QInv, UNCHANGED hybridVars PROVE QInv'
<1>1. /\ UNCHANGED <<query, beam, descent, evals, phase, answer, config, gate>>
      /\ UNCHANGED vars
  BY DEF hybridVars, allVars, query, beam, vars
<1>2. IInv => IInv'
  BY <1>1, NextKeepsIInv
<1>3. /\ Gate' = Gate /\ Stopped' = Stopped /\ BestK(results)' = BestK(results)
      /\ BeamWidth' = BeamWidth
  BY <1>1, GateStays
<1>4. ByBeam'
  BY <1>1, <1>2, <1>3 DEF QInv, ByBeam, Answered, query, beam, descent, config
<1>5. ByGate'
  BY <1>1, <1>3 DEF QInv, ByGate, Answered, query, descent, config
<1> QED
  BY <1>1, <1>4, <1>5 DEF QInv, QueryTyped, Descending, Untouched, Sweeping, query, beam,
                          descent, config, gate

LEMMA QInvHolds == HybridSpec => []QInv
<1>1. QInv /\ [HybridNext]_hybridVars => QInv'
  <2> SUFFICES ASSUME QInv, [HybridNext]_hybridVars PROVE QInv'
    OBVIOUS
  <2>1. CASE AskHybrid
    BY <2>1, AskHybridKeeps
  <2>2. CASE call = "search" /\ SearchNext /\ UNCHANGED <<config, gate>>
    BY <2>2, SearchKeeps
  <2>3. CASE NoCodebook
    BY <2>3, ErrorKeeps DEF NoCodebook
  <2>4. CASE HybridDescend
    BY <2>4, DescentKeeps DEF HybridDescend
  <2>5. CASE EnterHybrid
    BY <2>5, EnterHybridKeeps
  <2>6. CASE Fetch
    BY <2>6, FetchKeeps
  <2>7. CASE FetchError
    BY <2>7, ErrorKeeps DEF FetchError
  <2>8. CASE Stop
    BY <2>8, StopKeeps
  <2>9. CASE \E n \in Node : Expand(n)
    BY <2>9, ExpandKeeps
  <2>10. CASE UNCHANGED hybridVars
    BY <2>10, StutterKeeps
  <2> QED
    BY <2>1, <2>2, <2>3, <2>4, <2>5, <2>6, <2>7, <2>8, <2>9, <2>10 DEF HybridNext
<1> QED
  BY <1>1, QInitHolds, PTL DEF HybridSpec

-----------------------------------------------------------------------------
\* What the invariant says of an answer.

\* search ends with a local optimum of width ef from the node the descent ended at.
LEMMA BeamAnswers ==
  ASSUME QInv, call = "search", Answered
  PROVE  /\ answer = BestK(results) /\ results \in SUBSET Node
         /\ Promise!LocalOptimum(adj, dist, ef, {current}, results)
         /\ ef \in Nat /\ k <= ef
<1>1. IInv /\ ef = BeamWidth /\ entries = {current} /\ pc = "done" /\ answer = BestK(results)
  BY DEF QInv, ByBeam
<1>2. Promise!LocalOptimum(adj, dist, ef, {current}, results)
  BY <1>1, IInvGivesAnswer DEF AnswerIsLocalOptimum
<1>3. results \in SUBSET Node
  BY <1>1 DEF IInv, Shape
<1> QED
  BY <1>1, <1>2, <1>3, BeamIsWide DEF QInv

\* search_hybrid ends with the best of what it fetched.
LEMMA GateAnswers ==
  ASSUME QInv, call = "search_hybrid", Answered
  PROVE  /\ answer = BestK(exactKnown) /\ answer = BestK(results)
         /\ Gate /\ Stopped /\ current \in Node
         /\ exactKnown \in SUBSET Node /\ approxPq \in SUBSET Node
         /\ results = Foremost(exactKnown, ef, dist) /\ Ranked(exactKnown, dist)
         /\ ef \in Nat /\ k <= ef /\ k \in Nat /\ QueryTyped
<1>1. Gate /\ Stopped /\ answer = BestK(results) /\ current \in Node /\ QueryTyped
  BY DEF QInv, ByGate
<1>2. ef \in Nat /\ k <= ef /\ k \in Nat
  BY <1>1, BeamIsWide DEF Gate, QueryTyped
<1>3. exactKnown \in SUBSET Node /\ approxPq \in SUBSET Node
  BY <1>1, PoppedIsFirst
<1>4. results = Kept(exactKnown)
  BY <1>1 DEF Gate
<1>5. results = Foremost(exactKnown, ef, dist) /\ Ranked(exactKnown, dist)
  BY <1>1, <1>3, <1>4, KeptIsFirst
<1>6. BestK(results) = BestK(exactKnown)
  BY <1>1, <1>2, <1>3, <1>4, BeamHoldsBest
<1> QED
  BY <1>1, <1>2, <1>3, <1>5, <1>6

\* When the hybrid loop ends short of a full beam, everything reachable was fetched.
LEMMA GateExhausts ==
  ASSUME QInv, call = "search_hybrid", Answered, Cardinality(results) < ef
  PROVE  exactKnown = Promise!Reach(adj, {current})
<1>1. Gate /\ Stopped /\ current \in Node
  BY GateAnswers
<1>2. exactFrontier = {} /\ approxPq = {}
  BY <1>1 DEF Stopped, CanImprove, Gate
<1>3. exactKnown = discovered
  BY <1>1, <1>2 DEF Gate
<1>4. /\ {current} \subseteq exactKnown /\ \A x \in exactKnown : adj[x] \subseteq exactKnown
      /\ exactKnown \subseteq Promise!Reach(adj, {current})
  BY <1>1, <1>2, <1>3 DEF Gate
<1>5. Promise!Reach(adj, {current}) \subseteq exactKnown
  BY <1>1, <1>4, ReachIsLeast, GateAnswers
<1> QED
  BY <1>4, <1>5

\* search_hybrid: approximate distances decide what is fetched and never what is kept.
\* The answer is the exact best k of all that was fetched, whatever the codes say.
THEOREM HybridAnswersBestFetched == HybridSpec => []AnswerIsBestFetched
<1>1. QInv => AnswerIsBestFetched
  <2> SUFFICES ASSUME QInv, phase = "returned", call = "search_hybrid"
               PROVE  answer = BestK(exactKnown)
    BY DEF AnswerIsBestFetched
  <2>1. CASE entry = None
    BY <2>1 DEF QInv, Descending, BestK
  <2>2. CASE entry # None
    BY <2>2, GateAnswers DEF Answered
  <2> QED
    BY <2>1, <2>2
<1> QED
  BY <1>1, QInvHolds, PTL

\* search and search_hybrid: k neighbors come back unless fewer can be reached on layer 0.
\* The hybrid promotes at most a batch a round, and still it cannot end short.
THEOREM QueriesAreFull == HybridSpec => []AnswerIsFull
<1>1. QInv => AnswerIsFull
  <2> DEFINE reachable == Promise!Reach(adj, {current})
  <2> SUFFICES ASSUME QInv, phase = "returned", entry # None
               PROVE  Cardinality(answer) = IF Cardinality(reachable) < k
                                              THEN Cardinality(reachable) ELSE k
    BY DEF AnswerIsFull
  <2>1. Answered /\ QueryTyped /\ k \in Nat
    BY DEF Answered, QInv, QueryTyped
  <2>2. reachable \in SUBSET Node /\ IsFiniteSet(reachable) /\ Cardinality(reachable) \in Nat
    <3>1. reachable \in SUBSET Node
      BY DEF Promise!Reach
    <3> QED
      BY <3>1, NodesAreNumbers, FS_Subset, FS_CardinalityType
  <2> HIDE DEF reachable
  <2>3. ASSUME NEW R \in SUBSET Node, answer = BestK(R), R \subseteq reachable,
               Cardinality(R) < k => R = reachable
        PROVE  Cardinality(answer) = IF Cardinality(reachable) < k
                                       THEN Cardinality(reachable) ELSE k
    <3>1. Ranked(R, dist) /\ answer = Foremost(R, k, dist)
      BY <2>1, <2>3, KeptIsFirst
    <3>2. /\ Cardinality(R) \in Nat /\ Cardinality(R) <= Cardinality(reachable)
      BY <2>2, <2>3, FS_Subset, FS_CardinalityType
    <3>3. CASE Cardinality(R) < k
      BY <2>1, <2>3, <3>1, <3>2, <3>3, ForemostAreEnough
    <3>4. CASE k <= Cardinality(R)
      BY <2>1, <2>2, <3>1, <3>2, <3>4, ForemostAreEnough
    <3> QED
      BY <2>1, <3>2, <3>3, <3>4
  <2>4. CASE call = "search"
    <3>1. /\ answer = BestK(results) /\ results \in SUBSET Node /\ ef \in Nat /\ k <= ef
          /\ Promise!LocalOptimum(adj, dist, ef, {current}, results)
      BY <2>1, <2>4, BeamAnswers
    <3>2. /\ results \subseteq reachable
          /\ Cardinality(results) < ef => results = reachable
      <4>1. /\ results \subseteq Promise!Reach(adj, {current})
            /\ Cardinality(results) < ef => results = Promise!Reach(adj, {current})
        <5>1. Promise!Cardinality(results) = Cardinality(results)
          BY DEF Promise!Cardinality, Cardinality
        <5> QED
          BY <3>1, <5>1 DEF Promise!LocalOptimum
      <4> QED
        BY <4>1 DEF reachable
    <3>3. Cardinality(results) \in Nat
      BY <3>1, NodesAreNumbers, FS_Subset, FS_CardinalityType
    <3>4. Cardinality(results) < k => Cardinality(results) < ef
      BY <2>1, <3>1, <3>3
    <3>5. Cardinality(results) < k => results = reachable
      BY <3>2, <3>4
    <3> QED
      BY <2>3, <3>1, <3>2, <3>5
  <2>5. CASE call = "search_hybrid"
    <3>1. /\ answer = BestK(exactKnown) /\ exactKnown \in SUBSET Node /\ Gate
          /\ results = Foremost(exactKnown, ef, dist) /\ Ranked(exactKnown, dist)
          /\ ef \in Nat /\ k <= ef
      BY <2>1, <2>5, GateAnswers
    <3>2. exactKnown \subseteq reachable
      BY <3>1 DEF Gate, reachable
    <3>3. ASSUME Cardinality(exactKnown) < k PROVE exactKnown = reachable
      <4>1. Cardinality(exactKnown) \in Nat
        BY <3>1, FS_CardinalityType DEF Ranked
      <4>2. results = exactKnown
        BY <2>1, <3>1, <3>3, <4>1, ForemostAreEnough
      <4>3. Cardinality(results) < ef
        BY <2>1, <3>1, <3>3, <4>1, <4>2
      <4> QED
        BY <2>1, <2>5, <4>3, GateExhausts DEF reachable
    <3> QED
      BY <2>3, <3>1, <3>2, <3>3
  <2> QED
    BY <2>1, <2>4, <2>5 DEF QueryTyped
<1> QED
  BY <1>1, QInvHolds, PTL

\* search and search_hybrid: a node one hop from the answer was left out only for nodes
\* at most as far; for the hybrid when it fetches its whole frontier every round,
\* whatever the approximations are.
THEOREM QueriesAreLocallyBest == HybridSpec => []ExactAnswerIsLocallyBest
<1>1. QInv => ExactAnswerIsLocallyBest
  <2> SUFFICES ASSUME QInv, call = "search" \/ FullRerank, phase = "returned",
                      NEW q \in answer, NEW r \in answer, NEW n \in adj[q] \ answer
               PROVE  dist[r] =< dist[n]
    BY DEF ExactAnswerIsLocallyBest, AnswerIsLocallyBest
  <2>1. Answered /\ QueryTyped
    BY DEF QInv, Descending, Answered
  <2>2. CASE call = "search"
    <3>1. /\ answer = BestK(results) /\ results \in SUBSET Node
          /\ Promise!LocalOptimum(adj, dist, ef, {current}, results)
      BY <2>1, <2>2, BeamAnswers
    <3>2. q \in results /\ r \in results
      BY <3>1 DEF BestK
    <3>3. CASE n \in results
      BY <2>1, <3>1, <3>3, OthersAreFarther
    <3>4. CASE n \notin results
      BY <3>1, <3>2, <3>4 DEF Promise!LocalOptimum
    <3> QED
      BY <3>3, <3>4
  <2>3. CASE call = "search_hybrid"
    <3>1. /\ answer = BestK(exactKnown) /\ answer = BestK(results) /\ Gate /\ Stopped
          /\ exactKnown \in SUBSET Node /\ FullRerank
      BY <2>1, <2>3, GateAnswers
    <3>2. approxPq = {} /\ exactKnown = discovered
      BY <3>1 DEF Gate, Stopped
    <3>3. q \in exactKnown /\ q \in results
      BY <3>1 DEF BestK
    <3>4. q \notin exactFrontier
      <4>1. CASE exactFrontier = {}
        BY <4>1
      <4>2. CASE \E best \in Nearest(exactFrontier) : ~ CanImprove(best)
        <5>1. PICK best \in Nearest(exactFrontier) : ~ CanImprove(best)
          BY <4>2
        <5>2. PICK w \in Farthest(results) : ~ (dist[best] =< dist[w])
          BY <5>1 DEF CanImprove
        <5>3. results \in SUBSET Node /\ exactFrontier \in SUBSET Node
          BY <2>1, <2>3, <3>1, GateAnswers DEF Gate, Foremost
        <5>4. dist \in [Node -> Int]
          BY <2>1 DEF QueryTyped
        <5>5. w \in Node /\ dist[q] =< dist[w] /\ best \in Node
          BY <3>3, <5>1, <5>2, <5>3, <5>4, FarthestIsMax DEF Farthest, Nearest
        <5>6. q \in exactFrontier => dist[best] =< dist[q]
          BY <5>1, <5>3, <5>4, NearestIsMin
        <5>7. q \in Node /\ dist[q] \in Int /\ dist[best] \in Int /\ dist[w] \in Int
          BY <3>1, <3>3, <5>4, <5>5
        <5> QED
          BY <5>2, <5>5, <5>6, <5>7
      <4> QED
        BY <3>1, <4>1, <4>2 DEF Stopped
    <3>5. n \in exactKnown
      BY <3>1, <3>2, <3>3, <3>4 DEF Gate
    <3> QED
      BY <2>1, <3>1, <3>5, OthersAreFarther
  <2> QED
    BY <2>1, <2>2, <2>3 DEF QueryTyped
<1> QED
  BY <1>1, QInvHolds, PTL

\* search and search_hybrid: the descent leaves a layer only at one of its local minima,
\* though the node moves while the list of an earlier one is walked.
THEOREM DescentEndsAtMinima == HybridSpec => LeavesAtLocalMinimum
<1>1. QInv /\ [HybridNext]_hybridVars =>
        [layer' < layer /\ layer > 0 =>
           \A n \in upper[layer][current] : steer[current] =< steer[n]]_allVars
  <2> SUFFICES ASSUME QInv, [HybridNext]_hybridVars, layer' < layer
               PROVE  \A n \in upper[layer][current] : steer[current] =< steer[n]
    OBVIOUS
  <2>1. ~ (layer < layer)
    BY DEF QInv, QueryTyped
  <2>2. CASE Descend
    BY <2>2 DEF QInv, Sweeping, Descend
  <2>3. CASE ~ Descend
    <3>1. layer' = layer
      BY <2>3
      DEF HybridNext, AskHybrid, SearchNext, NoCodebook, HybridDescend, EnterHybrid, Fetch,
          FetchError, Expand, Stop, EmptyGraph, Enter, Sweep, EnterLayer0, Look,
          SearchLayer0, Return, Error, hybridVars, allVars, descent
    <3> QED
      BY <2>1, <3>1
  <2> QED
    BY <2>2, <2>3
<1> QED
  BY <1>1, QInvHolds, PTL DEF HybridSpec, LeavesAtLocalMinimum
=============================================================================
