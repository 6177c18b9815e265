---------------------------- MODULE HybridSearch ----------------------------
(***************************************************************************)
(* The two queries of an HNSW index: search (HnswSearch) and search_hybrid. *)
(* The hybrid descends the upper layers by approximate distances, taken     *)
(* from product-quantizer codes in RAM, and on layer 0 lets them decide     *)
(* which vectors are fetched from the store; exact distances rank the       *)
(* answer and choose what is expanded.                                     *)
(***************************************************************************)
EXTENDS HnswSearch

CONSTANTS Approximations,   \* approximate distances of the nodes to the query
          RerankRatios,     \* config.rerank_ratio, as [num, den]
          BatchSizes        \* config.fetch_batch_size

ASSUME HybridAssumption ==
  /\ Approximations \subseteq [Node -> Int]
  /\ \A r \in RerankRatios : r.num \in Nat /\ r.den \in Nat \ {0}
  /\ BatchSizes \subseteq Nat

VARIABLES call,            \* "search" or "search_hybrid"
          codes,           \* the index has a codebook and codes
          ratio, batchSize,
          discovered,      \* an approximate distance was computed
          approxPq,        \* discovered and not fetched: min-heap by approximate distance
          exactKnown,      \* fetched
          exactFrontier,   \* fetched and not expanded: min-heap by distance
          fetched,         \* fetched_this_round
          turn             \* "fetch" or "expand"

config == <<call, codes, ratio, batchSize>>
gate == <<discovered, approxPq, exactKnown, exactFrontier, fetched, turn>>
hybridVars == <<allVars, config, gate>>

HybridInit ==
  /\ SearchInit
  /\ call = "search"
  /\ codes = FALSE /\ ratio = [num |-> 1, den |-> 1] /\ batchSize = 0
  /\ discovered = {} /\ approxPq = {} /\ exactKnown = {} /\ exactFrontier = {}
  /\ fetched = 0 /\ turn = "fetch"

\* The caller may ask for the hybrid search instead, of an index with codes or without.
AskHybrid ==
  /\ phase = "enter" /\ call = "search"
  /\ call' = "search_hybrid"
  /\ codes' \in BOOLEAN
  /\ steer' \in Approximations
  /\ ratio' \in RerankRatios /\ batchSize' \in BatchSizes
  /\ UNCHANGED <<adj, dist, upper, entry, efSearch, k, beam, descent, evals, phase, answer,
                 gate>>

\* let Some(codebook) = ... else: an index without codes refuses, an empty one does not.
NoCodebook ==
  /\ phase = "enter" /\ call = "search_hybrid" /\ entry # None /\ ~ codes
  /\ phase' = "error"
  /\ UNCHANGED <<query, beam, descent, evals, answer, config, gate>>

\* The descent is that of search, over approximate distances, and cannot fail.
HybridDescend ==
  /\ call = "search_hybrid"
  /\ \/ EmptyGraph
     \/ codes /\ Enter
     \/ Sweep \/ Descend
     \/ \E n \in Node : Look(n)
  /\ UNCHANGED <<config, gate>>

EnterHybrid ==
  /\ call = "search_hybrid" /\ phase = "descend" /\ layer = 0
  /\ phase' = "hybrid"
  /\ ef' = BeamWidth
  /\ discovered' = {current} /\ approxPq' = {current}
  /\ evals' = evals + 1
  /\ UNCHANGED <<query, entries, todo, visited, frontier, results, cand, pc, descent,
                 answer, config, exactKnown, exactFrontier, fetched, turn>>

\* approx_pq: min-heap by approximate distance.
ApproxCloser(a, b) == steer[a] < steer[b] \/ (steer[a] = steer[b] /\ a < b)

Clamp(x, low, high) == IF x < low THEN low ELSE IF x > high THEN high ELSE x

\* want.clamp(1, fetch_batch_size.max(1))
Budget == LET want == (Cardinality(approxPq) * ratio.num + ratio.den - 1) \div ratio.den
          IN Clamp(want, 1, Clamp(batchSize, 1, batchSize))

\* Candidates are popped until the batch has Budget of them; fetched ones are skipped.
Popped == {c \in approxPq :
             Cardinality({d \in approxPq \ exactKnown : ApproxCloser(d, c)}) < Budget}

\* A slip: the result set evicts by approximate distance.
KeptByApproximation(S) ==
  {n \in S : Cardinality({m \in S : ApproxCloser(m, n)}) < ef}

\* The ef closest by exact distance, which pushing one by one and popping the worst leaves.
Kept(S) == {n \in S : Cardinality({m \in S : Closer(m, n)}) < ef}

\* FETCH PHASE.  The closure sees the batch in the order of the file; what it does with
\* a vector does not depend on that order.
Fetch ==
  /\ phase = "hybrid" /\ turn = "fetch"
  /\ LET batch == Popped \ exactKnown
     IN /\ approxPq' = approxPq \ Popped
        /\ exactKnown' = exactKnown \cup batch
        /\ exactFrontier' = exactFrontier \cup batch
        /\ results' = Kept(results \cup batch)
        /\ fetched' = Cardinality(batch)
        /\ evals' = evals + Cardinality(batch)
  /\ turn' = "expand"
  /\ UNCHANGED <<query, ef, entries, todo, visited, frontier, cand, pc, descent, phase,
                 answer, config, discovered>>

\* A batch that cannot be read ends the search.
FetchError ==
  /\ phase = "hybrid" /\ turn = "fetch" /\ approxPq # {}
  /\ phase' = "error"
  /\ UNCHANGED <<query, beam, descent, evals, answer, config, gate>>

\* A slip: a node as far as the worst result is not expanded.
CanImproveStrictly(best) == \/ Cardinality(results) < ef
                            \/ \A w \in Farthest(results) : dist[best] < dist[w]

CanImprove(best) == \/ Cardinality(results) < ef
                    \/ \A w \in Farthest(results) : dist[best] =< dist[w]

\* EXPAND PHASE.
Expand(best) ==
  /\ phase = "hybrid" /\ turn = "expand"
  /\ best \in Nearest(exactFrontier) /\ CanImprove(best)
  /\ exactFrontier' = exactFrontier \ {best}
  /\ LET found == adj[best] \ discovered
     IN /\ discovered' = discovered \cup found
        /\ approxPq' = approxPq \cup found
        /\ evals' = evals + Cardinality(found)
  /\ turn' = "fetch"
  /\ UNCHANGED <<query, beam, descent, phase, answer, config, exactKnown, fetched>>

\* The closest fetched node cannot improve the results, or nothing is left to do.
Stop == /\ phase = "hybrid" /\ turn = "expand"
        /\ \/ \E best \in Nearest(exactFrontier) : ~ CanImprove(best)
           \/ exactFrontier = {} /\ fetched = 0
        /\ phase' = "returned"
        /\ answer' = BestK(results)
        /\ UNCHANGED <<query, beam, descent, evals, config, gate>>

HybridNext == \/ AskHybrid
              \/ call = "search" /\ SearchNext /\ UNCHANGED <<config, gate>>
              \/ NoCodebook \/ HybridDescend \/ EnterHybrid \/ Fetch \/ FetchError \/ Stop
              \/ \E n \in Node : Expand(n)

HybridFairness == WF_hybridVars(HybridNext)

HybridSpec == HybridInit /\ [][HybridNext]_hybridVars /\ HybridFairness

-----------------------------------------------------------------------------
(* Properties.  AnswerIsFull, LeavesAtLocalMinimum and SearchReturns of         *)
(* HnswSearch are about both queries.                                          *)

\* The whole approximate frontier is promoted every round.
FullRerank == ratio.num >= ratio.den /\ batchSize >= Cardinality(Node)

\* The answer of a hybrid search is the exact best of everything it fetched: approximate
\* distances decide what is fetched and never what is kept, and the result set of
\* width ef loses nothing that the k need.
AnswerIsBestFetched ==
  phase = "returned" /\ call = "search_hybrid" => answer = BestK(exactKnown)

\* search skips no neighbor of an answer for a farther one; nor does the hybrid when it
\* promotes everything, however wrong the approximations are.
ExactAnswerIsLocallyBest ==
  call = "search" \/ FullRerank => AnswerIsLocallyBest
=============================================================================
