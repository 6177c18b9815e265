-------------------------------- MODULE Ivf --------------------------------
(***************************************************************************)
(* The inverted-file index (slate-graph/src/ivf.rs), from the build over a  *)
(* store to one query, with the product quantizer that gates its hybrid     *)
(* search (slate-pq/src/codebook.rs, adc.rs).  Both quantizers are trained  *)
(* by KMeans; the exact scan of slate-index/src/brute.rs is the reference.  *)
(*                                                                         *)
(* Ids are positions in the store, from 1.  The subspaces of the quantizer  *)
(* are the coordinates.  Reading a vector is left to FetchSchedule.         *)
(***************************************************************************)
EXTENDS KMeans

CONSTANTS Stores,          \* stores, as sequences of vectors
          Params,          \* parameters that validate accepts: [lists, probes, soft] of
                           \* IvfParams, and sub, the 2 ^ bits_per_code of PqParams
          Queries,         \* query vectors
          Configs          \* SearchConfig: [k, num, den, batch]; rerank_ratio is num/den

\* IvfParams::validate
ValidIvf(p) == /\ p.lists \in Nat \ {0}
               /\ p.probes \in 1 .. p.lists /\ p.soft \in 1 .. p.lists

\* PqParams::validate and centroids_per_subspace
ValidPq(p) == p.sub \in {2, 4, 8, 16, 32, 64, 128, 256}

ASSUME IvfAssumption ==
  /\ \A p \in Params : ValidIvf(p) /\ ValidPq(p)
  /\ \A s \in Stores : s \in Seq(Seq(Int)) /\ SameSpace(Range(s) \cup Queries)
  /\ \A c \in Configs : c.k \in Nat /\ c.num \in Nat /\ c.den \in Nat \ {0} /\ c.batch \in Nat

\* Means are exact: the rounding of floats is left out.
ASSUME MeansAreExact == \A s \in Stores : WholeMeans(s)

VARIABLES store,           \* the store
          params,
          withPq,          \* build_with_pq
          metric,          \* "L2" or "InnerProduct", of the exact ranking
          cells,           \* the coarse centroids
          postings,        \* a set of ids for each cell
          codebook,        \* the centroids of each subspace trained so far
          pqCodes,         \* the code of each vector
          query, config,
          fetched,         \* ids the query read
          answer,          \* ids it returned
          stage

index == <<store, params, withPq, metric, cells, postings, codebook, pqCodes>>
search == <<query, config, fetched, answer>>
ivfVars == <<kmeansVars, index, search, stage>>

Ids == Indices(store)

IvfInit == /\ store \in Stores /\ params \in Params /\ withPq \in BOOLEAN
           /\ metric \in {"L2", "InnerProduct"}
           /\ cells = << >> /\ postings = << >> /\ codebook = << >> /\ pqCodes = << >>
           /\ query = << >> /\ config = << >> /\ fetched = {} /\ answer = {}
           /\ stage = "build"
           /\ KMeansIdle

Smaller(a, b) == IF a < b THEN a ELSE b

-----------------------------------------------------------------------------
(* build_inner                                                             *)

\* An empty store makes a valid, empty index, without a codebook.
BuildEmpty == /\ stage = "build" /\ store = << >>
              /\ stage' = "ready"
              /\ UNCHANGED <<kmeansVars, index, search>>

TrainCells == /\ stage = "build" /\ store # << >>
              /\ Train(store, params.lists)
              /\ stage' = "cells"
              /\ UNCHANGED <<index, search>>

TrainKMeans == /\ stage \in {"cells", "codebook"}
               /\ KMeansStep
               /\ UNCHANGED <<index, search, stage>>

\* How many cells are nearer to v than cell c, ties by id.
CellRank(v, c, cs) ==
  Cardinality({b \in Indices(cs) : \/ SquaredL2(v, cs[b]) < SquaredL2(v, cs[c])
                                   \/ SquaredL2(v, cs[b]) = SquaredL2(v, cs[c]) /\ b < c})

\* nearest_centroids
NearestCells(v, count, cs) == {c \in Indices(cs) : CellRank(v, c, cs) < count}

\* A slip: a vector goes to the cell k-means last assigned it to, which was before
\* that cell's centroid moved.
PostAsAssigned ==
  /\ stage = "cells" /\ kpc = "trained"
  /\ cells' = centroids
  /\ postings' = [c \in Indices(centroids) |-> {i \in Ids : assignment[i] = c}]
  /\ stage' = IF withPq THEN "quantize" ELSE "ready"
  /\ UNCHANGED <<kmeansVars, store, params, withPq, metric, codebook, pqCodes, search>>

\* Every vector is posted to its soft_assign nearest of the cells there are.
Post ==
  /\ stage = "cells" /\ kpc = "trained"
  /\ cells' = centroids
  /\ LET soft == Smaller(params.soft, Len(centroids))
     IN postings' = [c \in Indices(centroids) |->
                       {i \in Ids : c \in NearestCells(store[i], soft, centroids)}]
  /\ stage' = IF withPq THEN "quantize" ELSE "ready"
  /\ UNCHANGED <<kmeansVars, store, params, withPq, metric, codebook, pqCodes, search>>

\* PqCodebook::train: one run of k-means for each subspace, over its column.
TrainSubspace ==
  /\ stage = "quantize" /\ Len(codebook) < Len(store[1])
  /\ Train([i \in Ids |-> <<store[i][Len(codebook) + 1]>>], params.sub)
  /\ stage' = "codebook"
  /\ UNCHANGED <<index, search>>

TakeSubspace ==
  /\ stage = "codebook" /\ kpc = "trained"
  /\ codebook' = Append(codebook, centroids)
  /\ stage' = "quantize"
  /\ UNCHANGED <<kmeansVars, store, params, withPq, metric, cells, postings, pqCodes, search>>

\* A slip: every subspace is encoded from the first column.
EncodeFirstColumn(v) ==
  [s \in Indices(codebook) |->
     ArgMin([c \in Indices(codebook[s]) |-> SquaredL2(<<v[1]>>, codebook[s][c])])]

\* encode_into: in each subspace the nearest centroid, the first of several.
Encode(v) ==
  [s \in Indices(codebook) |->
     ArgMin([c \in Indices(codebook[s]) |-> SquaredL2(<<v[s]>>, codebook[s][c])])]

EncodeBatch ==
  /\ stage = "quantize" /\ Len(codebook) = Len(store[1])
  /\ pqCodes' = [i \in Ids |-> Encode(store[i])]
  /\ stage' = "ready"
  /\ UNCHANGED <<kmeansVars, store, params, withPq, metric, cells, postings, codebook, search>>

-----------------------------------------------------------------------------
(* search and search_hybrid                                                *)

Score(q, v) == IF metric = "L2" THEN SquaredL2(q, v)
               ELSE 0 - Total([d \in DOMAIN v |-> q[d] * v[d]])

\* What TopK keeps of the ids offered: the n best, ties by id.
Best(n, q, S) ==
  {i \in S : Cardinality({j \in S : \/ Score(q, store[j]) < Score(q, store[i])
                                    \/ Score(q, store[j]) = Score(q, store[i]) /\ j < i}) < n}

\* A slip: the last posting list probed is left out.
CandidatesOneShort(q) ==
  UNION {postings[c] : c \in NearestCells(q, Smaller(params.probes, Len(cells)) - 1, cells)}

\* The union of the posting lists of the num_probes nearest of the cells there are.
Candidates(q) ==
  UNION {postings[c] : c \in NearestCells(q, Smaller(params.probes, Len(cells)), cells)}

\* AdcTable::build and distance_at.
AdcDistance(q, code) ==
  Total([s \in Indices(codebook) |-> SquaredL2(<<q[s]>>, codebook[s][code[s]])])

\* clamp(ceil(candidates * rerank_ratio), 1, fetch_batch_size)
Budget(n, c) == LET top == (n * c.num + c.den - 1) \div c.den
                IN IF top < 1 THEN 1 ELSE Smaller(top, c.batch)

\* The candidates that are fetched: the best by approximate distance, ties by id.
Gated(q, n) ==
  LET S == Candidates(q)
  IN {i \in S : Cardinality({j \in S :
        \/ AdcDistance(q, pqCodes[j]) < AdcDistance(q, pqCodes[i])
        \/ AdcDistance(q, pqCodes[j]) = AdcDistance(q, pqCodes[i]) /\ j < i}) < n}

Ask(q, c) == stage = "ready" /\ query' = q /\ config' = c

Answer(read) == fetched' = read /\ answer' = Best(config'.k, query', read)

Search(q, c) == /\ Ask(q, c)
                /\ Answer(IF cells = << >> THEN {} ELSE Candidates(q))
                /\ stage' = "searched"
                /\ UNCHANGED <<kmeansVars, index>>

\* Without cells or candidates there is nothing to gate.
NothingToGate(q) == IF cells = << >> THEN TRUE ELSE withPq /\ Candidates(q) = {}

SearchHybrid(q, c) == /\ Ask(q, c)
                      /\ IF NothingToGate(q) THEN Answer({})
                         ELSE /\ withPq /\ c.batch > 0
                              /\ Answer(Gated(q, Budget(Cardinality(Candidates(q)), c)))
                      /\ stage' = "gated"
                      /\ UNCHANGED <<kmeansVars, index>>

\* No codebook.
HybridUnsupported(q, c) == /\ Ask(q, c)
                           /\ cells # << >> /\ ~ withPq
                           /\ stage' = "unsupported"
                           /\ UNCHANGED <<kmeansVars, index, fetched, answer>>

\* clamp(1, 0) panics.
HybridPanics(q, c) == /\ Ask(q, c)
                      /\ cells # << >> /\ withPq /\ ~ NothingToGate(q) /\ c.batch = 0
                      /\ stage' = "panicked"
                      /\ UNCHANGED <<kmeansVars, index, fetched, answer>>

IvfNext == \/ BuildEmpty \/ TrainCells \/ TrainKMeans \/ Post
           \/ TrainSubspace \/ TakeSubspace \/ EncodeBatch
           \/ \E q \in Queries, c \in Configs : \/ Search(q, c) \/ SearchHybrid(q, c)
                                                \/ HybridUnsupported(q, c) \/ HybridPanics(q, c)

IvfSpec == IvfInit /\ [][IvfNext]_ivfVars

-----------------------------------------------------------------------------
(* Properties.                                                             *)

\* brute_force_search
BruteForce(n, q) == Best(n, q, Ids)

\* The hybrid search fetches every candidate.
NothingGated == config.num >= config.den /\ config.batch >= Len(store)

\* With every cell probed the answer is that of the exact scan, under either metric and
\* whatever the training made of the cells: every vector is in a list, and a gate that
\* lets everything pass changes nothing.
AllCellsIsBruteForce ==
  /\ stage = "searched" \/ (stage = "gated" /\ NothingGated)
  /\ params.probes >= Len(cells)
  => answer = BruteForce(config.k, query)

\* A stored vector is found by a query equal to it, however few cells are probed: the
\* cell it was posted to at build time is the cell the query is sent to.
StoredVectorIsFound ==
  stage = "searched" /\ metric = "L2" /\ config.k > 0 /\ (\E i \in Ids : store[i] = query)
  => \E i \in answer : store[i] = query

\* When the codebook has a centroid for each vector, gating by codes is gating by the
\* vectors: training, encoding and the lookup table agree on subspaces and centroids.
LosslessCodesGateExactly ==
  stage = "gated" /\ metric = "L2" /\ Len(store) =< params.sub
  => LET S == Candidates(query)
     IN fetched = (IF cells = << >> \/ S = {} THEN {}
                   ELSE Best(Budget(Cardinality(S), config), query, S))
=============================================================================
