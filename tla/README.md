# Slate-ANN in TLA+

Models, model-checking runs and proofs for Slate-ANN, a storage-aware vector index in
Rust. A *bundle* is a directory that holds a file of vectors, an index over them, a
manifest and a log of edits; a query walks the index in memory and reads vectors from
disk. Paths below are relative to `src/crates/`.

Run a model with `tlc -config MCBundle.cfg MCBundle.tla`, check a proof with
`tlapm HybridSearch_proofs.tla`. `PROJECT.json` lists the runs, the lines each definition
translates, a mutation for every property, and the hazards the properties are for.

## The system

| Part | State | Operations | Correct when |
| --- | --- | --- | --- |
| Top-k collector (`slate-core/src/search.rs`) | a max-heap of at most k neighbors | `offer`, `into_sorted_vec` | it returns the first k of what it was offered by (score, id) |
| HNSW layer search (`slate-graph/src/hnsw.rs`) | visited flags, frontier, results | `search_layer`, `search_layer_disk` | it stops, and nothing it cut off was closer |
| HNSW query (same) | current node and layer, then a beam | `search` | k neighbors come back if k can be reached, and no neighbor of them is skipped for a farther one |
| HNSW hybrid query (same) | approximate and exact frontiers, results | `search_hybrid`, `search_layer_hybrid` | it ends, and its answer is the exact best of what it fetched |
| HNSW construction (same) | adjacency lists per layer, levels, entry point | `build`, `insert_node`, `connect`, `prune_node`, `prune_high_degree` | lists are capped, no node loses its last way out, every layer can be entered |
| HNSW sharded build (same) | shards, the merged graph | `build_sharded` | the merged graph keeps the caps and the layers of its parts, and is entered at its top |
| Layout and relabel (same) | a breadth-first queue; a permutation | `layout_order`, `write_reordered_store`, `relabel` | renamed index and rewritten store say what the old ones said |
| k-means and product quantizer (`slate-pq`) | centroids, assignment; codebook, codes | `train`, `encode_into`, `AdcTable` | no step makes the clustering worse; subspaces and centroids are paired the same way everywhere |
| IVF (`slate-graph/src/ivf.rs`) | centroids, posting lists | `build`, `search`, `search_hybrid` | every vector is in a list; what is probed is ranked exactly |
| Exact scan (`slate-index/src/brute.rs`) | none | `search` | it is the reference answer |
| Distance kernels (`slate-simd`) | a loop index and lanes | `distance*`, the AVX2, AVX-512, NEON and scalar kernels | each element counts once, no load leaves the vector, no kernel runs on a CPU without it |
| Block layout and store writer (`slate-storage/src/layout.rs`, `format.rs`) | count, cursor in the block, buffered bytes | `create`, `push`, `finish` | what was pushed lies where the reader looks; a file cut short is refused |
| Reader, schedule, I/O (`slate-storage/src/{reader,schedule,io,mmap}.rs`) | plan, runs left, buffers of a run | `get_into`, `plan`, `fetch_scheduled` | each vector once, its own bytes, and charged as read |
| Bundle (`slate-index/src/bundle.rs`, `update.rs`, `format.rs`) | four files; a handle's log | `build_bundle`, `open_bundle`, `delete`, `insert`, `flush`, `search` | an acknowledged edit stays; what opens belongs together |
| Codecs, random numbers, cost model (`slate-core`) | none | `encode`, `next_u64`, `model_ms` | numerical |

Calls go down: the command line (`slate-cli/src/main.rs`) opens a bundle; a bundle asks
its index, drops deleted hits and merges buffered inserts; the index reads vectors
through the store; the store plans and executes reads; every answer goes through the
collector. Within a process there is one thread and no shared state. Two processes
meet in the files of one directory, which nothing locks.

What is hard to test here: processes that edit or rebuild one directory at the same
time, and die between two of their writes; an edit log that outlives the store it
extends; the stopping rules of the beams, whose bound moves under the nodes they turned
away; long sequences of insertions that prune each other's edges; a writer and a reader
that compute the same offsets in two ways; two loops, one that charges for the reads
and one that makes them; reads that return short or fail half way; quantizers that build
and query must use alike; a reordering that touches every array of an index; loads wider
than what is used of them, at lengths off the chunk size; ties.

## The modules

**`TopK`** — the collector. The heap is the set of positions, in the offered stream, of
the neighbors it holds, since the same neighbor may be offered twice; its shape is left
out. `Offer` is the whole of `offer`, `IntoSortedVec` sorts the survivors. A score is a
number: NaN is the largest, as under `total_cmp`.

**`LayerGraph`**, **`LayerSearch`** — what a layer is, and what a search of it promises:
one step from a question to a *local optimum* (as many reachable nodes as fit, and
neither a start nor a neighbor of the answer that was left out is closer than a node of
the answer) or to an error.

**`BeamSearch`** — the loop of `search_layer` and `search_layer_disk`. They are one loop:
the first starts from several nodes and its distances cannot fail, the second starts
from one and reads each vector. A step is one distance evaluation or one turn of the
outer loop; the order in which a list is walked is open. Entry points enter unconditionally
(`Seed`), a popped candidate may end the loop (`Pop`), a neighbor is scored once
(`Consider`), a failed read ends the search (`ReadError`).

**`HnswSearch`** — `HnswIndex::search` around it: the sweeps of the greedy descent, which
walk the list of a node the descent may already have left, the beam width, and the best k.

**`HybridSearch`** — extends it by `search_hybrid`. The descent is the same over estimated
distances (`steer`); on layer 0 the loop alternates `Fetch`, which promotes a batch of the
approximate frontier into the exact one and the results, and `Expand`, which opens the
nearest fetched node. Approximations are arbitrary numbers. `results` holds what pushing one
by one and popping the worst leaves, a function of the set pushed.

**`HnswBuild`** — construction. A step is one layer of one insertion, or the last pass.
The searches inside an insertion are taken by their promise, any local optimum, which is
what `BeamSearch` is proved to return; a level is any level; the number of hubs is any
number. `connect` and `prune_node` run for all selected neighbors in one step: they touch
different lists, so their order does not show. **`BuiltGraph`** says what the build promises
of the graph it leaves: as many layers as the highest level makes, capped lists, links only
within a layer or to the first node, a way out of every other node, and one from the first
node on every layer that has links.

**`KMeans`** — Lloyd's algorithm with k-means++ seeding, one cluster recomputed per step,
since an empty one is reseeded from centroids half of which have moved. Coordinates are
integers such that every mean is one (`WholeMeans`).

**`Ivf`** — extends it: an index from the store to one query. It trains the cells, posts the
vectors, trains one codebook per subspace, encodes, and answers `search` or `search_hybrid`
with all their early returns. The exact scan is the operator `BruteForce`.

**`ShardedBuild`** — extends `KMeans` and `BuiltGraph`: `build_sharded` with its fall-backs to
`build`. The graph of one shard is any, of any height, that keeps the promise of
`BuiltGraph`, which `HnswBuild` is proved to keep; the constant operator `Graphs` bounds them
for TLC, the proofs hold whatever it is.

**`Layout`** — extends `ShardedBuild`: the breadth-first order over its graphs, or an order
that the caller gives, then the rewritten store and the relabeled index, or the refusal.

**`Kernels`** — the choice of a kernel from the features of the CPU and the loop of each
kernel, described by how many elements an iteration adds and loads. `sum` counts how often
each element is in the result, `reach` how far loads went.

**`BlockLayout`** — the geometry of the vector file as operators, and the header at its
start, which is all that the writer and the reader share of it.

**`StoreFile`** — `StoreWriter` and the reader's checks. A byte is an element of a
sequence and says which byte of which vector it is. The writer's bytes pass through a
`BufWriter`, so any prefix of them may be on disk (`Drain`), also when the writer dies
(`Abandon`); the header goes last. Its fields are cut to their width. `Opens` is
`from_bytes` with `with_backend`.

**`FetchSchedule`** — a batch: `PlanOf` is `plan`, `RunSpans` the second grouping loop,
`Scatter` the list of buffers of a run, and `Preadv` one call to the kernel, which fills
any number of bytes, in buffer order, and takes at most `IovMax` buffers.

**`Storage`** — extends both: a reader opens the file a writer left on disk and fetches
from it by the layout in that file's header, and its bytes are compared with those pushed.

**`UpdateLog`**, **`Bundle`** — the directory and the processes on it. A file is what a
reader can tell about it: absent, empty, torn, or the build it belongs to. `build_bundle`
is five steps and `open_bundle` four, one for each file touched, so that other processes
and deaths come between them. `acked` and `ackedDeletes` remember the edits whose flush
returned success, `builds` which build was begun last. `std::fs::write` is a truncation and a write, and two of them that
overlap may leave a malformed file. Two builds at once into one directory are left out.

**`Overlay`** — `Bundle::search` over a log. The index answers with any set of stored ids
of the size asked for.

Definitions called *a slip* are not part of any specification: each is a plausible
mistake in the definition after it, and shows that a property notices it.

## The runs

| Run | Bounds | What it shows |
| --- | --- | --- |
| `topk` | 2 ids × 2 scores, k ≤ 2, streams of 5 | `ResultIsReference`: wherever the stream ends, the answer is the first k of it sorted, however ties fall. Five offers fill a collector of two and then replace, reject and repeat. |
| `beam_search` | every graph of 4 nodes with out-degree ≤ 2, 3 distance functions with climbs and ties, widths 1 and 2, one or two starts | `SoundBeam`, `ReadsOnce`, `Terminates`, and `ImplementsPromise`: a refinement of `LayerSearch`. Four nodes are enough for a node to be turned away, an eviction after it, and a way around. |
| `hnsw_search` | 4 nodes, 0–2 upper layers, layer-0 graphs of out-degree 1 and four others, `ef_search` 1–2, k 0, 1, 3; approximations that agree, reverse and tell nothing, rerank ratios 1 and 1/2, batches of 1 and 4 (`fetch_batch_size` 0 and 4) | Of both queries: `LeavesAtLocalMinimum` in the descent, `AnswerIsFull` with k above and below `ef_search`, `SearchReturns`. `ExactAnswerIsLocallyBest` of `search`, and of `search_hybrid` when it promotes everything; `AnswerIsBestFetched` of `search_hybrid` always. Half a frontier of three is enough for a candidate to be passed over and taken later. |
| `hnsw_build` | 5 points on a line with coincident ones, levels 0–2, caps 1 and 3, beam 2 | `DegreesAreCapped`, `NobodyIsStranded`, `EntryStandsIn` through all insertions; `OnRampsKept`, `OthersAreTrimmed` for the last pass; `BuildKeepsPromise` of the graph it leaves, which `graph_layout` starts from. With these caps every insertion prunes. |
| `graph_layout` | stores of 0, 2 and 4 vectors; one shard, two disjoint, three that overlap; levels 0–2; on layer 0 every graph in which each node links one other, and those with the links back; caps 1 and 2; 5 orders of a caller, 3 of them no permutation of any store | `MergedCanBeEntered` although shards draw different levels for one node; `OrderIsBreadthFirst` over one component and several, `IslandsComeById` over several; `RelabelIsRenaming`: index and store after the rewrite say of every vector what they said before. The unions of the links of two shards exceed the caps, so merging prunes. |
| `ivf` | 5 stores of up to 4 vectors in the plane, 4 parameter sets, both metrics, with and without codes, 3 queries, 3 configurations, 3 iterations of k-means | `AllCellsIsBruteForce`, `StoredVectorIsFound`, `LosslessCodesGateExactly`, and `CostNeverRises` of every k-means run in it. The stores have duplicates, fewer vectors than cells, and seeds that leave a cluster empty. |
| `kernels` | every set of CPU features, 3 representations, lengths 0–35, stored vectors of any length up to that | `SumsEachOnce`, `LoadsInBounds`, `OnlyWhatTheCpuHas`. 35 is two chunks of the widest kernel and a tail of three. |
| `storage` | 10 geometries of the three dtypes (exact fit, tail, one per block, three too wide for the header), up to 5 vectors, header fields of 5 bits, batches of 3 with repeats and gaps, 3 buffers per call | `OpenedIsWhole` after a crash at any byte, `EventuallyOpens` for a geometry that fits the header; `DeliversWhatWasPushed` and `ChargesWhatItReads` under every pattern of short reads, `BatchEnds`. Three indices give runs of one, two and three with gaps of zero, one and more blocks. |
| `bundle` | 2 processes of which one edits, 2 builds with either backend and of one or two vectors, 2 inserts, 2 ids to delete | `StableIds`, `DeletesStay` across crashes, failed flushes, reopens and rebuilds of any length; `ManifestIsCommitPoint`: the manifest of the last build is readable only beside its store and its index; `LatestManifestMixesNothing`: so it is for what a handle took from files that were replaced while it read them. Two builds are enough for an old file to survive into a new build, a second process to be half way in opening. |
| `overlay` | up to 3 stored vectors, 2 scores, 3 edits, k ≤ 2, an id of no vector | `DeletedStaysHidden`, `AnswerIsFilled`, `ExactFromExact`. |

Two runs end in a counterexample, each to a sentence of the code's own comments:

- `fetch_iov_max`: a run of more buffers than `IOV_MAX` is refused by the kernel
  (`io.rs`: "fits `c_int` for any realistic run"). The real limit is 1024, the model's 3.
- `sharded_islands`: shards that share no vector are merged into a graph in which, from its
  one entry point, a single shard is reached (`hnsw.rs`: "searchable ... exactly like a
  monolithic build"). `graph_layout` shows what the merged graph does keep.

Deadlock is not checked where the modelled activity ends by itself: a search that has
returned, a file that is finished, a graph that is built, a bundle whose bounds are used up.

*Fairness.* `BeamSearch` and `HybridSearch` (with `HnswSearch` in it) assume weak fairness of
the whole next step: they are loops of one thread, which run until they return. `Storage`
assumes it of the loop of a batch without the failing read, since a call to the kernel
returns, and of draining and finishing, not of pushing or failing: it describes a writer
whose caller finishes it. All other modules are checked for safety only.

## The proofs

Proved for every value of the constants that satisfies the named assumptions:

| Assumption | Says |
| --- | --- |
| `TopKAssumption` | ids and ks are naturals, scores integers |
| `SearchAssumption`, `QueryAssumption`, `HybridAssumption` | graphs, distances and entry sets range over `Node`, a finite set of naturals; widths are at least 1; entry points are nodes or none |
| `HnswBuildAssumption` | the nodes are 0 to n - 1, distances are integers, 0 < M ≤ MMax |
| `ShardedAssumption` | the vectors of a corpus have as many elements, M and MMax are positive, and no node is called `None`; nothing is assumed of `Graphs` |
| `IvfAssumption` | parameters are what `validate` accepts, vectors and queries of a store have as many elements, ratios are fractions |
| `MeansAreExact` | every element is a multiple of every size a cluster can have, so the rounding of floats plays no part |
| `StoreFileAssumption` | a layout is any dtype with any dimension and block size, also invalid ones, and the range of a header field is a power of two |
| `FetchAssumption`, `KernelAssumption`, `KMeansAssumption` | bounds are naturals, and a vectored read takes a buffer |
| `BundleAssumption`, `OverlayAssumption` | lengths and ids are naturals, and an absent, an empty and a torn file differ from each other and from what a writer writes |

Eight modules hold theorems; `Ranking` has lemmas alone.

- `CollectorKeepsTheBest`, `CollectorSorts` (`Scan_proofs`). Of every moment, `KeepsBest` is
  proved: as many as there is room for are kept, and none that was dropped ranks before one
  that was kept. The inductive invariant adds that the heap is a finite set of positions of
  the stream. The step that replaces the worst needs that `Less` is a total order up to
  equal neighbors (`LessIsOrder`). `CollectorSorts` is the reference: the value at place r
  of the answer, and the one at place r of the sorted stream, have fewer than r neighbors of
  the stream before them and at least r not after them, and only one value does
  (`OneStandsAt`).
- `BeamStaysSound`, `SearchReturnsLocalOptimum`, `BeamTypeCorrect`, `SearchImplementsPromise`
  (`HybridSearch_proofs`). None of the parts of `SoundBeam` is inductive alone. The invariant
  `IInv` joins them with: what is visited is reachable and finite, the frontier and the
  results are visited, a node in the frontier that left the results is no closer than any
  result, and the entry points are visited or still to be seeded. When the loop breaks, the
  popped candidate is the nearest of the frontier and farther than the worst result, so no
  result is left in the frontier, hence all neighbors of results were visited, and those not
  kept are no closer. When the frontier is empty and the beam is not full, the results are
  all that was visited, which is closed under neighbors, hence all that is reachable.
  `PushKeepsBeam` holds the case analysis of push and eviction, one lemma per action the
  rest. The refinement follows: a step that ends the loop is `Answer`, one that fails is
  `Fail`, all others stutter. `NodesAreReadOnce` counts the visits.
- `Ranking` holds what is common to the proofs. How many nodes are ahead numbers a finite
  set without gap, so the first n are n or all (`ForemostAreEnough`), and candidates are enough
  when n of them are ahead of whatever is not among them (`CandidatesAreEnough`). Induction
  over data is out of the provers' reach; `LeastNumber` and `MinimalSubset` stand in for it:
  were there a number, or a finite set, for which a claim fails, there would be a least one.
  This is how the folds and recursive functions of the models are proved about.
- `QueriesAreFull`, `QueriesAreLocallyBest`, `HybridAnswersBestFetched`,
  `DescentEndsAtMinima` (`HybridSearch_proofs`), of both queries. For `search` the invariant
  is that of the beam, from the call on layer 0 on. For `search_hybrid` it is `Gate`: a
  discovered node waits with an approximate distance or is fetched, never both; neighbors of
  what was expanded are discovered; the results are the ef best of all that was fetched, which
  pushing a batch keeps by `CandidatesAreEnough`; and after a round without a fetch, or with
  every round promoting all, nothing waits. So a loop that ends with room in the beam has
  fetched all that is reachable, and one that ends with a full beam has expanded every result.
- `DeletedNeverReturn`, `SearchIsFilled`, `OverlayIsExact` (`Overlay_proofs`). The invariant
  says that buffered ids start where stored ones end. As many tombstones as over-fetching
  adds can hide at most that many hits (`OverFetchSuffices`), so k live ones are left, or the
  index returned all it has; and k live hits are ahead of whatever was not fetched.
- `CapsHold`, `WaysOutStay`, `FirstNodeStandsIn`, `LastPassTrims`, `HubsStayReachable`,
  `BuildsAsPromised` (`HnswBuild_proofs`). One invariant carries the first five. `DegreesAreCapped` alone is
  inductive; that nobody is stranded is not, because a search inside an insertion could find
  nothing, or the node itself. So the invariant adds that edges of a layer join inserted
  nodes of that level, or the entry point (`EdgesWithin`); that a layer with edges rests on
  one with edges (`Tower`); and that the search of a layer starts from inserted nodes, and
  from the entry point when the layer has no edges yet (`Placed`). Then a search returns
  inserted nodes and at least one (`SearchStaysInOld`, `OptimumIsSome`), the node being
  inserted gets edges on every layer it is linked on (`LinkedSoFar`), and a layer that gets
  its first edges gets one at the entry point. `ClosestFits` is the counting argument behind
  every cap: ranks in a finite set are distinct numbers, so fewer than cap of them lie below
  cap, and one of them is 0. `TrimmedFits` is the one about the last pass: on-ramps and what
  is left of the budget stay within the list there was, so its second cap never fires.
  `BuildsAsPromised` is the premise of the theorems about merging and reordering. To the
  invariant it adds that the highest layer is the highest level drawn (`Risen`) and that no
  node links itself (`NoSelfLinks`).
- `EachOnce`, `InBounds`, `CpuHasThem` (`Scan_proofs`), for every length, where the run
  stops at 35. The invariant says that the elements before the loop's index were counted
  once and the others not at all, that the index does not pass the length, and that loads
  stay within the last chunk, which for the kernels that load wider than they use rests on
  the bound of their loop (`ahead`).
- `ManifestCommits`, `LatestHandlesAreWhole`, `FlushedInsertsStay`, `FlushedDeletesStay`
  (`Bundle_proofs`), for any number of processes, builds, lengths, crashes and edits. The last
  two assume that one process edits (`SingleEditor`): without it the code does not keep the
  promise (see the known limits). `Typed` ties what a handle holds to its phase. `Committing`
  says of the last build how far it has come, file by file, and that no manifest of it is
  readable before its last step; after it the files do not change until the next one begins
  (`Settled`). `HandlesFit` follows a reader: from the moment it holds the manifest of the
  last build, all it takes is of that build, or a newer one has begun. `LogKeeps` is the
  invariant behind both promises about edits: a log on disk, when it can be read, holds every
  acked edit; when no log is there, none was ever acked; and the log in the editor's memory
  holds the acked edits and those of its flush, so whatever prefix of its life survives, the
  next log contains them.
- `FilesOpenWhole`, `FetchedFilesOpenWhole` (`Storage_proofs`), of the writer alone and of the
  writer with a reader. The invariant `Packing` is about the body the writer has produced:
  vector i lies where `VectorOffset` will look for it (`Lies`), the cursor stands behind the
  last one (`AtEnd`), and a header that is not zero is that of the finished file.
  `PushReaches` is the heart: padding to the next block, or not, brings the cursor exactly to
  the place of the next vector, by the division lemmas `NextPlace` and `LayoutBounds`. The
  header may be cut to its fields' width. It is uncut whenever a file opens
  (`AcceptedIsUncut`): dimensions must match the layout of the caller, block sizes are powers
  of two, and one that does not fit its field, whose range is a power of two as well, becomes
  0 (`PowersDivide`), which no reader accepts.
- `BatchesDeliver`, `ChargesAreRead` (`Storage_proofs`), on top of it. `Delivering` has three
  parts. `Scheduled`: the order is the requested indices, each once and ascending, the
  windows of the executor's loop cut it into consecutive runs (`Tiles`), and the plan, which
  cuts the same order with another loop and charges as it goes, has the same runs and the sum
  of their extents (`Agree`, step by step along the order). `Progress`: the runs left are the
  rest of the schedule, what was visited are the windows before it, and what was read is
  what they cost, less what the current one still wants. `Filling`: within a run the buffers
  left have exactly the bytes from the cursor to the end of the run, every byte of a vector
  has its slot as destination and every gap the sink, and the slots hold what lies before the
  cursor. That a list of buffers is so to begin with is `ScatterCovers`; that any number of
  bytes in any number of buffers keeps it so, `FillingGoesOn`. At the end of the run the slots
  are the bytes of its vectors, which `Packing` says are those pushed.
- `MergedGraphCanBeEntered` (`Clustering_proofs`), for graphs of any height that keep the
  promise. `ShardInv` adds to `MergedCanBeEntered` what holds between two shards: every node
  has a level, there are exactly the layers that the levels drawn so far make, and the links
  of a layer join nodes of that level, or the first node of a shard, which stands in for one.
- `LayoutOrderIsBreadthFirst`. `Sweeping` is about the line of the nodes ordered and queued
  together: no node is in it twice, all neighbors of the ordered ones are in it, it is sorted
  by distance from the entry point, and the whole line is at most one link beyond its first
  unordered node. So a node not met yet is a link farther (`UnmetIsFarther`) and may be
  appended. Distances are the recursive function `Ball`, which `BallsUnfold` makes usable.
- `LayoutTakesIslandsById`. A node that no earlier one links was taken as a root, and the scan
  for roots ascends: `Islands` says that it was the least of those left (`SweepLeavesIslandsById`).
- `RelabelingRenames`. A list that passes the check has an inverse
  (`PermutationsHaveInverses`), and `Rewriting` says that the store was rewritten along it.
- `AllCellsAnswerExactly`, `StoredVectorsAreFound`, `LosslessGateIsExact`. `IvfInv` describes
  the index by its stage: what each k-means run is over and that it has centroids left
  (`Running`), that every vector is in the lists of its nearest cells (`Posted`), that a
  subspace with enough centroids is its column (`Trained`), and what a finished search has
  read. A nearest cell is always among the probed ones (`CellsAreProbed`), so a query equal
  to a vector is sent where the vector was posted; and codes that lose nothing tell the exact
  distance (`CodesTellDistances`).
- `ClusteringDescends`, the action property `CostNeverRises`. An assignment lowers the cost
  term by term. A recomputation changes the terms of one cluster only (`TotalWithPart`), and
  for those the mean is the best center (`MeanIsCentre`): sums over members of sums over
  coordinates may be taken in the other order (`RowsOrColumns`), and in one coordinate the
  cost of c exceeds that of the mean by a square (`MeanIsNearest`). An empty cluster has no
  terms, so its reseeding costs nothing. `Resting` says that no run is in the middle of an
  iteration when the next one starts. All of it rests on sums being additive, which for the
  fold of the community modules is `TotalIsPartialSum` and what follows it.

What is only model-checked: termination (`Terminates`, `SearchReturns`, `EventuallyOpens`,
`BatchEnds`), since liveness under fairness is outside the prover. The rounding of floats is in
no proof; `MeansAreExact` keeps it out, as the runs' vectors do.

## Known limits of the code that the models show

These behaviours are in the models, and no property asks otherwise. The first six are at odds
with a comment of the code, which is quoted:

- `IndexGraph.entry_point` is "the node with the highest level" (`hnsw.rs:211`). `insert_node`
  sets it for the first node only, whatever level later ones draw. `EntryStandsIn` shows why
  searches work all the same: the first node is linked on every layer that later nodes add.
- Nodes that the entry point does not lead to "are appended in id order" (`hnsw.rs:629-630`).
  Only the islands are (`IslandsComeById`): what the lowest node of one leads to comes right
  after it, so with 1 and 4 linking each other and 3 linking 1, the order goes 1, 4, 3.
- `relabel` leaves "every search result, once ids are mapped back" unchanged
  (`hnsw.rs:677-680`). Neighbors at one distance are ranked by id, so with k at a tie another
  of them is kept. `RelabelIsRenaming` shows that nothing else changes.
- The first buffered id is "the frozen store length" (`update.rs:91`). A rebuild leaves
  `updates.json`; after one with another number of vectors, buffered ids overlap those of the
  store or skip some.
- The configuration of a manifest is the one "the bundle was produced with" (`bundle.rs:54`). A
  rebuild that died, or is still running, after the store has files of two builds, and opening
  compares no more than the backend. Once the new manifest is there, all is of one build
  (`ManifestIsCommitPoint`, `LatestManifestMixesNothing`).
- "A buffered vector keeps a stable id across reopen" (`update.rs:30-31`). Two processes that
  edit at once give their vectors the same id, and the later flush erases the earlier one's,
  though it was acknowledged. With two editors `StableIds` fails; `bundle` has one.
- A delete of an id that was not given yet hides the vector later inserted under it.
- `IvfIndex::search_hybrid` never returns more than `fetch_batch_size` neighbors, also when
  k is larger; and it panics on a batch size of zero (`HybridPanics`), where the HNSW query takes one.
- `save_hnsw` and `save_ivf` drop their `BufWriter` without a flush: if the last write fails
  the build still reports success (`SaveIndex` may leave a torn file).
- A rebuild truncates the store under the map of a live handle.
- A crash in `flush` may leave a log that is refused, with all earlier inserts in it.
- A block of 4 GiB or more is written to the header as 0, so the finished file never opens
  (`Fits` in `StoreFile`).

## Not modelled

Element codecs (widening, quantization), random number generators, the conversion of counters
to milliseconds, the inner-product lookup table and memory accounting of the quantizer:
floating-point arithmetic, about which TLC and the provers say nothing. A distance is an
integer in every module; a random draw is a choice of what it can select. Serialization is
abstracted to accepted or torn. Parsing and printing of the command line, benchmarks, tests
and scripts keep no state. Two builds at once into one directory, and a read through a map
whose file was truncated, are left out of `Bundle`: the first mixes the bytes of two writers,
the second is undefined.

What a next step could take up: an abstract specification of a store, a map from ids to vectors that
a reader sees whole or not at all, which `Storage` implements; that k-means stops.
