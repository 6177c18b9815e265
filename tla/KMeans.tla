------------------------------- MODULE KMeans -------------------------------
(***************************************************************************)
(* Lloyd's algorithm with k-means++ seeding (slate-pq/src/kmeans.rs), which *)
(* trains the coarse cells of an IVF index and the codebooks of a product   *)
(* quantizer.  The caller starts a run over its points and takes the        *)
(* centroids when it is trained.                                           *)
(*                                                                         *)
(* Vectors are tuples of integers, all multiples of a number that every     *)
(* cluster size divides, so that means are integers; the rounding of floats *)
(* is left out.  The random numbers are a choice of what they can select.   *)
(***************************************************************************)
EXTENDS Integers, Sequences, FiniteSets, Functions

CONSTANT MaxIters          \* max_iters of a run

ASSUME KMeansAssumption == MaxIters \in Nat

VARIABLES points,          \* the training set, a sequence of vectors
          centroids,       \* the centroids so far
          want,            \* k
          assignment,      \* the cluster of each point
          changed,         \* the last assignment moved a point
          iter,            \* iterations begun
          cluster,         \* the cluster being recomputed
          kpc              \* "idle", "seed", "assign", "recompute" or "trained"

kmeansVars == <<points, centroids, want, assignment, changed, iter, cluster, kpc>>

\* Vectors of one space have as many elements.
SameSpace(V) == V \subseteq Seq(Int) /\ \A v, w \in V : Len(v) = Len(w)

Total(f) == FoldFunction(+, 0, f)

\* slate_simd::l2_sq
SquaredL2(a, b) == Total([d \in DOMAIN a |-> (a[d] - b[d]) * (a[d] - b[d])])

Indices(seq) == 1 .. Len(seq)

\* The first index at which f is least, or greatest: a scan that replaces on < or >.
ArgMin(f) == CHOOSE i \in DOMAIN f : \A j \in DOMAIN f : f[i] < f[j] \/ (f[i] = f[j] /\ i =< j)
ArgMax(f) == ArgMin([i \in DOMAIN f |-> 0 - f[i]])

KMeansIdle == /\ points = << >> /\ centroids = << >> /\ want = 0 /\ assignment = << >>
              /\ changed = FALSE /\ iter = 0 /\ cluster = 1 /\ kpc = "idle"

\* train: fewer points than centroids are their own centroids.
Train(ps, k) ==
  /\ points' = ps /\ want' = k
  /\ assignment' = [i \in Indices(ps) |-> 1]
  /\ changed' = FALSE /\ iter' = 0 /\ cluster' = 1
  /\ IF Len(ps) =< k THEN centroids' = ps /\ kpc' = "trained"
                     ELSE centroids' = << >> /\ kpc' = "seed"

-----------------------------------------------------------------------------
(* kmeans_plus_plus_init                                                   *)

\* d2: to the nearest centroid chosen already.
NearestSquared(i) == LET d == [c \in Indices(centroids) |-> SquaredL2(points[i], centroids[c])]
                     IN d[ArgMin(d)]

\* Any point is first; later ones are drawn with weight d2, uniformly if no weight is left.
\* A draw of exactly zero stops at the first point, whatever its weight.
Seedable == LET far == {i \in Indices(points) : NearestSquared(i) > 0}
            IN IF centroids = << >> \/ far = {} THEN Indices(points) ELSE far \cup {1}

Seed(i) == /\ kpc = "seed" /\ Len(centroids) < want
           /\ i \in Seedable
           /\ centroids' = Append(centroids, points[i])
           /\ kpc' = IF Len(centroids) + 1 = want THEN "assign" ELSE "seed"
           /\ UNCHANGED <<points, want, assignment, changed, iter, cluster>>

-----------------------------------------------------------------------------
\* assign_all: the nearest centroid of every point, the first of several.
AssignAll ==
  /\ kpc = "assign"
  /\ assignment' = [i \in Indices(points) |->
                      ArgMin([c \in Indices(centroids) |-> SquaredL2(points[i], centroids[c])])]
  /\ changed' = (assignment' # assignment)
  /\ iter' = iter + 1
  /\ cluster' = 1 /\ kpc' = "recompute"
  /\ UNCHANGED <<points, centroids, want>>

Members(c) == {i \in Indices(points) : assignment[i] = c}

\* A slip: the sum is divided by the number of points, not of members.
MeanOverAll(c) == [d \in DOMAIN points[1] |->
                     Total([i \in Members(c) |-> points[i][d]]) \div Len(points)]

Mean(c) == [d \in DOMAIN points[1] |->
              Total([i \in Members(c) |-> points[i][d]]) \div Cardinality(Members(c))]

\* farthest_point: from its assigned centroid, some of which are recomputed already.
FarthestPoint == ArgMax([i \in Indices(points) |-> SquaredL2(points[i], centroids[assignment[i]])])

Rounds == IF MaxIters < 1 THEN 1 ELSE MaxIters

\* recompute_centroids, one cluster: the mean of its points, or a new seed.
Recompute ==
  /\ kpc = "recompute"
  /\ centroids' = [centroids EXCEPT ![cluster] =
                     IF Members(cluster) = {} THEN points[FarthestPoint] ELSE Mean(cluster)]
  /\ IF cluster < want
       THEN cluster' = cluster + 1 /\ kpc' = "recompute"
       ELSE /\ cluster' = 1
            /\ kpc' = IF changed /\ iter < Rounds THEN "assign" ELSE "trained"
  /\ UNCHANGED <<points, want, assignment, changed, iter>>

KMeansStep == AssignAll \/ Recompute \/ \E i \in Indices(points) : Seed(i)

-----------------------------------------------------------------------------
\* Every size that a cluster can have divides every element: means are integers.
WholeMeans(ps) == \A i, k \in Indices(ps) : \A d \in DOMAIN ps[i] : ps[i][d] % k = 0

\* What Lloyd's algorithm descends.
Cost == Total([i \in Indices(points) |-> SquaredL2(points[i], centroids[assignment[i]])])

\* No step of a run makes the clustering worse: not an assignment, which starts from
\* everything in one cluster, and not a recomputation, although it reseeds empty
\* clusters in between, from distances to centroids that are half old and half new.
CostNeverRises ==
  [][(kpc \in {"assign", "recompute"}) => Cost' =< Cost]_kmeansVars
=============================================================================
