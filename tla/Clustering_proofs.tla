--------------------------- MODULE Clustering_proofs ---------------------------
(***************************************************************************)
(* Proofs about the two indexes that k-means partitions a corpus for: the   *)
(* sharded HNSW build with the layout that follows it (ShardedBuild,        *)
(* Layout), and the inverted file (Ivf).                                    *)
(***************************************************************************)
EXTENDS Layout, Ivf, Ranking, SequenceTheorems

-----------------------------------------------------------------------------
(* Sums.                                                                   *)

Any(s) == CHOOSE x \in s : TRUE

SumStep(g, f, s) == IF s = {} THEN 0 ELSE f[Any(s)] + g[s \ {Any(s)}]

\* What FoldFunction computes for every set of indices of f.
PartialSums(f) == CHOOSE g : g = [s \in SUBSET (DOMAIN f) |-> SumStep(g, f, s)]

\* Total is the last of the partial sums.
LEMMA TotalIsPartialSum == \A f : Total(f) = PartialSums(f)[DOMAIN f]
BY DEF Total, FoldFunction, FoldFunctionOnSet, MapThenFoldSet, PartialSums, SumStep, Any

LEMMA AnyIsMember == \A s : s # {} => Any(s) \in s
BY DEF Any

\* Partial sums exist for the sets of up to n indices, whatever n is.
LEMMA PartialSumsOfSmallSets ==
  ASSUME NEW f, IsFiniteSet(DOMAIN f), NEW n \in Nat
  PROVE  \E g : g = [s \in {t \in SUBSET (DOMAIN f) : Cardinality(t) <= n} |-> SumStep(g, f, s)]
<1> DEFINE S == DOMAIN f
           Level(m) == {s \in SUBSET S : Cardinality(s) <= m}
           Has(m) == \E g : g = [s \in Level(m) |-> SumStep(g, f, s)]
<1>0. \A s \in SUBSET S : IsFiniteSet(s) /\ Cardinality(s) \in Nat
  BY FS_Subset, FS_CardinalityType
<1>1. Has(0)
  <2> DEFINE g == [s \in Level(0) |-> 0]
  <2>1. \A s \in Level(0) : s = {}
    BY <1>0, FS_EmptySet
  <2>2. g = [s \in Level(0) |-> SumStep(g, f, s)]
    BY <2>1 DEF SumStep
  <2> QED
    BY <2>2
<1>2. ASSUME NEW m \in Nat, Has(m) PROVE Has(m + 1)
  <2>1. PICK g : g = [s \in Level(m) |-> SumStep(g, f, s)]
    BY <1>2
  <2> DEFINE h == [s \in Level(m + 1) |-> SumStep(g, f, s)]
  <2>2. ASSUME NEW s \in Level(m + 1), s # {} PROVE s \ {Any(s)} \in Level(m)
    <3>1. Cardinality(s \ {Any(s)}) = Cardinality(s) - 1
      BY <1>0, <2>2, AnyIsMember, FS_RemoveElement
    <3> QED
      BY <1>0, <3>1
  <2>3. \A s \in Level(m) : s \in Level(m + 1)
    BY <1>0
  <2> HIDE DEF Level
  <2>4. \A s \in Level(m) : h[s] = g[s]
    BY <2>1, <2>3
  <2>5. h = [s \in Level(m + 1) |-> SumStep(h, f, s)]
    BY <2>2, <2>4 DEF SumStep
  <2> QED
    BY <2>5
<1> HIDE DEF Has
<1>3. Has(n)
  <2> DEFINE Bad == {m \in Nat : ~ Has(m)}
  <2> SUFFICES ASSUME Bad # {} PROVE FALSE
    OBVIOUS
  <2>1. PICK m \in Bad : \A y \in Bad : m <= y
    BY LeastNumber
  <2>2. m # 0
    BY <1>1
  <2>3. m - 1 \in Nat /\ m - 1 \notin Bad /\ m - 1 + 1 = m
    BY <2>1, <2>2
  <2>4. Has(m - 1 + 1)
    BY <1>2, <2>3
  <2> QED
    BY <2>3, <2>4
<1> QED
  BY <1>3 DEF Has

\* A partial sum adds one term to another.
LEMMA PartialSumsUnfold ==
  ASSUME NEW f, IsFiniteSet(DOMAIN f), NEW s \in SUBSET (DOMAIN f)
  PROVE  PartialSums(f)[s] = SumStep(PartialSums(f), f, s)
<1> DEFINE n == Cardinality(DOMAIN f)
<1>1. n \in Nat
  BY FS_CardinalityType
<1>2. {t \in SUBSET (DOMAIN f) : Cardinality(t) <= n} = SUBSET (DOMAIN f)
  BY FS_Subset
<1>3. \E g : g = [t \in SUBSET (DOMAIN f) |-> SumStep(g, f, t)]
  <2>1. \E g : g = [t \in {t \in SUBSET (DOMAIN f) : Cardinality(t) <= n} |-> SumStep(g, f, t)]
    BY <1>1, PartialSumsOfSmallSets
  <2> QED
    BY <1>2, <2>1
<1>4. PartialSums(f) = [t \in SUBSET (DOMAIN f) |-> SumStep(PartialSums(f), f, t)]
  BY <1>3 DEF PartialSums
<1> QED
  BY <1>4

\* A sum of integers is an integer.
LEMMA PartialSumsAreIntegers ==
  ASSUME NEW S, IsFiniteSet(S), NEW f \in [S -> Int]
  PROVE  \A s \in SUBSET S : PartialSums(f)[s] \in Int
<1> DEFINE Bad == {s \in SUBSET S : PartialSums(f)[s] \notin Int}
<1> SUFFICES ASSUME Bad # {} PROVE FALSE
  OBVIOUS
<1>0. Bad \in SUBSET (SUBSET S)
  OBVIOUS
<1> HIDE DEF Bad
<1>1. PICK s \in Bad : \A t \in Bad : t \subseteq s => t = s
  BY <1>0, MinimalSubset
<1> USE DEF Bad
<1>2. PartialSums(f)[s] = SumStep(PartialSums(f), f, s)
  BY <1>1, PartialSumsUnfold
<1>3. s # {}
  BY <1>1, <1>2 DEF SumStep
<1>4. Any(s) \in s
  BY <1>3, AnyIsMember
<1>5. s \ {Any(s)} \in SUBSET S /\ s \ {Any(s)} \notin Bad
  BY <1>1, <1>4
<1>6. PartialSums(f)[s \ {Any(s)}] \in Int /\ f[Any(s)] \in Int
  BY <1>1, <1>4, <1>5
<1> QED
  BY <1>1, <1>2, <1>3, <1>6 DEF SumStep

LEMMA TotalIsInteger ==
  ASSUME NEW S, IsFiniteSet(S), NEW f \in [S -> Int]
  PROVE  Total(f) \in Int
<1>1. DOMAIN f = S /\ S \in SUBSET S
  OBVIOUS
<1>2. PartialSums(f)[S] \in Int
  BY <1>1, PartialSumsAreIntegers
<1> QED
  BY <1>1, <1>2, TotalIsPartialSum

\* A sum of numbers is no less than any of them.
LEMMA TotalIsNoLess ==
  ASSUME NEW S, IsFiniteSet(S), NEW f \in [S -> Nat]
  PROVE  /\ Total(f) \in Nat
         /\ \A x \in S : f[x] <= Total(f)
<1> DEFINE Sum(s) == PartialSums(f)[s]
           Bad == {s \in SUBSET S : ~ (Sum(s) \in Nat /\ \A x \in s : f[x] <= Sum(s))}
<1> SUFFICES ASSUME Bad # {} PROVE FALSE
  BY TotalIsPartialSum
<1>0. Bad \in SUBSET (SUBSET S)
  OBVIOUS
<1> HIDE DEF Bad
<1>1. PICK s \in Bad : \A t \in Bad : t \subseteq s => t = s
  BY <1>0, MinimalSubset
<1> USE DEF Bad
<1>2. Sum(s) = SumStep(PartialSums(f), f, s)
  BY <1>1, PartialSumsUnfold
<1>3. s # {}
  BY <1>1, <1>2 DEF SumStep
<1>4. Any(s) \in s
  BY <1>3, AnyIsMember
<1> DEFINE rest == s \ {Any(s)}
<1>5. rest \in SUBSET S /\ rest \notin Bad
  BY <1>1, <1>4
<1>6. Sum(rest) \in Nat /\ (\A x \in rest : f[x] <= Sum(rest)) /\ f[Any(s)] \in Nat
  BY <1>1, <1>4, <1>5
<1>7. Sum(s) = f[Any(s)] + Sum(rest)
  BY <1>2, <1>3 DEF SumStep
<1>8. \A x \in s : x = Any(s) \/ x \in rest
  OBVIOUS
<1>9. \A x \in s : f[x] \in Nat
  BY <1>1
<1> HIDE DEF Sum, rest
<1>10. Sum(s) \in Nat /\ \A x \in s : f[x] <= Sum(s)
  BY <1>6, <1>7, <1>8, <1>9
<1> QED
  BY <1>1, <1>10 DEF Sum

LEMMA TotalOfZeroes ==
  ASSUME NEW S, IsFiniteSet(S), NEW f \in [S -> {0}]
  PROVE  Total(f) = 0
<1> DEFINE Bad == {s \in SUBSET S : PartialSums(f)[s] # 0}
<1> SUFFICES ASSUME Bad # {} PROVE FALSE
  BY TotalIsPartialSum
<1>0. Bad \in SUBSET (SUBSET S)
  OBVIOUS
<1> HIDE DEF Bad
<1>1. PICK s \in Bad : \A t \in Bad : t \subseteq s => t = s
  BY <1>0, MinimalSubset
<1> USE DEF Bad
<1>2. PartialSums(f)[s] = SumStep(PartialSums(f), f, s)
  BY <1>1, PartialSumsUnfold
<1>3. s # {}
  BY <1>1, <1>2 DEF SumStep
<1>4. Any(s) \in s
  BY <1>3, AnyIsMember
<1>5. s \ {Any(s)} \in SUBSET S /\ s \ {Any(s)} \notin Bad
  BY <1>1, <1>4
<1>6. PartialSums(f)[s \ {Any(s)}] = 0 /\ f[Any(s)] = 0
  BY <1>1, <1>4, <1>5
<1> QED
  BY <1>1, <1>2, <1>3, <1>6 DEF SumStep

LEMMA TotalOfOne ==
  ASSUME NEW f, DOMAIN f = {1}, f[1] \in Int
  PROVE  Total(f) = f[1]
<1>1. IsFiniteSet(DOMAIN f)
  BY FS_Singleton
<1>2. Any({1}) = 1 /\ {1} \ {Any({1})} = {}
  BY AnyIsMember
<1>3. PartialSums(f)[{}] = 0
  BY <1>1, PartialSumsUnfold DEF SumStep
<1>4. PartialSums(f)[{1}] = f[1] + 0
  BY <1>1, <1>2, <1>3, PartialSumsUnfold DEF SumStep
<1> QED
  BY <1>4, TotalIsPartialSum

\* A sum does not depend on which term is added first.
LEMMA PartialSumsTakeAny ==
  ASSUME NEW S, IsFiniteSet(S), NEW f \in [S -> Int], NEW s \in SUBSET S, NEW x \in s
  PROVE  PartialSums(f)[s] = f[x] + PartialSums(f)[s \ {x}]
<1> DEFINE Sum(t) == PartialSums(f)[t]
           Bad == {t \in SUBSET S : \E y \in t : Sum(t) # f[y] + Sum(t \ {y})}
<1>1. \A t \in SUBSET S : Sum(t) \in Int
  BY PartialSumsAreIntegers
<1>2. \A t \in SUBSET S : t # {} => Any(t) \in t /\ Sum(t) = f[Any(t)] + Sum(t \ {Any(t)})
  BY AnyIsMember, PartialSumsUnfold DEF SumStep
<1>3. \A t \in S : f[t] \in Int
  OBVIOUS
<1> SUFFICES ASSUME Bad # {} PROVE FALSE
  OBVIOUS
<1>0. Bad \in SUBSET (SUBSET S)
  OBVIOUS
<1> HIDE DEF Bad, Sum
<1>4. PICK t \in Bad : \A r \in Bad : r \subseteq t => r = t
  BY <1>0, MinimalSubset
<1>5. PICK y \in t : Sum(t) # f[y] + Sum(t \ {y})
  BY <1>4 DEF Bad
<1>6. PICK z \in t : z = Any(t) /\ Sum(t) = f[z] + Sum(t \ {z})
  BY <1>0, <1>2, <1>5
<1>7. y # z
  BY <1>5, <1>6
<1> DEFINE both == t \ {y, z}
<1>8. t \ {y} \in SUBSET S /\ t \ {z} \in SUBSET S /\ both \in SUBSET S
  BY <1>0
<1>9. t \ {y} \notin Bad /\ t \ {z} \notin Bad
  BY <1>4, <1>5, <1>6
<1>10. Sum(t \ {y}) = f[z] + Sum(both) /\ Sum(t \ {z}) = f[y] + Sum(both)
  <2>1. z \in t \ {y} /\ y \in t \ {z} /\ (t \ {y}) \ {z} = both /\ (t \ {z}) \ {y} = both
    BY <1>7
  <2>2. \A r \in SUBSET S : r \notin Bad => \A e \in r : Sum(r) = f[e] + Sum(r \ {e})
    BY DEF Bad
  <2> QED
    BY <1>8, <1>9, <2>1, <2>2
<1>11. Sum(both) \in Int /\ f[y] \in Int /\ f[z] \in Int
  BY <1>0, <1>1, <1>3, <1>8
<1> HIDE DEF both
<1> QED
  BY <1>5, <1>6, <1>10, <1>11

\* Terms that are zero can be left out.
LEMMA TotalOfPart ==
  ASSUME NEW S, IsFiniteSet(S), NEW f \in [S -> Int], NEW T \in SUBSET S,
         \A x \in S \ T : f[x] = 0
  PROVE  Total(f) = Total([x \in T |-> f[x]])
<1> DEFINE g == [x \in T |-> f[x]]
           Bad == {s \in SUBSET S : PartialSums(f)[s] # PartialSums(g)[s \cap T]}
<1>1. IsFiniteSet(T) /\ g \in [T -> Int] /\ (\A x \in T : g[x] = f[x]) /\ DOMAIN f = S
      /\ \A x \in S : f[x] \in Int
  BY FS_Subset
<1>2. S \cap T = T /\ DOMAIN g = T
  OBVIOUS
<1> HIDE DEF g
<1> SUFFICES ASSUME Bad # {} PROVE FALSE
  <2>1. S \in SUBSET S
    OBVIOUS
  <2>2. Bad = {} => PartialSums(f)[S] = PartialSums(g)[T]
    BY <1>2, <2>1
  <2> HIDE DEF Bad
  <2> QED
    BY <1>1, <1>2, <2>2, TotalIsPartialSum DEF g
<1>0. Bad \in SUBSET (SUBSET S)
  OBVIOUS
<1> HIDE DEF Bad
<1>3. PICK s \in Bad : \A t \in Bad : t \subseteq s => t = s
  BY <1>0, MinimalSubset
<1>4. s \in SUBSET S /\ PartialSums(f)[s] # PartialSums(g)[s \cap T]
  BY <1>3 DEF Bad
<1>5. PartialSums(f)[s] = SumStep(PartialSums(f), f, s)
  BY <1>1, <1>4, PartialSumsUnfold
<1>6. s # {}
  <2> SUFFICES ASSUME s = {} PROVE FALSE
    OBVIOUS
  <2>1. {} \in SUBSET T /\ s \cap T = {}
    OBVIOUS
  <2>2. PartialSums(g)[{}] = 0
    BY <1>1, <1>2, <2>1, PartialSumsUnfold DEF SumStep
  <2> QED
    BY <1>4, <1>5, <2>1, <2>2 DEF SumStep
<1>7. PICK y \in s : PartialSums(f)[s] = f[y] + PartialSums(f)[s \ {y}]
  BY <1>5, <1>6, AnyIsMember DEF SumStep
<1>8. s \ {y} \in SUBSET S /\ s \ {y} \notin Bad
  BY <1>3, <1>4
<1>9. PartialSums(f)[s \ {y}] = PartialSums(g)[(s \ {y}) \cap T]
  BY <1>8 DEF Bad
<1>10. PartialSums(f)[s \ {y}] \in Int
  BY <1>8, PartialSumsAreIntegers
<1>11. CASE y \in T
  <2>1. s \cap T \in SUBSET T /\ y \in s \cap T /\ (s \cap T) \ {y} = (s \ {y}) \cap T
    BY <1>11
  <2>2. PartialSums(g)[s \cap T] = g[y] + PartialSums(g)[(s \cap T) \ {y}]
    BY <1>1, <2>1, PartialSumsTakeAny
  <2> QED
    BY <1>1, <1>4, <1>7, <1>9, <1>11, <2>1, <2>2
<1>12. CASE y \notin T
  <2>1. f[y] = 0 /\ (s \ {y}) \cap T = s \cap T
    BY <1>4, <1>12
  <2> QED
    BY <1>4, <1>7, <1>9, <1>10, <2>1
<1> QED
  BY <1>11, <1>12

\* A sum is linear.
Combines(S, h, f, k, g) == \A x \in S : h[x] = f[x] + k * g[x]

LEMMA TotalIsLinear ==
  ASSUME NEW S, IsFiniteSet(S), NEW f \in [S -> Int], NEW g \in [S -> Int], NEW k \in Int,
         NEW h \in [S -> Int], Combines(S, h, f, k, g)
  PROVE  Total(h) = Total(f) + k * Total(g)
<1> DEFINE Bad == {s \in SUBSET S : PartialSums(h)[s] # PartialSums(f)[s] + k * PartialSums(g)[s]}
<1> SUFFICES ASSUME Bad # {} PROVE FALSE
  BY TotalIsPartialSum
<1>0. Bad \in SUBSET (SUBSET S)
  OBVIOUS
<1> HIDE DEF Bad
<1>1. PICK s \in Bad : \A t \in Bad : t \subseteq s => t = s
  BY <1>0, MinimalSubset
<1>2. s \in SUBSET S /\ PartialSums(h)[s] # PartialSums(f)[s] + k * PartialSums(g)[s]
  BY <1>1 DEF Bad
<1>3. /\ PartialSums(f)[s] = SumStep(PartialSums(f), f, s)
      /\ PartialSums(g)[s] = SumStep(PartialSums(g), g, s)
      /\ PartialSums(h)[s] = SumStep(PartialSums(h), h, s)
  BY <1>2, PartialSumsUnfold
<1>4. s # {}
  <2>1. k * 0 = 0
    OBVIOUS
  <2> QED
    BY <1>2, <1>3, <2>1 DEF SumStep
<1>5. PICK y \in s : y = Any(s)
  BY <1>4, AnyIsMember
<1> DEFINE rest == s \ {y}
<1>6. rest \in SUBSET S /\ rest \notin Bad
  BY <1>1, <1>2
<1>7. PartialSums(h)[rest] = PartialSums(f)[rest] + k * PartialSums(g)[rest]
  BY <1>6 DEF Bad
<1>8. PICK a \in Int, b \in Int : a = PartialSums(f)[rest] /\ b = PartialSums(g)[rest]
  BY <1>6, PartialSumsAreIntegers
<1>9. PICK u \in Int, v \in Int : u = f[y] /\ v = g[y] /\ h[y] = u + k * v
  BY <1>2 DEF Combines
<1>10. /\ PartialSums(f)[s] = u + a /\ PartialSums(g)[s] = v + b
       /\ PartialSums(h)[s] = (u + k * v) + (a + k * b)
  BY <1>3, <1>4, <1>5, <1>7, <1>8, <1>9 DEF SumStep
<1>11. (u + k * v) + (a + k * b) = (u + a) + k * (v + b)
  OBVIOUS
<1> QED
  BY <1>2, <1>10, <1>11

\* A sum of larger terms is larger.
LEMMA TotalsCompare ==
  ASSUME NEW S, IsFiniteSet(S), NEW f \in [S -> Int], NEW g \in [S -> Int],
         \A x \in S : f[x] =< g[x]
  PROVE  Total(f) =< Total(g)
<1> DEFINE d == [x \in S |-> g[x] - f[x]]
<1>1. \A x \in S : f[x] \in Int /\ g[x] \in Int
  OBVIOUS
<1>2. d \in [S -> Nat] /\ \A x \in S : g[x] = f[x] + 1 * d[x]
  BY <1>1
<1> HIDE DEF d
<1>3. d \in [S -> Int]
  BY <1>2
<1>4. Total(g) = Total(f) + 1 * Total(d)
  <2>1. 1 \in Int /\ Combines(S, g, f, 1, d)
    BY <1>2 DEF Combines
  <2> QED
    BY <1>3, <2>1, TotalIsLinear
<1>5. Total(d) \in Nat /\ Total(f) \in Int
  BY <1>2, TotalIsNoLess, TotalIsInteger
<1> QED
  BY <1>4, <1>5

\* Equal terms.
LEMMA TotalOfEqual ==
  ASSUME NEW S, IsFiniteSet(S), NEW c \in Int
  PROVE  Total([x \in S |-> c]) = Cardinality(S) * c
<1> DEFINE f == [x \in S |-> c]
           Bad == {s \in SUBSET S : PartialSums(f)[s] # Cardinality(s) * c}
<1>1. f \in [S -> Int] /\ DOMAIN f = S /\ \A x \in S : f[x] = c
  OBVIOUS
<1> HIDE DEF f
<1> SUFFICES ASSUME Bad # {} PROVE FALSE
  BY <1>1, TotalIsPartialSum DEF f
<1>0. Bad \in SUBSET (SUBSET S)
  OBVIOUS
<1> HIDE DEF Bad
<1>2. PICK s \in Bad : \A t \in Bad : t \subseteq s => t = s
  BY <1>0, MinimalSubset
<1>3. s \in SUBSET S /\ PartialSums(f)[s] # Cardinality(s) * c
  BY <1>2 DEF Bad
<1>4. PartialSums(f)[s] = SumStep(PartialSums(f), f, s)
  BY <1>1, <1>3, PartialSumsUnfold
<1>5. s # {}
  <2>1. Cardinality({}) = 0 /\ 0 * c = 0
    BY FS_EmptySet
  <2> QED
    BY <1>3, <1>4, <2>1 DEF SumStep
<1>6. PICK y \in s : PartialSums(f)[s] = f[y] + PartialSums(f)[s \ {y}]
  BY <1>4, <1>5, AnyIsMember DEF SumStep
<1>7. s \ {y} \in SUBSET S /\ s \ {y} \notin Bad
  BY <1>2, <1>3
<1>8. PartialSums(f)[s \ {y}] = Cardinality(s \ {y}) * c
  BY <1>7 DEF Bad
<1>9. IsFiniteSet(s) /\ Cardinality(s) \in Nat /\ Cardinality(s \ {y}) = Cardinality(s) - 1
  BY <1>3, FS_Subset, FS_CardinalityType, FS_RemoveElement
<1>10. PICK n \in Nat : n = Cardinality(s)
  BY <1>9
<1>11. c + (n - 1) * c = n * c
  OBVIOUS
<1> QED
  BY <1>1, <1>3, <1>6, <1>8, <1>9, <1>10, <1>11

\* A table can be summed by rows or by columns.
Rows(S, D, F) == [x \in S |-> Total([d \in D |-> F[x][d]])]
Columns(S, D, F) == [d \in D |-> Total([x \in S |-> F[x][d]])]

LEMMA RowsOrColumns ==
  ASSUME NEW S, IsFiniteSet(S), NEW D, IsFiniteSet(D), NEW F \in [S -> [D -> Int]]
  PROVE  /\ Rows(S, D, F) \in [S -> Int] /\ Columns(S, D, F) \in [D -> Int]
         /\ Total(Rows(S, D, F)) = Total(Columns(S, D, F))
<1> DEFINE R == Rows(S, D, F)
           col == [d \in D |-> [x \in S |-> F[x][d]]]
           Part(s) == [d \in D |-> PartialSums(col[d])[s]]
           Bad == {s \in SUBSET S : PartialSums(R)[s] # Total(Part(s))}
<1>1. \A x \in S : F[x] \in [D -> Int] /\ F[x] = [d \in D |-> F[x][d]]
  OBVIOUS
<1>2. R \in [S -> Int] /\ \A x \in S : R[x] = Total(F[x])
  <2>1. \A x \in S : Total(F[x]) \in Int
    BY <1>1, TotalIsInteger
  <2>2. \A x \in S : Total([d \in D |-> F[x][d]]) = Total(F[x])
    BY <1>1
  <2> QED
    BY <2>1, <2>2 DEF Rows
<1>3. /\ \A d \in D : col[d] \in [S -> Int] /\ DOMAIN col[d] = S
      /\ \A d \in D : \A x \in S : col[d][x] = F[x][d]
      /\ \A d \in D : col[d] = [x \in S |-> F[x][d]]
  OBVIOUS
<1> HIDE DEF R, col
<1>4. \A s \in SUBSET S : Part(s) \in [D -> Int]
  BY <1>3, PartialSumsAreIntegers
<1>5. S \in SUBSET S /\ DOMAIN R = S
  BY <1>2
<1>6. Columns(S, D, F) = Part(S)
  <2>1. \A d \in D : Total(col[d]) = PartialSums(col[d])[S]
    BY <1>3, TotalIsPartialSum
  <2>2. \A d \in D : Total([x \in S |-> F[x][d]]) = PartialSums(col[d])[S]
    BY <1>3, <2>1
  <2> QED
    BY <2>2 DEF Columns
<1> HIDE DEF Part
<1>7. Bad = {}
  <2> SUFFICES ASSUME Bad # {} PROVE FALSE
    OBVIOUS
  <2>0. Bad \in SUBSET (SUBSET S)
    OBVIOUS
  <2> HIDE DEF Bad
  <2>1. PICK s \in Bad : \A t \in Bad : t \subseteq s => t = s
    BY <2>0, MinimalSubset
  <2>2. s \in SUBSET S /\ PartialSums(R)[s] # Total(Part(s))
    BY <2>1 DEF Bad
  <2>3. PartialSums(R)[s] = SumStep(PartialSums(R), R, s)
    BY <1>2, <2>2, PartialSumsUnfold
  <2>4. s # {}
    <3> SUFFICES ASSUME s = {} PROVE FALSE
      OBVIOUS
    <3>1. \A d \in D : PartialSums(col[d])[{}] = 0
      <4>1. \A d \in D : PartialSums(col[d])[{}] = SumStep(PartialSums(col[d]), col[d], {})
        BY <1>3, PartialSumsUnfold
      <4> QED
        BY <4>1 DEF SumStep
    <3>2. Part({}) \in [D -> {0}]
      BY <3>1 DEF Part
    <3>3. Total(Part({})) = 0
      BY <3>2, TotalOfZeroes
    <3> QED
      BY <2>2, <2>3, <3>3 DEF SumStep
  <2>5. PICK y \in s : PartialSums(R)[s] = R[y] + PartialSums(R)[s \ {y}]
    BY <2>3, <2>4, AnyIsMember DEF SumStep
  <2> DEFINE rest == s \ {y}
  <2>6. rest \in SUBSET S /\ rest \notin Bad /\ y \in S
    BY <2>1, <2>2
  <2>7. PartialSums(R)[rest] = Total(Part(rest))
    BY <2>6 DEF Bad
  <2>8. \A d \in D : Part(s)[d] = F[y][d] + 1 * Part(rest)[d]
    <3> SUFFICES ASSUME NEW d \in D PROVE Part(s)[d] = F[y][d] + 1 * Part(rest)[d]
      OBVIOUS
    <3>1. PICK c \in [S -> Int] : c = col[d]
      BY <1>3
    <3>2. PartialSums(c)[s] = c[y] + PartialSums(c)[s \ {y}]
      BY <2>2, PartialSumsTakeAny
    <3>3. Part(s)[d] = PartialSums(c)[s] /\ Part(rest)[d] = PartialSums(c)[rest] /\ c[y] = F[y][d]
      BY <1>3, <2>6, <3>1 DEF Part
    <3>4. Part(rest)[d] \in Int
      BY <1>4, <2>6
    <3> QED
      BY <3>2, <3>3, <3>4
  <2>9. Part(s) \in [D -> Int] /\ Part(rest) \in [D -> Int] /\ F[y] \in [D -> Int]
    BY <1>4, <1>1, <2>2, <2>6
  <2>10. PICK f \in [D -> Int], g \in [D -> Int], h \in [D -> Int] :
           f = F[y] /\ g = Part(rest) /\ h = Part(s)
    BY <2>9
  <2>11. \A d \in D : h[d] = f[d] + 1 * g[d]
    BY <2>8, <2>10
  <2>12. Total(h) = Total(f) + 1 * Total(g)
    <3>1. 1 \in Int /\ Combines(D, h, f, 1, g)
      BY <2>11 DEF Combines
    <3> QED
      BY <3>1, TotalIsLinear
  <2>13. Total(g) \in Int
    BY TotalIsInteger
  <2>14. R[y] = Total(f)
    BY <1>2, <2>6, <2>10
  <2> QED
    BY <2>2, <2>5, <2>7, <2>10, <2>12, <2>13, <2>14
<1>8. PartialSums(R)[S] = Total(Part(S))
  BY <1>5, <1>7
<1>9. Total(R) = PartialSums(R)[S]
  BY <1>5, TotalIsPartialSum
<1> QED
  BY <1>2, <1>4, <1>5, <1>6, <1>8, <1>9 DEF R

\* The sum of multiples of a number is its quotient that many times.
LEMMA TotalOfMultiples ==
  ASSUME NEW S, IsFiniteSet(S), NEW f \in [S -> Int], NEW k \in Nat \ {0},
         \A x \in S : f[x] % k = 0
  PROVE  k * (Total(f) \div k) = Total(f)
<1> DEFINE g == [x \in S |-> f[x] \div k]
           zero == [x \in S |-> 0]
<1>1. g \in [S -> Int] /\ zero \in [S -> {0}] /\ zero \in [S -> Int]
  OBVIOUS
<1>2. \A x \in S : f[x] = zero[x] + k * g[x]
  <2> SUFFICES ASSUME NEW x \in S PROVE f[x] = k * (f[x] \div k)
    <3>1. \A x \in S : k * (f[x] \div k) \in Int
      OBVIOUS
    <3> QED
      BY <3>1
  <2>1. PICK y \in Int : y = f[x] /\ y % k = 0
    OBVIOUS
  <2>2. y = k * (y \div k) + (y % k)
    OBVIOUS
  <2>3. y \div k \in Int
    OBVIOUS
  <2> QED
    BY <2>1, <2>2, <2>3
<1> HIDE DEF g, zero
<1>3. Total(f) = Total(zero) + k * Total(g)
  <2>1. k \in Int /\ Combines(S, f, zero, k, g)
    BY <1>2 DEF Combines
  <2> QED
    BY <1>1, <2>1, TotalIsLinear
<1>4. Total(zero) = 0
  BY <1>1, TotalOfZeroes
<1>5. PICK t \in Int : t = Total(g)
  BY <1>1, TotalIsInteger
<1>6. Total(f) = k * t
  BY <1>3, <1>4, <1>5
<1>7. (k * t) \div k = t
  BY MultipleHasNoRest
<1> QED
  BY <1>6, <1>7

-----------------------------------------------------------------------------
(* Vectors.                                                                *)

Space(d) == [1 .. d -> Int]

LEMMA Squares == \A x \in Int : x * x \in Nat /\ (x * x = 0 => x = 0)
<1> SUFFICES ASSUME NEW x \in Int PROVE x * x \in Nat /\ (x * x = 0 => x = 0)
  OBVIOUS
<1>1. CASE x >= 0
  BY <1>1
<1>2. CASE x < 0
  BY <1>2
<1> QED
  BY <1>1, <1>2

\* Of all numbers the mean is nearest to its terms, in squares.
IsMean(S, x, q) == Cardinality(S) * q = Total(x)

Spread(S, x, c) == Total([i \in S |-> (x[i] - c) * (x[i] - c)])

LEMMA MeanIsNearest ==
  ASSUME NEW S, IsFiniteSet(S), NEW x \in [S -> Int],
         NEW q \in Int, IsMean(S, x, q), NEW c \in Int
  PROVE  Spread(S, x, q) =< Spread(S, x, c)
<1> DEFINE a == [i \in S |-> (x[i] - q) * (x[i] - q)]
           b == [i \in S |-> (x[i] - c) * (x[i] - c)]
           w == [i \in S |-> -q - c]
           e == [i \in S |-> -q - c + 2 * x[i]]
<1>1. PICK u \in Int, n \in Nat : u = q - c /\ n = Cardinality(S)
  BY FS_CardinalityType
<1>2. \A i \in S : x[i] \in Int
  OBVIOUS
<1>3. a \in [S -> Int] /\ b \in [S -> Int] /\ w \in [S -> Int] /\ e \in [S -> Int]
  BY <1>2
<1>4. \A i \in S : e[i] = w[i] + 2 * x[i]
  OBVIOUS
<1>5. \A i \in S : b[i] = a[i] + u * e[i]
  <2> SUFFICES ASSUME NEW i \in S
               PROVE  (x[i] - c) * (x[i] - c) = (x[i] - q) * (x[i] - q) + u * (-q - c + 2 * x[i])
    OBVIOUS
  <2>1. PICK y \in Int : y = x[i]
    OBVIOUS
  <2>2. (y - c) * (y - c) = (y - q) * (y - q) + (q - c) * (-q - c + 2 * y)
    OBVIOUS
  <2> QED
    BY <1>1, <2>1, <2>2
<1>6. Total(w) = n * (-q - c)
  <2>1. -q - c \in Int
    OBVIOUS
  <2> QED
    BY <1>1, <2>1, TotalOfEqual
<1> HIDE DEF a, b, w, e
<1>7. Total(e) = Total(w) + 2 * Total(x)
  <2>1. 2 \in Int /\ Combines(S, e, w, 2, x)
    BY <1>4 DEF Combines
  <2> QED
    BY <1>3, <2>1, TotalIsLinear
<1>8. Total(b) = Total(a) + u * Total(e)
  <2>1. Combines(S, b, a, u, e)
    BY <1>5 DEF Combines
  <2> QED
    BY <1>3, <2>1, TotalIsLinear
<1>9. Total(e) = n * u
  <2>1. n * (-q - c) + 2 * (n * q) = n * (q - c)
    OBVIOUS
  <2> QED
    BY <1>1, <1>6, <1>7, <2>1 DEF IsMean
<1>10. u * (n * u) >= 0
  <2>1. u * (n * u) = n * (u * u) /\ u * u \in Nat
    BY Squares
  <2> QED
    BY <2>1
<1>11. Total(a) \in Int /\ Total(b) \in Int
  BY <1>3, TotalIsInteger
<1>12. PICK z \in Int : z = u * (n * u)
  OBVIOUS
<1>13. Total(b) = Total(a) + z /\ z >= 0
  BY <1>8, <1>9, <1>10, <1>12
<1>14. Total(a) =< Total(b)
  BY <1>11, <1>13
<1> QED
  BY <1>14 DEF a, b, Spread

\* SquaredL2 is a number, zero from a vector to itself and from nowhere else.
LEMMA SquaredL2Separates ==
  ASSUME NEW d \in Nat, NEW a \in Space(d), NEW b \in Space(d)
  PROVE  /\ SquaredL2(a, b) \in Nat
         /\ SquaredL2(a, a) = 0
         /\ SquaredL2(a, b) = 0 => a = b
<1> DEFINE square == [c \in DOMAIN a |-> (a[c] - b[c]) * (a[c] - b[c])]
           zero == [c \in DOMAIN a |-> (a[c] - a[c]) * (a[c] - a[c])]
<1>1. DOMAIN a = 1 .. d /\ DOMAIN b = 1 .. d /\ IsFiniteSet(1 .. d)
  BY FS_Interval DEF Space
<1>2. \A c \in 1 .. d : a[c] \in Int /\ b[c] \in Int /\ a[c] - b[c] \in Int
  BY DEF Space
<1>3. square \in [1 .. d -> Nat]
  BY <1>1, <1>2, Squares
<1>4. zero \in [1 .. d -> {0}]
  BY <1>1, <1>2
<1>5. SquaredL2(a, b) = Total(square) /\ SquaredL2(a, a) = Total(zero)
  BY DEF SquaredL2
<1>6. ASSUME Total(square) = 0 PROVE a = b
  <2>1. \A c \in 1 .. d : square[c] \in Nat /\ square[c] <= 0
    BY <1>1, <1>3, <1>6, TotalIsNoLess
  <2>2. \A c \in 1 .. d : (a[c] - b[c]) * (a[c] - b[c]) = 0
    BY <1>1, <2>1
  <2>3. \A c \in 1 .. d : a[c] - b[c] = 0
    BY <1>2, <2>2, Squares
  <2>4. \A c \in 1 .. d : a[c] = b[c]
    BY <1>2, <2>3
  <2> QED
    BY <2>4 DEF Space
<1> HIDE DEF square, zero
<1> QED
  BY <1>1, <1>3, <1>4, <1>5, <1>6, TotalIsNoLess, TotalOfZeroes

LEMMA NumbersSeparate ==
  \A a, b \in Space(1) : /\ SquaredL2(a, b) \in Nat /\ SquaredL2(a, a) = 0
                         /\ SquaredL2(a, b) = 0 => a = b
<1>1. PICK n \in Nat : n = 1
  OBVIOUS
<1>2. \A a, b \in Space(n) : /\ SquaredL2(a, b) \in Nat /\ SquaredL2(a, a) = 0
                             /\ SquaredL2(a, b) = 0 => a = b
  BY SquaredL2Separates
<1> QED
  BY <1>1, <1>2

\* In one dimension it is the square of the difference.
LEMMA SquaredL2OfOne ==
  ASSUME NEW x \in Int, NEW y \in Int
  PROVE  SquaredL2(<<x>>, <<y>>) = (x - y) * (x - y)
<1> DEFINE square == [c \in DOMAIN <<x>> |-> (<<x>>[c] - <<y>>[c]) * (<<x>>[c] - <<y>>[c])]
<1>1. DOMAIN square = {1} /\ square[1] = (x - y) * (x - y) /\ square[1] \in Int
  OBVIOUS
<1> HIDE DEF square
<1>2. Total(square) = square[1]
  BY <1>1, TotalOfOne
<1> QED
  BY <1>1, <1>2 DEF SquaredL2, square

\* The vectors of a sequence that share a space share the number of their elements.
LEMMA OneSpace ==
  ASSUME NEW s \in Seq(Seq(Int)), NEW V, SameSpace(Range(s) \cup V)
  PROVE  \E d \in Nat : (\A i \in Indices(s) : s[i] \in Space(d)) /\ V \subseteq Space(d)
<1> DEFINE W == Range(s) \cup V
<1>1. W \subseteq Seq(Int) /\ \A v, w \in W : Len(v) = Len(w)
  BY DEF SameSpace
<1>2. \A i \in Indices(s) : s[i] \in W
  BY DEF Indices, Range
<1>3. V \subseteq W
  OBVIOUS
<1> HIDE DEF W
<1>4. CASE W = {}
  BY <1>2, <1>3, <1>4
<1>5. CASE W # {}
  <2>1. PICK w \in W : TRUE
    BY <1>5
  <2>2. Len(w) \in Nat
    BY <1>1, <2>1
  <2>3. \A v \in W : v \in Space(Len(w))
    BY <1>1, <2>1 DEF Space
  <2> QED
    BY <1>2, <1>3, <2>2, <2>3
<1> QED
  BY <1>4, <1>5

\* A scan for the least of some integers finds the first of the least.
LEMMA ArgMinIsLeast ==
  ASSUME NEW S \in SUBSET Nat, IsFiniteSet(S), S # {}, NEW f \in [S -> Int]
  PROVE  /\ ArgMin(f) \in S
         /\ \A j \in S : f[ArgMin(f)] < f[j] \/ (f[ArgMin(f)] = f[j] /\ ArgMin(f) =< j)
<1>1. Ranked(S, f)
  BY DEF Ranked
<1> DEFINE rank == [a \in S |-> Cardinality(AllAhead(S, f, a))]
           n == Cardinality(S)
<1>2. rank \in Bijection(S, 0 .. n - 1)
  BY <1>1, RanksAreABijection
<1>3. n \in Nat /\ n # 0
  BY FS_CardinalityType, FS_EmptySet
<1> HIDE DEF n
<1>4. PICK a \in S : rank[a] = 0
  <2> HIDE DEF rank
  <2> QED
    BY <1>2, <1>3 DEF Bijection, Surjection
<1>5. Cardinality(AllAhead(S, f, a)) = 0 /\ IsFiniteSet(AllAhead(S, f, a))
  BY <1>1, <1>4, AheadCounts
<1>6. AllAhead(S, f, a) = {}
  BY <1>5, FS_EmptySet
<1>7. \A j \in S : a = j \/ Ahead(f, a, j)
  BY <1>1, <1>6, AheadOrders DEF AllAhead
<1>8. \A j \in S : f[a] < f[j] \/ (f[a] = f[j] /\ a =< j)
  BY <1>7 DEF Ahead
<1>9. DOMAIN f = S
  OBVIOUS
<1> QED
  BY <1>8, <1>9 DEF ArgMin

-----------------------------------------------------------------------------
(* The sharded build.                                                      *)

\* A graph on one layer.
Links == [Node -> SUBSET Node]

ShardTyped ==
  /\ corpus \in Corpora /\ sharding \in Shardings
  /\ phase \in {"build", "train", "merge", "built", "order", "ordered", "rewritten",
                "refused", "laid out"}
  /\ adjacency \in Seq(Links)
  /\ entry \in Node \cup {None}
  /\ codes \in {<< >>, corpus}
  /\ phase \in {"build", "train"} => members = << >> /\ adjacency = << >> /\ levels = << >>
  /\ phase \notin {"build", "train"} => DOMAIN levels = Node /\ Len(adjacency) >= 1
  /\ phase = "train" => Node # {}

LevelsMakeLayers ==
  (\A n \in Node : levels[n] < Len(adjacency)) /\ \E n \in Node : levels[n] + 1 = Len(adjacency)

\* While shards are merged the highest level a node has is that of the highest layer.
Merging ==
  phase = "merge" =>
    /\ Node # {}
    /\ levels \in [Node -> Nat]
    /\ LevelsMakeLayers
    /\ todo \subseteq DOMAIN members
    /\ \A s \in DOMAIN members : s \in Nat /\ members[s] \in SUBSET Node
    /\ LinksStayInLayer

ShardInv == ShardTyped /\ Merging /\ MergedCanBeEntered

LEMMA NodesAreFinite ==
  ASSUME corpus \in Corpora
  PROVE  /\ Node \in SUBSET Nat /\ IsFiniteSet(Node)
         /\ Node = 1 .. Len(corpus) /\ Len(corpus) \in Nat /\ None \notin Node
         /\ \E d \in Nat : \A n \in Node : corpus[n] \in Space(d)
<1>1. /\ corpus \in Seq(Seq(Int)) /\ SameSpace(Range(corpus) \cup {})
      /\ None \notin Nat
  BY ShardedAssumption
<1>2. \E d \in Nat : \A n \in Indices(corpus) : corpus[n] \in Space(d)
  BY <1>1, OneSpace
<1>3. Len(corpus) \in Nat
  BY <1>1
<1>4. IsFiniteSet(1 .. Len(corpus))
  BY <1>3, FS_Interval
<1>5. Node = 1 .. Len(corpus) /\ Indices(corpus) = Node
  BY DEF Node, Indices
<1>6. Node \in SUBSET Nat /\ None \notin Node
  BY <1>1, <1>3, <1>5
<1> QED
  BY <1>2, <1>3, <1>4, <1>5, <1>6

LEMMA FirstIsMember ==
  ASSUME NEW S \in SUBSET Nat, S # {}
  PROVE  First(S) \in S
<1>1. \E n \in S : \A m \in S : n =< m
  BY LeastNumber
<1> QED
  BY <1>1 DEF First

\* The links of a shard's layers join its members: on each layer those that drew its
\* level, or the first.
LinkMembers(S, l, layers) ==
  \A h \in 1 .. Len(layers) : \A n \in Node : \A w \in layers[h][n] : \A z \in {n, w} :
    z \in S /\ (l[z] >= h - 1 \/ z = First(S))

\* What the merge needs of a graph that build_resident leaves.
LEMMA ShardGraphFits ==
  ASSUME corpus \in Corpora, NEW S \in SUBSET Node, S # {}, NEW g \in BuildResident(S)
  PROVE  /\ g.top \in Nat
         /\ g.level \in [S -> 0 .. g.top] /\ \E n \in S : g.level[n] = g.top
         /\ LayersOf(g) \in Seq(Links) /\ Len(LayersOf(g)) = g.top + 1
         /\ LinkMembers(S, g.level, LayersOf(g))
<1>1. Layered(S, g) /\ LinksInLayer(S, First(S), g)
  BY DEF BuildResident, Built
<1>2. /\ g.top \in Nat
      /\ g.level \in [S -> 0 .. g.top] /\ \E n \in S : g.level[n] = g.top
      /\ g.adj \in [0 .. g.top -> [S -> SUBSET S]]
  BY <1>1 DEF Layered
<1>3. PICK top \in Nat : top = g.top
  BY <1>2
<1>4. PICK level \in [S -> 0 .. top] : level = g.level
  BY <1>2, <1>3
<1>5. PICK adj \in [0 .. top -> [S -> SUBSET S]] : adj = g.adj
  BY <1>2, <1>3
<1> DEFINE layers == [h \in 1 .. top + 1 |-> [n \in Node |-> IF n \in S THEN adj[h - 1][n] ELSE {}]]
<1>6. LayersOf(g) = layers
  <2>1. DOMAIN level = S
    BY <1>4
  <2> QED
    BY <1>3, <1>4, <1>5, <2>1 DEF LayersOf
<1>7. \A h \in 1 .. top + 1 : h - 1 \in 0 .. top
  BY <1>3
<1>8. \A h \in 1 .. top + 1 : layers[h] \in Links
  <2> SUFFICES ASSUME NEW h \in 1 .. top + 1 PROVE layers[h] \in Links
    OBVIOUS
  <2>1. adj[h - 1] \in [S -> SUBSET S]
    BY <1>5, <1>7
  <2> QED
    BY <2>1 DEF Links
<1>9. \A h \in 1 .. top + 1 : \A n \in Node :
        layers[h][n] = IF n \in S THEN adj[h - 1][n] ELSE {}
  OBVIOUS
<1>10. DOMAIN layers = 1 .. top + 1
  OBVIOUS
<1> HIDE DEF layers
<1>11. layers \in Seq(Links) /\ Len(layers) = top + 1
  <2>1. layers = [h \in 1 .. top + 1 |-> layers[h]]
    BY <1>10 DEF layers
  <2>2. PICK height \in Nat : height = top + 1
    BY <1>3
  <2>3. layers = [h \in 1 .. height |-> layers[h]] /\ DOMAIN layers = 1 .. height
    BY <1>10, <2>1, <2>2
  <2>4. \A h \in 1 .. height : layers[h] \in Links
    BY <1>8, <2>2
  <2>5. layers \in Seq(Links) /\ Len(layers) = height
    BY <2>3, <2>4, SMTT(20)
  <2> QED
    BY <2>2, <2>5
<1>12. LinkMembers(S, level, layers)
  <2> SUFFICES ASSUME NEW h \in 1 .. top + 1, NEW n \in Node, NEW w \in layers[h][n],
                      NEW z \in {n, w}
               PROVE  z \in S /\ (level[z] >= h - 1 \/ z = First(S))
    BY <1>11 DEF LinkMembers
  <2>1. n \in S /\ w \in adj[h - 1][n]
    BY <1>9
  <2>2. PICK l \in 0 .. top : l = h - 1
    BY <1>7
  <2>3. {n, w} \subseteq Linkable(S, First(S), g, l)
    BY <1>1, <1>3, <1>5, <2>1, <2>2 DEF LinksInLayer
  <2>4. z \in {x \in S : level[x] >= l} \cup {First(S)}
    BY <1>4, <2>3 DEF Linkable
  <2>5. First(S) \in S
    BY NodesAreFinite, FirstIsMember
  <2> QED
    BY <2>2, <2>4, <2>5
<1> QED
  BY <1>2, <1>3, <1>4, <1>6, <1>11, <1>12

\* The closest are among those there are, and no more than the cap.
LEMMA ClosestFits ==
  ASSUME corpus \in Corpora, NEW n \in Node, NEW S \in SUBSET Node, NEW cap \in Nat
  PROVE  Closest(n, S, cap) \subseteq S /\ Cardinality(Closest(n, S, cap)) =< cap
<1> DEFINE d == [a \in S |-> SquaredL2(corpus[n], corpus[a])]
<1>1. PICK dims \in Nat : \A a \in Node : corpus[a] \in Space(dims)
  BY NodesAreFinite
<1>2. \A a \in S : SquaredL2(corpus[n], corpus[a]) \in Int
  BY <1>1, SquaredL2Separates
<1>3. IsFiniteSet(S) /\ S \subseteq Nat
  BY NodesAreFinite, FS_Subset
<1>4. Ranked(S, d)
  BY <1>2, <1>3 DEF Ranked
<1>5. \A a \in S : AllAhead(S, d, a) = {b \in S :
         \/ SquaredL2(corpus[n], corpus[b]) < SquaredL2(corpus[n], corpus[a])
         \/ SquaredL2(corpus[n], corpus[b]) = SquaredL2(corpus[n], corpus[a]) /\ b < a}
  BY DEF AllAhead, Ahead
<1>6. Closest(n, S, cap) = Foremost(S, cap, d)
  BY <1>5 DEF Closest, Foremost
<1> HIDE DEF d
<1>7. /\ Foremost(S, cap, d) \subseteq S
      /\ cap <= Cardinality(S) => Cardinality(Foremost(S, cap, d)) = cap
      /\ Cardinality(S) <= cap => Foremost(S, cap, d) = S
  BY <1>4, ForemostAreEnough
<1>8. Cardinality(S) \in Nat
  BY <1>3, FS_CardinalityType
<1> QED
  BY <1>6, <1>7, <1>8

\* Some node has a level no other exceeds.
LEMMA HighestIsHighest ==
  ASSUME corpus \in Corpora, Node # {}, levels \in [Node -> Nat]
  PROVE  HighestNode \in Node /\ \A m \in Node : levels[m] =< levels[HighestNode]
<1> DEFINE depth == [n \in Node |-> 0 - levels[n]]
           least == ArgMin(depth)
<1>1. depth \in [Node -> Int]
  OBVIOUS
<1>2. /\ least \in Node
      /\ \A j \in Node : depth[least] < depth[j] \/ (depth[least] = depth[j] /\ least =< j)
  <2> HIDE DEF depth
  <2> QED
    BY <1>1, NodesAreFinite, ArgMinIsLeast
<1> HIDE DEF least
<1>3. \A m \in Node : levels[m] < levels[least] \/ (levels[m] = levels[least] /\ least =< m)
  BY <1>2
<1>4. /\ HighestNode \in Node
      /\ \A m \in Node : levels[m] < levels[HighestNode]
                          \/ (levels[m] = levels[HighestNode] /\ HighestNode =< m)
  BY <1>2, <1>3 DEF HighestNode
<1> QED
  BY <1>4

LEMMA ShardInitHolds == Init => ShardInv
<1> SUFFICES ASSUME Init PROVE ShardInv
  OBVIOUS
<1>1. ShardTyped
  BY DEF Init, ShardInit, ShardTyped
<1>2. Merging /\ MergedCanBeEntered
  BY DEF Init, ShardInit, Merging, MergedCanBeEntered
<1> QED
  BY <1>1, <1>2 DEF ShardInv

\* A build without shards.
LEMMA BuildWholeKeeps ==
  ASSUME ShardInv, BuildNothing \/ BuildWhole
  PROVE  ShardInv'
<1>0. /\ corpus \in Corpora /\ corpus' = corpus /\ Node' = Node /\ Links' = Links
      /\ members = << >> /\ members' = members /\ sharding' = sharding
  BY DEF ShardInv, ShardTyped, BuildNothing, BuildWhole, shardVars, Node, Links, Indices
<1>1. phase' = "built"
  BY DEF BuildNothing, BuildWhole
<1>2. CASE BuildNothing
  <2>1. Node = {}
    BY <1>2 DEF BuildNothing, Node, Indices
  <2>2. NoLinks \in Links
    BY DEF NoLinks, Links
  <2>3. adjacency' \in Seq(Links) /\ Len(adjacency') >= 1
    BY <1>2, <2>2 DEF BuildNothing
  <2>4. DOMAIN levels' = Node
    <3>1. phase = "build" /\ levels' = levels
      BY <1>2 DEF BuildNothing
    <3>2. levels' = << >>
      BY <3>1 DEF ShardInv, ShardTyped
    <3> QED
      BY <2>1, <3>2
  <2>5. ShardTyped'
    BY <1>0, <1>1, <1>2, <2>3, <2>4 DEF ShardInv, ShardTyped, BuildNothing
  <2> QED
    BY <1>0, <1>1, <2>5 DEF ShardInv, Merging, MergedCanBeEntered, Sharded
<1>3. CASE BuildWhole
  <2>1. Node # {}
    <3>1. corpus \in Seq(Seq(Int)) /\ corpus # << >>
      BY <1>0, <1>3, ShardedAssumption DEF BuildWhole
    <3>2. Len(corpus) \in Nat /\ Len(corpus) # 0
      BY <3>1
    <3>3. 1 \in Node
      BY <3>2 DEF Node, Indices
    <3> QED
      BY <3>3
  <2>2. PICK g \in BuildResident(Node) : levels' = g.level /\ adjacency' = LayersOf(g)
    BY <1>3 DEF BuildWhole
  <2>3. DOMAIN levels' = Node /\ adjacency' \in Seq(Links) /\ Len(adjacency') >= 1
    <3>1. /\ g.top \in Nat /\ g.level \in [Node -> 0 .. g.top]
          /\ LayersOf(g) \in Seq(Links) /\ Len(LayersOf(g)) = g.top + 1
      BY <1>0, <2>1, ShardGraphFits
    <3> QED
      BY <2>2, <3>1
  <2>4. entry' \in Node
    BY <1>0, <1>3, <2>1, NodesAreFinite, FirstIsMember DEF BuildWhole
  <2>5. ShardTyped'
    BY <1>0, <1>1, <1>3, <2>3, <2>4 DEF ShardInv, ShardTyped, BuildWhole
  <2> QED
    BY <1>0, <1>1, <2>5 DEF ShardInv, Merging, MergedCanBeEntered, Sharded
<1> QED
  BY <1>2, <1>3

LEMMA TrainShardsKeeps ==
  ASSUME ShardInv, TrainShards \/ RunKMeans
  PROVE  ShardInv'
<1>0. /\ corpus \in Corpora /\ UNCHANGED <<shardVars, graph>> /\ Node' = Node /\ Links' = Links
      /\ phase' = "train"
  BY DEF ShardInv, ShardTyped, TrainShards, RunKMeans, shardVars, Node, Links
<1>1. Node # {}
  <2>1. CASE TrainShards
    <3>1. sharding.shards > 1 /\ sharding.shards < Len(corpus)
      BY <2>1 DEF TrainShards
    <3>2. sharding.shards \in Nat /\ Len(corpus) \in Nat
      BY <1>0, NodesAreFinite, ShardedAssumption DEF ShardInv, ShardTyped
    <3>3. 1 \in Node
      BY <3>1, <3>2 DEF Node, Indices
    <3> QED
      BY <3>3
  <2>2. CASE RunKMeans
    BY <2>2 DEF ShardInv, ShardTyped, RunKMeans
  <2> QED
    BY <2>1, <2>2
<1>2. phase \in {"build", "train"}
  BY DEF TrainShards, RunKMeans
<1>3. ShardTyped'
  BY <1>0, <1>1, <1>2 DEF ShardInv, ShardTyped, shardVars, graph
<1> QED
  BY <1>0, <1>3 DEF ShardInv, Merging, MergedCanBeEntered

\* The merge begins with one layer without links.
LEMMA AssignKeeps ==
  ASSUME ShardInv, Assign
  PROVE  ShardInv'
<1>0. /\ corpus \in Corpora /\ corpus' = corpus /\ Node' = Node /\ Links' = Links
      /\ phase = "train" /\ phase' = "merge" /\ entry' = entry /\ codes' = codes
      /\ sharding' = sharding
      /\ adjacency' = <<NoLinks>> /\ levels' = [n \in Node |-> 0]
  BY DEF ShardInv, ShardTyped, Assign, Node, Links
<1>1. NoLinks \in Links
  BY DEF NoLinks, Links
<1>2. adjacency' \in Seq(Links) /\ Len(adjacency') = 1
  BY <1>0, <1>1
<1>3. ShardTyped'
  BY <1>0, <1>2 DEF ShardInv, ShardTyped
<1>4. Merging'
  <2>1. Node # {}
    BY <1>0 DEF ShardInv, ShardTyped
  <2>2. /\ todo' \subseteq DOMAIN members'
        /\ \A s \in DOMAIN members' : s \in Nat /\ members'[s] \in SUBSET Node
    BY DEF Assign, Indices
  <2>3. levels' \in [Node -> Nat] /\ LevelsMakeLayers'
    BY <1>0, <1>2, <2>1 DEF LevelsMakeLayers
  <2>4. LinksStayInLayer'
    <3>1. \A h \in Indices(adjacency') : \A n \in Node : adjacency'[h][n] = {}
      BY <1>0, <1>2 DEF Indices, NoLinks
    <3> QED
      BY <1>0, <3>1 DEF LinksStayInLayer, Indices
  <2> QED
    BY <1>0, <1>2, <2>1, <2>2, <2>3, <2>4 DEF Merging
<1> QED
  BY <1>0, <1>3, <1>4 DEF ShardInv, MergedCanBeEntered

LEMMA NextShardIsTodo ==
  ASSUME ShardInv, phase = "merge", todo # {}
  PROVE  NextShard \in todo /\ NextShard \in DOMAIN members /\ members[NextShard] \in SUBSET Node
<1>1. todo \in SUBSET Nat /\ todo \subseteq DOMAIN members
  BY DEF ShardInv, Merging
<1>2. \E s \in todo : \A t \in todo : s =< t
  BY <1>1, LeastNumber
<1>3. NextShard \in todo
  BY <1>2 DEF NextShard
<1> QED
  BY <1>1, <1>3 DEF ShardInv, Merging

LEMMA SkipShardKeeps ==
  ASSUME ShardInv, SkipShard
  PROVE  ShardInv'
<1>0. /\ corpus' = corpus /\ sharding' = sharding /\ members' = members /\ UNCHANGED graph
      /\ Node' = Node /\ Links' = Links /\ phase' = "merge" /\ phase = "merge"
  BY DEF SkipShard, Node, Links, Indices
<1>1. ShardTyped'
  BY <1>0 DEF ShardInv, ShardTyped, graph
<1>2. LinksStayInLayer' = LinksStayInLayer
  BY <1>0 DEF LinksStayInLayer, StandIns, graph, Indices
<1>3. Merging'
  BY <1>0, <1>2 DEF ShardInv, Merging, LevelsMakeLayers, graph, SkipShard
<1> QED
  BY <1>0, <1>1, <1>3 DEF ShardInv, MergedCanBeEntered

\* The union of two graphs has the links of both on every layer, and the layers of the
\* higher one.
LinksOfBoth(merged, a, b) ==
  \A h \in 1 .. Len(merged) : \A n \in Node : \A w \in merged[h][n] :
    (h =< Len(a) /\ w \in a[h][n]) \/ (h =< Len(b) /\ w \in b[h][n])

LEMMA MergedIsUnion ==
  ASSUME NEW layers \in Seq(Links), adjacency \in Seq(Links)
  PROVE  /\ Merged(layers) \in Seq(Links)
         /\ Len(Merged(layers)) = IF Len(layers) > Len(adjacency) THEN Len(layers) ELSE Len(adjacency)
         /\ LinksOfBoth(Merged(layers), adjacency, layers)
<1> DEFINE height == IF Len(layers) > Len(adjacency) THEN Len(layers) ELSE Len(adjacency)
           At(g, h) == IF h =< Len(g) THEN g[h] ELSE NoLinks
           merged == [h \in 1 .. height |-> [n \in Node |-> At(adjacency, h)[n] \cup At(layers, h)[n]]]
<1>1. Merged(layers) = merged
  BY DEF Merged
<1>2. NoLinks \in Links /\ \A n \in Node : NoLinks[n] = {}
  BY DEF NoLinks, Links
<1>3. height \in Nat
  OBVIOUS
<1>4. \A h \in 1 .. height : At(adjacency, h) \in Links /\ At(layers, h) \in Links
  BY <1>2, <1>3
<1>5. \A h \in 1 .. height : merged[h] \in Links
  <2> HIDE DEF At, height
  <2> QED
    BY <1>4 DEF Links
<1>6. merged \in Seq(Links) /\ Len(merged) = height
  <2> HIDE DEF At
  <2>1. DOMAIN merged = 1 .. height
    OBVIOUS
  <2> HIDE DEF height, merged
  <2>2. merged = [h \in 1 .. height |-> merged[h]]
    BY <2>1 DEF merged
  <2> QED
    BY <1>3, <1>5, <2>1, <2>2
<1>7. LinksOfBoth(merged, adjacency, layers)
  <2> SUFFICES ASSUME NEW h \in 1 .. height, NEW n \in Node, NEW w \in merged[h][n]
               PROVE  \/ h =< Len(adjacency) /\ w \in adjacency[h][n]
                      \/ h =< Len(layers) /\ w \in layers[h][n]
    <3> HIDE DEF merged, height
    <3> QED
      BY <1>6 DEF LinksOfBoth
  <2>1. w \in At(adjacency, h)[n] \/ w \in At(layers, h)[n]
    <3> HIDE DEF At, height
    <3> QED
      OBVIOUS
  <2> QED
    BY <1>2, <2>1
<1> HIDE DEF merged
<1> QED
  BY <1>1, <1>6, <1>7

LEMMA MergeShardKeeps ==
  ASSUME ShardInv, MergeShard
  PROVE  ShardInv'
<1> DEFINE S == members[NextShard]
<1>0. /\ corpus \in Corpora /\ corpus' = corpus /\ sharding' = sharding /\ members' = members
      /\ Node' = Node /\ Links' = Links /\ phase' = "merge" /\ phase = "merge"
      /\ entry' = entry /\ codes' = codes /\ todo # {} /\ S # {} /\ todo' \subseteq todo
  BY DEF ShardInv, ShardTyped, MergeShard, Node, Links, Indices
<1>1. S \in SUBSET Node /\ NextShard \in DOMAIN members
  BY <1>0, NextShardIsTodo
<1>2. First(S) \in StandIns
  BY <1>0, <1>1 DEF StandIns
<1>3. PICK g \in BuildResident(S) : adjacency' = Merged(LayersOf(g)) /\ levels' = Raised(g.level)
  BY DEF MergeShard
<1> HIDE DEF S
<1>4. /\ g.top \in Nat
      /\ g.level \in [S -> 0 .. g.top] /\ \E n \in S : g.level[n] = g.top
      /\ LayersOf(g) \in Seq(Links) /\ Len(LayersOf(g)) = g.top + 1
      /\ LinkMembers(S, g.level, LayersOf(g))
  BY <1>0, <1>1, ShardGraphFits
<1>5. PICK l \in [S -> 0 .. g.top] : l = g.level
  BY <1>4
<1>6. PICK layers \in Seq(Links) : layers = LayersOf(g) /\ Len(layers) = g.top + 1
  BY <1>4
<1>7. /\ adjacency \in Seq(Links) /\ levels \in [Node -> Nat] /\ Len(adjacency) \in Nat
      /\ LevelsMakeLayers /\ LinksStayInLayer
  BY <1>0 DEF ShardInv, ShardTyped, Merging
<1>8. /\ levels' \in [Node -> Nat]
      /\ \A n \in Node : levels'[n] = IF n \in S /\ l[n] > levels[n] THEN l[n] ELSE levels[n]
  <2>1. levels' = [n \in Node |-> IF n \in S /\ l[n] > levels[n] THEN l[n] ELSE levels[n]]
    BY <1>3, <1>5 DEF Raised
  <2>2. \A n \in S : l[n] \in Nat
    BY <1>4, <1>5
  <2> QED
    BY <1>7, <2>1, <2>2
<1>9. /\ adjacency' \in Seq(Links)
      /\ Len(adjacency') = IF Len(layers) > Len(adjacency) THEN Len(layers) ELSE Len(adjacency)
      /\ LinksOfBoth(adjacency', adjacency, layers)
  BY <1>3, <1>6, <1>7, MergedIsUnion
<1>10. /\ \A n \in Node : levels'[n] \in Nat /\ levels'[n] >= levels[n] /\ levels[n] \in Nat
       /\ \A n \in S : n \in Node /\ l[n] \in Nat /\ l[n] =< g.top /\ levels'[n] >= l[n]
  <2>1. ASSUME NEW n \in Node
        PROVE  levels'[n] \in Nat /\ levels'[n] >= levels[n] /\ levels[n] \in Nat
    <3>1. n \in S => l[n] \in Nat
      BY <1>4
    <3>2. levels[n] \in Nat /\ levels'[n] = IF n \in S /\ l[n] > levels[n] THEN l[n] ELSE levels[n]
      BY <1>7, <1>8
    <3> QED
      BY <3>1, <3>2
  <2>2. ASSUME NEW n \in S
        PROVE  n \in Node /\ l[n] \in Nat /\ l[n] =< g.top /\ levels'[n] >= l[n]
    <3>1. n \in Node /\ l[n] \in Nat /\ l[n] =< g.top
      BY <1>1, <1>4
    <3>2. levels[n] \in Nat /\ levels'[n] = IF n \in S /\ l[n] > levels[n] THEN l[n] ELSE levels[n]
      BY <1>7, <1>8, <3>1
    <3> QED
      BY <3>1, <3>2
  <2> QED
    BY <2>1, <2>2
<1>11. LevelsMakeLayers'
  <2>1. \A n \in Node : levels'[n] < Len(adjacency')
    <3> SUFFICES ASSUME NEW n \in Node PROVE levels'[n] < Len(adjacency')
      OBVIOUS
    <3>1. levels[n] < Len(adjacency) /\ levels[n] \in Nat
      BY <1>7 DEF LevelsMakeLayers
    <3>2. n \in S => l[n] \in Nat /\ l[n] =< g.top
      BY <1>10
    <3>3. levels'[n] = IF n \in S /\ l[n] > levels[n] THEN l[n] ELSE levels[n]
      BY <1>8
    <3> QED
      BY <1>4, <1>6, <1>7, <1>9, <3>1, <3>2, <3>3
  <2>2. \E n \in Node : levels'[n] + 1 = Len(adjacency')
    <3>1. CASE Len(layers) > Len(adjacency)
      <4>1. PICK n \in S : l[n] = g.top
        BY <1>4, <1>5
      <4>2. n \in Node /\ levels[n] < Len(adjacency) /\ levels[n] \in Nat
        BY <1>7, <1>10 DEF LevelsMakeLayers
      <4>3. levels'[n] = l[n]
        BY <1>4, <1>6, <1>7, <1>8, <3>1, <4>1, <4>2
      <4> QED
        BY <1>4, <1>6, <1>9, <3>1, <4>1, <4>2, <4>3
    <3>2. CASE ~ (Len(layers) > Len(adjacency))
      <4>1. PICK n \in Node : levels[n] + 1 = Len(adjacency)
        BY <1>7 DEF LevelsMakeLayers
      <4>2. n \in S => l[n] \in Nat /\ l[n] =< g.top
        BY <1>10
      <4>3. levels[n] \in Nat
        BY <1>7
      <4>4. levels'[n] = levels[n]
        BY <1>4, <1>6, <1>7, <1>8, <3>2, <4>1, <4>2, <4>3
      <4> QED
        BY <1>9, <3>2, <4>1, <4>4
    <3> QED
      BY <3>1, <3>2
  <2> QED
    BY <1>0, <2>1, <2>2 DEF LevelsMakeLayers
<1>12. LinksStayInLayer'
  <2>1. StandIns' = StandIns
    BY <1>0 DEF StandIns
  <2> SUFFICES ASSUME NEW h \in 1 .. Len(adjacency'), NEW n \in Node, adjacency'[h][n] # {},
                      NEW w \in {n} \cup adjacency'[h][n]
               PROVE  levels'[w] >= h - 1 \/ w \in StandIns
    BY <1>0, <2>1 DEF LinksStayInLayer, Indices
  <2>2. PICK x \in adjacency'[h][n] : w \in {n, x}
    OBVIOUS
  <2>3. h \in Nat /\ h >= 1
    BY <1>9
  <2>4. CASE h =< Len(adjacency) /\ x \in adjacency[h][n]
    <3>1. h \in 1 .. Len(adjacency) /\ w \in {n} \cup adjacency[h][n] /\ adjacency[h][n] # {}
      BY <1>7, <2>2, <2>3, <2>4
    <3>2. levels[w] >= h - 1 \/ w \in StandIns
      BY <1>7, <3>1 DEF LinksStayInLayer, Indices
    <3>3. adjacency[h] \in Links
      BY <1>7, <3>1
    <3>4. w \in Node
      BY <3>1, <3>3 DEF Links
    <3> QED
      BY <1>10, <2>3, <3>2, <3>4
  <2>5. CASE h =< Len(layers) /\ x \in layers[h][n]
    <3>1. h \in 1 .. Len(layers)
      BY <1>4, <1>6, <2>3, <2>5
    <3>2. LinkMembers(S, l, layers)
      BY <1>4, <1>5, <1>6
    <3>3. w \in S /\ (l[w] >= h - 1 \/ w = First(S))
      BY <2>2, <2>5, <3>1, <3>2 DEF LinkMembers
    <3> QED
      BY <1>2, <1>10, <2>3, <3>3
  <2> QED
    BY <1>9, <2>2, <2>4, <2>5 DEF LinksOfBoth
<1>13. ShardTyped'
  <2>1. Len(adjacency') >= 1 /\ DOMAIN levels' = Node
    BY <1>4, <1>6, <1>7, <1>8, <1>9
  <2> QED
    BY <1>0, <1>9, <2>1 DEF ShardInv, ShardTyped
<1>14. Merging'
  <2>1. todo' \subseteq DOMAIN members /\ \A s \in DOMAIN members : s \in Nat /\ members[s] \in SUBSET Node
    BY <1>0 DEF ShardInv, Merging
  <2> QED
    BY <1>0, <1>8, <1>11, <1>12, <2>1 DEF ShardInv, Merging
<1> QED
  BY <1>0, <1>13, <1>14 DEF ShardInv, MergedCanBeEntered

LEMMA CapAndEnterKeeps ==
  ASSUME ShardInv, CapAndEnter
  PROVE  ShardInv'
<1>0. /\ corpus \in Corpora /\ corpus' = corpus /\ sharding' = sharding /\ members' = members
      /\ Node' = Node /\ Links' = Links /\ phase' = "built" /\ phase = "merge"
      /\ levels' = levels /\ codes' = codes /\ entry' = HighestNode
  BY DEF ShardInv, ShardTyped, CapAndEnter, Node, Links, Indices, shardVars
<1>1. /\ adjacency \in Seq(Links) /\ levels \in [Node -> Nat] /\ Node # {}
      /\ LevelsMakeLayers /\ LinksStayInLayer
  BY <1>0 DEF ShardInv, ShardTyped, Merging
<1>2. \A h \in Nat : Cap(h) \in Nat
  BY ShardedAssumption DEF Cap
<1>3. \A h \in 1 .. Len(adjacency) : \A n \in Node :
        /\ adjacency[h][n] \in SUBSET Node
        /\ Closest(n, adjacency[h][n], Cap(h)) \subseteq adjacency[h][n]
        /\ Cardinality(Closest(n, adjacency[h][n], Cap(h))) =< Cap(h)
  <2> SUFFICES ASSUME NEW h \in 1 .. Len(adjacency), NEW n \in Node
               PROVE  /\ adjacency[h][n] \in SUBSET Node
                      /\ Closest(n, adjacency[h][n], Cap(h)) \subseteq adjacency[h][n]
                      /\ Cardinality(Closest(n, adjacency[h][n], Cap(h))) =< Cap(h)
    OBVIOUS
  <2>1. adjacency[h][n] \in SUBSET Node
    BY <1>1 DEF Links
  <2>2. Cap(h) \in Nat
    BY <1>2
  <2> QED
    BY <1>0, <2>1, <2>2, ClosestFits
<1>4. adjacency' = [h \in 1 .. Len(adjacency) |->
                      [n \in Node |-> Closest(n, adjacency[h][n], Cap(h))]]
  BY DEF CapAndEnter, Indices
<1>5. \A h \in 1 .. Len(adjacency) : adjacency'[h] \in Links
  BY <1>3, <1>4 DEF Links
<1>6. adjacency' \in Seq(Links) /\ Len(adjacency') = Len(adjacency)
  <2> DEFINE capped == adjacency'
  <2>1. DOMAIN capped = 1 .. Len(adjacency) /\ Len(adjacency) \in Nat
    BY <1>1, <1>4
  <2>2. capped = [h \in 1 .. Len(adjacency) |-> capped[h]]
    BY <1>4
  <2>3. \A h \in 1 .. Len(adjacency) : capped[h] \in Links
    BY <1>5
  <2> HIDE DEF capped
  <2>4. capped \in Seq(Links) /\ Len(capped) = Len(adjacency)
    BY <2>1, <2>2, <2>3
  <2> QED
    BY <2>4 DEF capped
<1>7. \A h \in 1 .. Len(adjacency) : \A n \in Node :
        /\ adjacency'[h][n] \subseteq adjacency[h][n]
        /\ Cardinality(adjacency'[h][n]) =< Cap(h)
  BY <1>3, <1>4
<1>8. levels[entry'] = Len(adjacency) - 1 /\ entry' \in Node
  <2>1. HighestNode \in Node /\ \A m \in Node : levels[m] =< levels[HighestNode]
    BY <1>0, <1>1, HighestIsHighest
  <2>2. levels[HighestNode] \in Nat /\ levels[HighestNode] < Len(adjacency)
    BY <1>1, <2>1 DEF LevelsMakeLayers
  <2>3. PICK n \in Node : levels[n] + 1 = Len(adjacency)
    BY <1>1 DEF LevelsMakeLayers
  <2>4. levels[n] =< levels[HighestNode] /\ levels[n] \in Nat
    BY <1>1, <2>1
  <2> QED
    BY <1>0, <1>1, <2>1, <2>2, <2>3, <2>4
<1>9. LinksStayInLayer'
  <2>1. StandIns' = StandIns
    BY <1>0 DEF StandIns
  <2>2. \A h \in 1 .. Len(adjacency) : \A n \in Node : adjacency[h][n] # {} =>
          \A w \in {n} \cup adjacency[h][n] : levels[w] >= h - 1 \/ w \in StandIns
    BY <1>1 DEF LinksStayInLayer, Indices
  <2>3. \A h \in 1 .. Len(adjacency) : \A n \in Node : adjacency'[h][n] # {} =>
          \A w \in {n} \cup adjacency'[h][n] : levels[w] >= h - 1 \/ w \in StandIns
    BY <1>7, <2>2
  <2> QED
    BY <1>0, <1>6, <2>1, <2>3 DEF LinksStayInLayer, Indices
<1>10. ShardTyped'
  <2>1. Len(adjacency') >= 1
    <3>1. PICK n \in Node : levels[n] + 1 = Len(adjacency)
      BY <1>1 DEF LevelsMakeLayers
    <3> QED
      BY <1>1, <1>6, <3>1
  <2>2. DOMAIN levels' = Node
    BY <1>0, <1>1
  <2> QED
    BY <1>0, <1>6, <1>8, <2>1, <2>2 DEF ShardInv, ShardTyped
<1>11. MergedCanBeEntered'
  <2>1. \A h \in Nat : Cap(h)' = Cap(h)
    BY DEF Cap
  <2>2. \A h \in Indices(adjacency') : \A n \in Node' : Cardinality(adjacency'[h][n]) =< Cap(h)
    BY <1>0, <1>6, <1>7 DEF Indices
  <2> QED
    BY <1>0, <1>6, <1>8, <1>9, <2>1, <2>2 DEF MergedCanBeEntered, Indices, Cap
<1> QED
  BY <1>0, <1>10, <1>11 DEF ShardInv, Merging

\* Nothing after the build changes the index.
LEMMA LayoutKeeps ==
  ASSUME ShardInv, UNCHANGED <<shardVars, graph>>,
         phase' = phase \/ phase \notin {"build", "train", "merge"},
         phase' \in {phase, "order", "ordered", "rewritten", "refused", "laid out"}
  PROVE  ShardInv'
<1>1. /\ corpus' = corpus /\ sharding' = sharding /\ members' = members /\ todo' = todo
      /\ adjacency' = adjacency /\ levels' = levels /\ entry' = entry /\ codes' = codes
      /\ Node' = Node /\ Links' = Links /\ StandIns' = StandIns
  BY DEF shardVars, graph, Node, Links, StandIns, Indices
<1>2. ShardTyped'
  BY <1>1 DEF ShardInv, ShardTyped
<1>3. LinksStayInLayer' = LinksStayInLayer
  BY <1>1 DEF LinksStayInLayer, Indices
<1>4. Merging'
  BY <1>1, <1>3 DEF ShardInv, Merging, LevelsMakeLayers
<1>5. MergedCanBeEntered'
  BY <1>1, <1>3 DEF ShardInv, MergedCanBeEntered, Sharded, Cap, Indices
<1> QED
  BY <1>2, <1>4, <1>5 DEF ShardInv

LEMMA ShardInvHolds == Spec => []ShardInv
<1>1. ShardInv /\ [Next]_vars => ShardInv'
  <2> SUFFICES ASSUME ShardInv, [Next]_vars PROVE ShardInv'
    OBVIOUS
  <2>1. CASE Build
    BY <2>1, BuildWholeKeeps, TrainShardsKeeps, AssignKeeps, SkipShardKeeps, MergeShardKeeps,
       CapAndEnterKeeps DEF Build, ShardNext
  <2>2. CASE StartOrder \/ Root \/ Expand \/ Ordered
    BY <2>2, LayoutKeeps DEF StartOrder, Root, Expand, Ordered, shardVars, graph
  <2>3. CASE \E o \in CallerOrders : CallerOrder(o)
    BY <2>3, LayoutKeeps DEF CallerOrder, shardVars, graph
  <2>4. CASE WriteReordered \/ RefuseOrder \/ Relabel
    BY <2>4, LayoutKeeps DEF WriteReordered, RefuseOrder, Relabel, shardVars, graph
  <2>5. CASE UNCHANGED vars
    BY <2>5, LayoutKeeps DEF vars, shardVars, graph
  <2> QED
    BY <2>1, <2>2, <2>3, <2>4, <2>5 DEF Next
<1> QED
  BY <1>1, ShardInitHolds, PTL DEF Spec

\* However k-means splits a corpus, whatever levels the nodes draw in their shards, and
\* whatever graphs build_resident leaves there as long as it keeps its promise (Built), the
\* graph that build_sharded merges has its entry point on the highest layer, keeps the
\* links of a layer among its nodes, and no list exceeds its cap.
THEOREM MergedGraphCanBeEntered == Spec => []MergedCanBeEntered
<1>1. ShardInv => MergedCanBeEntered
  BY DEF ShardInv
<1> QED
  BY <1>1, ShardInvHolds, PTL

-----------------------------------------------------------------------------
(* The relabeling.                                                         *)

\* An order that passes the check is a bijection, and Position its inverse.
LEMMA PermutationsHaveInverses ==
  ASSUME corpus \in Corpora, IsPermutation(order)
  PROVE  /\ Indices(order) = Node
         /\ \A new \in Node : order[new] \in Node /\ Position(order[new]) = new
         /\ \A old \in Node : Position(old) \in Node /\ order[Position(old)] = old
<1> DEFINE place == [new \in Node |-> order[new]]
<1>1. Indices(order) = Node
  BY DEF IsPermutation, Indices, Node
<1>2. place \in [Node -> Node] /\ \A a, b \in Node : place[a] = place[b] => a = b
  BY <1>1 DEF IsPermutation
<1>3. IsFiniteSet(Node)
  BY NodesAreFinite
<1>4. place \in Surjection(Node, Node)
  <2> HIDE DEF place
  <2>1. place \in Injection(Node, Node)
    BY <1>2 DEF Injection, IsInjective
  <2> QED
    BY <1>3, <2>1, FS_Injection
<1>5. \A old \in Node : \E new \in Node : order[new] = old
  BY <1>4 DEF Surjection
<1>6. \A old \in Node : Position(old) \in Node /\ order[Position(old)] = old
  BY <1>1, <1>5 DEF Position
<1>7. \A new \in Node : order[new] \in Node
  BY <1>2
<1>8. \A new \in Node : Position(order[new]) = new
  BY <1>2, <1>6, <1>7
<1> QED
  BY <1>1, <1>6, <1>7, <1>8

Rewriting ==
  phase \in {"rewritten", "laid out"} =>
    IsPermutation(order) /\ rewritten = [new \in Indices(order) |-> corpus[order[new]]]

\* The relabeled index is the index with every node renamed to its position.
LEMMA RelabelRenames ==
  ASSUME ShardInv, Rewriting, Relabel
  PROVE  /\ DOMAIN renamed'.adjacency = Indices(adjacency) /\ DOMAIN renamed'.levels = Node
         /\ DOMAIN renamed'.codes = Indices(codes)
         /\ \A h \in Indices(adjacency) : \A old, w \in Node :
              Position(w) \in renamed'.adjacency[h][Position(old)] <=> w \in adjacency[h][old]
         /\ \A old \in Node : renamed'.levels[Position(old)] = levels[old]
         /\ renamed'.entry = IF entry = None THEN None ELSE Position(entry)
         /\ \A old \in Indices(codes) : renamed'.codes[Position(old)] = codes[old]
<1>1. corpus \in Corpora /\ IsPermutation(order) /\ codes \in {<< >>, corpus}
  BY DEF ShardInv, ShardTyped, Rewriting, Relabel
<1>2. /\ \A new \in Node : order[new] \in Node /\ Position(order[new]) = new
      /\ \A old \in Node : Position(old) \in Node /\ order[Position(old)] = old
  BY <1>1, PermutationsHaveInverses
<1>3. \A x \in Node : (CHOOSE old \in Node : Position(old) = Position(x)) = x
  BY <1>2
<1>4. \A x \in Node : {o \in Node : Position(o) = Position(x)} = {x}
  BY <1>2
<1>5. Indices(codes) \subseteq Node
  <2>1. Len(<< >>) = 0
    OBVIOUS
  <2> QED
    BY <1>1, <2>1 DEF Indices, Node
<1>6. renamed' =
       [adjacency |-> [h \in Indices(adjacency) |-> [new \in Node |->
                         UNION {{Position(w) : w \in adjacency[h][old]} :
                                old \in {o \in Node : Position(o) = new}}]],
        levels |-> [new \in Node |-> levels[CHOOSE old \in Node : Position(old) = new]],
        entry  |-> IF entry = None THEN None ELSE Position(entry),
        codes  |-> [new \in Indices(codes) |-> codes[CHOOSE old \in Node : Position(old) = new]]]
  BY DEF Relabel
<1>7. /\ DOMAIN renamed'.adjacency = Indices(adjacency) /\ DOMAIN renamed'.levels = Node
      /\ DOMAIN renamed'.codes = Indices(codes)
      /\ renamed'.entry = IF entry = None THEN None ELSE Position(entry)
  BY <1>6
<1>8. ASSUME NEW h \in Indices(adjacency), NEW old \in Node, NEW w \in Node
      PROVE  Position(w) \in renamed'.adjacency[h][Position(old)] <=> w \in adjacency[h][old]
  <2>1. adjacency \in Seq(Links)
    BY DEF ShardInv, ShardTyped
  <2>2. adjacency[h] \in Links
    BY <2>1 DEF Indices
  <2>3. adjacency[h][old] \subseteq Node
    BY <2>2 DEF Links
  <2>4. renamed'.adjacency[h][Position(old)] =
          UNION {{Position(x) : x \in adjacency[h][o]} : o \in {old}}
    BY <1>2, <1>4, <1>6
  <2>5. renamed'.adjacency[h][Position(old)] = {Position(x) : x \in adjacency[h][old]}
    BY <2>4
  <2> QED
    BY <1>2, <2>3, <2>5
<1>9. \A old \in Node : renamed'.levels[Position(old)] = levels[old]
  BY <1>2, <1>3, <1>6
<1>10. \A old \in Indices(codes) : renamed'.codes[Position(old)] = codes[old]
  <2>1. \A old \in Indices(codes) : Indices(codes) = Node
    BY <1>1 DEF Indices, Node
  <2> QED
    BY <1>2, <1>3, <1>6, <2>1
<1> QED
  BY <1>7, <1>8, <1>9, <1>10

LEMMA RelabelIsFaithful ==
  ASSUME ShardInv, Rewriting, Relabel
  PROVE  RelabelIsRenaming'
<1> DEFINE old == [adjacency |-> adjacency, levels |-> levels, entry |-> entry, codes |-> codes]
<1>1. /\ corpus \in Corpora /\ IsPermutation(order) /\ codes \in {<< >>, corpus}
      /\ rewritten = [new \in Indices(order) |-> corpus[order[new]]]
      /\ DOMAIN levels = Node /\ entry \in Node \cup {None}
  BY DEF ShardInv, ShardTyped, Rewriting, Relabel
<1>2. /\ Indices(order) = Node
      /\ \A new \in Node : order[new] \in Node /\ Position(order[new]) = new
      /\ \A o \in Node : Position(o) \in Node /\ order[Position(o)] = o
  BY <1>1, PermutationsHaveInverses
<1>3. \A o \in Node : rewritten[Position(o)] = corpus[o]
  BY <1>1, <1>2
<1>4. /\ DOMAIN renamed'.adjacency = Indices(adjacency) /\ DOMAIN renamed'.levels = Node
      /\ DOMAIN renamed'.codes = Indices(codes)
      /\ \A h \in Indices(adjacency) : \A o, w \in Node :
           Position(w) \in renamed'.adjacency[h][Position(o)] <=> w \in adjacency[h][o]
      /\ \A o \in Node : renamed'.levels[Position(o)] = levels[o]
      /\ renamed'.entry = IF entry = None THEN None ELSE Position(entry)
      /\ \A o \in Indices(codes) : renamed'.codes[Position(o)] = codes[o]
  BY RelabelRenames
<1>5. \A n \in Node : \E o \in Node : n = Position(o)
  BY <1>2
<1>6. adjacency \in Seq(Links) /\ Len(adjacency) \in Nat /\ DOMAIN adjacency = Indices(adjacency)
  <2>1. adjacency \in Seq(Links)
    BY DEF ShardInv, ShardTyped
  <2> QED
    BY <2>1 DEF Indices
<1> HIDE DEF Position
<1>7. Meaning(rewritten, renamed').links = Meaning(corpus, old).links
  <2>1. Indices(renamed'.adjacency) = Indices(adjacency)
    <3>1. renamed'.adjacency =
            [h \in Indices(adjacency) |-> [new \in Node |->
                         UNION {{Position(w) : w \in adjacency[h][o]} :
                                o \in {b \in Node : Position(b) = new}}]]
      BY DEF Relabel
    <3>2. Len(renamed'.adjacency) = Len(adjacency)
      BY <1>6, <3>1 DEF Indices
    <3> QED
      BY <3>2 DEF Indices
  <2>2. ASSUME NEW h \in Indices(adjacency)
        PROVE  {<<rewritten[e[1]], rewritten[e[2]]>> :
                  e \in {l \in Node \X Node : l[2] \in renamed'.adjacency[h][l[1]]}}
               = {<<corpus[e[1]], corpus[e[2]]>> :
                  e \in {l \in Node \X Node : l[2] \in adjacency[h][l[1]]}}
    <3>1. ASSUME NEW a \in Node, NEW b \in Node, b \in renamed'.adjacency[h][a]
          PROVE  \E e \in {l \in Node \X Node : l[2] \in adjacency[h][l[1]]} :
                   <<rewritten[a], rewritten[b]>> = <<corpus[e[1]], corpus[e[2]]>>
      <4>1. PICK p \in Node, q \in Node : a = Position(p) /\ b = Position(q)
        BY <1>5
      <4>2. q \in adjacency[h][p] /\ rewritten[a] = corpus[p] /\ rewritten[b] = corpus[q]
        BY <1>3, <1>4, <3>1, <4>1
      <4>3. <<p, q>> \in {l \in Node \X Node : l[2] \in adjacency[h][l[1]]}
        BY <4>2
      <4> QED
        BY <4>2, <4>3
    <3>2. ASSUME NEW a \in Node, NEW b \in Node, b \in adjacency[h][a]
          PROVE  \E e \in {l \in Node \X Node : l[2] \in renamed'.adjacency[h][l[1]]} :
                   <<corpus[a], corpus[b]>> = <<rewritten[e[1]], rewritten[e[2]]>>
      <4>1. Position(b) \in renamed'.adjacency[h][Position(a)]
        BY <1>4, <3>2
      <4>2. <<Position(a), Position(b)>> \in {l \in Node \X Node : l[2] \in renamed'.adjacency[h][l[1]]}
        BY <1>2, <4>1
      <4> QED
        BY <1>3, <4>2
    <3> QED
      BY <3>1, <3>2
  <2>3. Meaning(rewritten, renamed').links =
          [h \in Indices(adjacency) |->
             {<<rewritten[e[1]], rewritten[e[2]]>> :
                  e \in {l \in Node \X Node : l[2] \in renamed'.adjacency[h][l[1]]}}]
    BY <1>4, <2>1 DEF Meaning
  <2>4. Meaning(corpus, old).links =
          [h \in Indices(adjacency) |->
             {<<corpus[e[1]], corpus[e[2]]>> :
                  e \in {l \in Node \X Node : l[2] \in adjacency[h][l[1]]}}]
    BY <1>1 DEF Meaning
  <2> QED
    BY <2>2, <2>3, <2>4
<1>8. Meaning(rewritten, renamed').levels = Meaning(corpus, old).levels
  <2>1. Meaning(rewritten, renamed').levels = {<<rewritten[n], renamed'.levels[n]>> : n \in Node}
    BY <1>4 DEF Meaning
  <2>2. Meaning(corpus, old).levels = {<<corpus[n], levels[n]>> : n \in Node}
    BY <1>1 DEF Meaning
  <2>3. \A o \in Node : <<rewritten[Position(o)], renamed'.levels[Position(o)]>> = <<corpus[o], levels[o]>>
    BY <1>3, <1>4
  <2> QED
    BY <1>2, <1>5, <2>1, <2>2, <2>3
<1>9. Meaning(rewritten, renamed').entry = Meaning(corpus, old).entry
  <2>1. None \notin Node
    BY <1>1, NodesAreFinite
  <2> QED
    BY <1>1, <1>2, <1>3, <1>4, <2>1 DEF Meaning
<1>10. Meaning(rewritten, renamed').codes = Meaning(corpus, old).codes
  <2>1. Meaning(rewritten, renamed').codes = {<<rewritten[n], renamed'.codes[n]>> : n \in Indices(codes)}
    BY <1>4 DEF Meaning
  <2>2. DOMAIN codes = Indices(codes)
    BY <1>1, ShardedAssumption DEF Indices
  <2>3. Meaning(corpus, old).codes = {<<corpus[n], codes[n]>> : n \in Indices(codes)}
    BY <2>2 DEF Meaning
  <2>4. Indices(codes) = {} \/ Indices(codes) = Node
    <3>1. Len(<< >>) = 0
      OBVIOUS
    <3> QED
      BY <1>1, <3>1 DEF Indices, Node
  <2>5. \A o \in Indices(codes) :
           <<rewritten[Position(o)], renamed'.codes[Position(o)]>> = <<corpus[o], codes[o]>>
    BY <1>3, <1>4, <2>4
  <2> QED
    BY <1>2, <1>5, <2>1, <2>3, <2>4, <2>5
<1>11. Meaning(rewritten, renamed') = Meaning(corpus, old)
  <2> HIDE DEF old
  <2>1. \A st, g : Meaning(st, g) = [links |-> Meaning(st, g).links, levels |-> Meaning(st, g).levels,
                                    entry |-> Meaning(st, g).entry, codes |-> Meaning(st, g).codes]
    BY DEF Meaning
  <2> QED
    BY <1>7, <1>8, <1>9, <1>10, <2>1
<1>12. /\ corpus' = corpus /\ adjacency' = adjacency /\ levels' = levels /\ entry' = entry
       /\ codes' = codes /\ rewritten' = rewritten
  BY DEF Relabel, shardVars, graph
<1> QED
  BY <1>11, <1>12 DEF RelabelIsRenaming

\* Relabeling an index to follow an order that passed the check renames its nodes and does
\* nothing else, whatever the order and the codes are, and for every graph that keeps
\* build_resident's promise or is merged from such graphs, with any number of layers.
THEOREM RelabelingRenames == Spec => []RelabelIsRenaming
<1> DEFINE Inv == Rewriting /\ RelabelIsRenaming
<1>1. Init => Inv
  BY DEF Init, ShardInit, Rewriting, RelabelIsRenaming
<1>2. ShardInv /\ Inv /\ [Next]_vars => Inv'
  <2> SUFFICES ASSUME ShardInv, Inv, [Next]_vars PROVE Inv'
    OBVIOUS
  <2>1. CASE Build
    <3>1. phase' \in {"built", "train", "merge"}
      BY <2>1 DEF Build, ShardNext, BuildNothing, BuildWhole, TrainShards, RunKMeans, Assign,
         SkipShard, MergeShard, CapAndEnter
    <3> QED
      BY <3>1 DEF Rewriting, RelabelIsRenaming
  <2>2. CASE StartOrder \/ Root \/ Expand \/ Ordered \/ RefuseOrder
    BY <2>2 DEF StartOrder, Root, Expand, Ordered, RefuseOrder, Rewriting, RelabelIsRenaming
  <2>3. CASE \E o \in CallerOrders : CallerOrder(o)
    BY <2>3 DEF CallerOrder, Rewriting, RelabelIsRenaming
  <2>4. CASE WriteReordered
    <3>1. IsPermutation(order)' = IsPermutation(order) /\ corpus' = corpus /\ order' = order
      BY <2>4 DEF WriteReordered, IsPermutation, Node, Indices, shardVars
    <3> QED
      BY <2>4, <3>1 DEF WriteReordered, Rewriting, RelabelIsRenaming, Indices
  <2>5. CASE Relabel
    <3>1. /\ IsPermutation(order)' = IsPermutation(order)
          /\ corpus' = corpus /\ order' = order /\ rewritten' = rewritten
      BY <2>5 DEF Relabel, IsPermutation, Node, Indices, shardVars
    <3>2. Rewriting'
      BY <2>5, <3>1 DEF Relabel, Rewriting, Indices
    <3>3. RelabelIsRenaming'
      BY <2>5, RelabelIsFaithful
    <3> QED
      BY <3>2, <3>3
  <2>6. CASE UNCHANGED vars
    <3>1. /\ corpus' = corpus /\ order' = order /\ rewritten' = rewritten /\ phase' = phase
          /\ adjacency' = adjacency /\ levels' = levels /\ entry' = entry /\ codes' = codes
          /\ renamed' = renamed
      BY <2>6 DEF vars, shardVars, graph, layoutVars
    <3>2. IsPermutation(order)' = IsPermutation(order)
      BY <3>1 DEF IsPermutation, Node, Indices
    <3>3. Rewriting'
      BY <3>1, <3>2 DEF Rewriting, Indices
    <3> QED
      BY <3>1, <3>3 DEF RelabelIsRenaming
  <2> QED
    BY <2>1, <2>2, <2>3, <2>4, <2>5, <2>6 DEF Next
<1>3. Inv => RelabelIsRenaming
  OBVIOUS
<1> HIDE DEF Inv
<1> QED
  BY <1>1, <1>2, <1>3, ShardInvHolds, PTL DEF Spec

-----------------------------------------------------------------------------
(* The breadth-first order.                                                *)

BallStep(g, d) == IF d = 0 THEN {entry} \cap Node
                  ELSE g[d - 1] \cup UNION {adjacency[1][n] : n \in g[d - 1]}

\* The layer that is swept.
Swept == corpus \in Corpora /\ adjacency \in Seq(Links) /\ Len(adjacency) >= 1

LEMMA SweptLinks == Swept => \A n \in Node : adjacency[1][n] \in SUBSET Node
<1> SUFFICES ASSUME Swept PROVE \A n \in Node : adjacency[1][n] \in SUBSET Node
  OBVIOUS
<1>1. adjacency \in Seq(Links) /\ 1 \in 1 .. Len(adjacency)
  BY DEF Swept
<1>2. adjacency[1] \in Links
  BY <1>1
<1> QED
  BY <1>2 DEF Links

LEMMA BallsUnfold ==
  ASSUME Swept
  PROVE  /\ Ball[0] = {entry} \cap Node
         /\ \A d \in 1 .. Len(corpus) :
              Ball[d] = Ball[d - 1] \cup UNION {adjacency[1][n] : n \in Ball[d - 1]}
<1> DEFINE Has(m) == \E g : g = [d \in 0 .. m |-> BallStep(g, d)]
<1>1. Has(0)
  <2> DEFINE g == [d \in 0 .. 0 |-> {entry} \cap Node]
  <2>1. g = [d \in 0 .. 0 |-> BallStep(g, d)]
    BY DEF BallStep
  <2> QED
    BY <2>1
<1>2. ASSUME NEW m \in Nat, Has(m) PROVE Has(m + 1)
  <2>1. PICK g : g = [d \in 0 .. m |-> BallStep(g, d)]
    BY <1>2
  <2> DEFINE h == [d \in 0 .. m + 1 |-> BallStep(g, d)]
  <2>2. \A d \in 0 .. m : h[d] = g[d]
    BY <2>1
  <2>3. \A d \in 0 .. m + 1 : d # 0 => d - 1 \in 0 .. m
    OBVIOUS
  <2>4. \A d \in 0 .. m + 1 : BallStep(h, d) = BallStep(g, d)
    <3> HIDE DEF h
    <3> QED
      BY <2>2, <2>3 DEF BallStep
  <2>5. h = [d \in 0 .. m + 1 |-> BallStep(h, d)]
    BY <2>4
  <2> QED
    BY <2>5
<1> HIDE DEF Has
<1>3. \A m \in Nat : Has(m)
  <2> DEFINE Bad == {m \in Nat : ~ Has(m)}
  <2> SUFFICES ASSUME Bad # {} PROVE FALSE
    OBVIOUS
  <2>1. PICK m \in Bad : \A y \in Bad : m <= y
    BY LeastNumber
  <2>2. m # 0
    BY <1>1
  <2>3. m - 1 \in Nat /\ m - 1 \notin Bad /\ m - 1 + 1 = m
    BY <2>1, <2>2
  <2>4. Has(m - 1 + 1)
    BY <1>2, <2>3
  <2> QED
    BY <2>3, <2>4
<1>4. Len(corpus) \in Nat
  BY NodesAreFinite DEF Swept
<1>5. Ball = CHOOSE g : g = [d \in 0 .. Len(corpus) |-> BallStep(g, d)]
  BY DEF Ball, BallStep
<1>6. Has(Len(corpus))
  BY <1>3, <1>4
<1>7. Ball = [d \in 0 .. Len(corpus) |-> BallStep(Ball, d)]
  BY <1>5, <1>6 DEF Has
<1> HIDE DEF Ball
<1>8. \A d \in 0 .. Len(corpus) : Ball[d] = BallStep(Ball, d)
  BY <1>7
<1>9. \A d \in 1 .. Len(corpus) : d \in 0 .. Len(corpus) /\ d # 0
  BY <1>4
<1>10. 0 \in 0 .. Len(corpus)
  BY <1>4
<1> QED
  BY <1>8, <1>9, <1>10 DEF BallStep

\* Neighbors are queued once each.
LEMMA ByDegreeEnumerates ==
  ASSUME Swept, NEW S \in SUBSET Node
  PROVE  /\ Cardinality(S) \in Nat
         /\ DOMAIN ByDegree(S) = 1 .. Cardinality(S)
         /\ ByDegree(S) \in Seq(Node) /\ Len(ByDegree(S)) = Cardinality(S)
         /\ \A i \in 1 .. Cardinality(S) : ByDegree(S)[i] \in S
         /\ \A i, j \in 1 .. Cardinality(S) : ByDegree(S)[i] = ByDegree(S)[j] => i = j
         /\ \A a \in S : \E i \in 1 .. Cardinality(S) : ByDegree(S)[i] = a
<1> DEFINE degree == [a \in S |-> Cardinality(adjacency[1][a])]
           rank == [a \in S |-> Cardinality(AllAhead(S, degree, a))]
           k == Cardinality(S)
           out == ByDegree(S)
<1>1. IsFiniteSet(S) /\ S \subseteq Nat /\ k \in Nat
  BY NodesAreFinite, FS_Subset, FS_CardinalityType DEF Swept
<1>2. \A a \in S : degree[a] \in Nat
  <2>1. \A a \in S : adjacency[1][a] \in SUBSET Node
    BY SweptLinks
  <2>2. \A a \in S : Cardinality(adjacency[1][a]) \in Nat
    BY <2>1, NodesAreFinite, FS_Subset, FS_CardinalityType DEF Swept
  <2> QED
    BY <2>2
<1>3. Ranked(S, degree)
  BY <1>1, <1>2 DEF Ranked
<1>4. rank \in Bijection(S, 0 .. k - 1)
  <2> HIDE DEF degree
  <2> QED
    BY <1>3, RanksAreABijection
<1>5. \A a \in S : rank[a] + 1 =
        Cardinality({m \in S : \/ Cardinality(adjacency[1][m]) < Cardinality(adjacency[1][a])
                               \/ /\ Cardinality(adjacency[1][m]) = Cardinality(adjacency[1][a])
                                  /\ m < a}) + 1
  <2>1. \A a \in S : AllAhead(S, degree, a) =
          {m \in S : \/ Cardinality(adjacency[1][m]) < Cardinality(adjacency[1][a])
                     \/ /\ Cardinality(adjacency[1][m]) = Cardinality(adjacency[1][a])
                        /\ m < a}
    BY DEF AllAhead, Ahead
  <2> QED
    BY <2>1
<1>6. out = [i \in 1 .. k |-> CHOOSE a \in S : rank[a] + 1 = i]
  BY <1>5 DEF ByDegree
<1> HIDE DEF rank, k, out
<1>7. /\ \A a \in S : rank[a] \in 0 .. k - 1
      /\ \A a, b \in S : rank[a] = rank[b] => a = b
      /\ \A i \in 0 .. k - 1 : \E a \in S : rank[a] = i
  BY <1>4 DEF Bijection, Injection, Surjection, IsInjective
<1>8. \A i \in 1 .. k : \E a \in S : rank[a] + 1 = i
  <2> SUFFICES ASSUME NEW i \in 1 .. k PROVE \E a \in S : rank[a] + 1 = i
    OBVIOUS
  <2>1. i - 1 \in 0 .. k - 1
    BY <1>1
  <2>2. PICK a \in S : rank[a] = i - 1
    BY <1>7, <2>1
  <2> QED
    BY <2>2
<1>9. \A i \in 1 .. k : out[i] \in S /\ rank[out[i]] + 1 = i
  BY <1>6, <1>8
<1>10. \A a \in S : \E i \in 1 .. k : out[i] = a
  <2> SUFFICES ASSUME NEW a \in S PROVE \E i \in 1 .. k : out[i] = a
    OBVIOUS
  <2>1. rank[a] + 1 \in 1 .. k
    BY <1>1, <1>7
  <2>2. out[rank[a] + 1] \in S /\ rank[out[rank[a] + 1]] + 1 = rank[a] + 1
    BY <1>9, <2>1
  <2>3. rank[out[rank[a] + 1]] = rank[a]
    BY <1>7, <2>2
  <2> QED
    BY <1>7, <2>1, <2>2, <2>3
<1>11. DOMAIN out = 1 .. k /\ out = [i \in 1 .. k |-> out[i]]
  BY <1>6
<1>12. out \in Seq(Node) /\ Len(out) = k
  BY <1>1, <1>9, <1>11
<1>13. \A i, j \in 1 .. k : out[i] = out[j] => i = j
  BY <1>9
<1> QED
  BY <1>1, <1>9, <1>10, <1>11, <1>12, <1>13 DEF out, k

LEMMA BallsGrow ==
  ASSUME Swept, NEW d \in 0 .. Len(corpus) - 1
  PROVE  /\ Ball[d] \subseteq Ball[d + 1]
         /\ \A n \in Ball[d] : adjacency[1][n] \subseteq Ball[d + 1]
<1>1. d + 1 \in 1 .. Len(corpus) /\ d + 1 - 1 = d
  BY NodesAreFinite DEF Swept
<1>2. Ball[d + 1] = Ball[d] \cup UNION {adjacency[1][n] : n \in Ball[d]}
  BY <1>1, BallsUnfold
<1> QED
  BY <1>2

\* The nodes met so far in the order they were met, n of them, of which k are expanded.  No
\* node has one before it that is farther from the entry point; those that wait are at most
\* a link farther than the first of them.
Sweep(line, n, k, seen) ==
  /\ n \in Nat /\ k \in 0 .. n /\ line \in [1 .. n -> Node]
  /\ \A a, b \in 1 .. n : line[a] = line[b] => a = b
  /\ seen = {line[a] : a \in 1 .. n}
  /\ \A a \in 1 .. k : adjacency[1][line[a]] \subseteq seen
  /\ \A a, b \in 1 .. n : \A d \in 0 .. Len(corpus) :
       a < b /\ line[b] \in Ball[d] => line[a] \in Ball[d]
  /\ k < n => \A d \in 0 .. Len(corpus) - 1 :
       line[k + 1] \in Ball[d] => \A a \in 1 .. n : line[a] \in Ball[d + 1]
  /\ n > 0 /\ entry \in Node => entry \in seen

\* A node not met yet is a link farther than the first that waits.
LEMMA UnmetIsFarther ==
  ASSUME Swept, NEW line, NEW n, NEW k, NEW seen, Sweep(line, n, k, seen), n > 0,
         NEW d \in 0 .. Len(corpus), NEW x \in Ball[d], x \notin seen
  PROVE  d >= 1 /\ k < n /\ line[k + 1] \in Ball[d - 1]
<1> DEFINE Bad == {e \in 0 .. Len(corpus) : \E y \in Ball[e] : y \notin seen}
<1>0. Len(corpus) \in Nat
  BY NodesAreFinite DEF Swept
<1>1. PICK e \in Bad : \A y \in Bad : e <= y
  <2>1. Bad \in SUBSET Nat /\ Bad # {}
    OBVIOUS
  <2> HIDE DEF Bad
  <2> QED
    BY <2>1, LeastNumber
<1>2. PICK y \in Ball[e] : y \notin seen
  OBVIOUS
<1>3. e # 0
  <2>1. Ball[0] \subseteq seen
    BY BallsUnfold DEF Sweep
  <2> QED
    BY <1>2, <2>1
<1>4. e - 1 \in 0 .. Len(corpus) /\ e \in 1 .. Len(corpus) /\ e <= d
  BY <1>0, <1>1, <1>3
<1>5. Ball[e - 1] \subseteq seen
  <2>1. e - 1 \notin Bad
    BY <1>1, <1>4
  <2> QED
    BY <1>4, <2>1
<1>6. Ball[e] = Ball[e - 1] \cup UNION {adjacency[1][m] : m \in Ball[e - 1]}
  BY <1>4, BallsUnfold
<1>7. PICK m \in Ball[e - 1] : y \in adjacency[1][m]
  BY <1>2, <1>5, <1>6
<1>8. PICK a \in 1 .. n : m = line[a]
  BY <1>5, <1>7 DEF Sweep
<1>9. a \notin 1 .. k
  BY <1>2, <1>7, <1>8 DEF Sweep
<1>10. k < n /\ k + 1 \in 1 .. n /\ (k + 1 < a \/ k + 1 = a)
  BY <1>9 DEF Sweep
<1>11. line[k + 1] \in Ball[e - 1]
  BY <1>4, <1>7, <1>8, <1>10 DEF Sweep
<1>12. line[k + 1] \in Ball[d - 1]
  <2> DEFINE Out == {c \in 0 .. Len(corpus) : e - 1 <= c /\ line[k + 1] \notin Ball[c]}
  <2> SUFFICES ASSUME line[k + 1] \notin Ball[d - 1] PROVE FALSE
    OBVIOUS
  <2>1. Out \in SUBSET Nat /\ d - 1 \in Out
    BY <1>0, <1>4
  <2>2. PICK c \in Out : \A z \in Out : c <= z
    <3> HIDE DEF Out
    <3> QED
      BY <2>1, LeastNumber
  <2>3. c # e - 1
    BY <1>11, <2>2
  <2>4. c - 1 \in 0 .. Len(corpus) - 1 /\ c - 1 \in 0 .. Len(corpus) /\ e - 1 <= c - 1
    BY <1>0, <1>4, <2>2, <2>3
  <2>5. c - 1 \notin Out
    BY <2>2, <2>4
  <2>6. line[k + 1] \in Ball[c - 1]
    BY <2>4, <2>5
  <2>7. Ball[c - 1] \subseteq Ball[c - 1 + 1] /\ c - 1 + 1 = c
    BY <2>4, BallsGrow
  <2> QED
    BY <2>2, <2>6, <2>7
<1> QED
  BY <1>4, <1>10, <1>12

\* A root starts a sweep of what the nodes met so far do not lead to.
LEMMA RootExtends ==
  ASSUME Swept, NEW line, NEW n, NEW seen, Sweep(line, n, n, seen),
         NEW r \in Node \ seen, n = 0 /\ entry \in Node => r = entry,
         NEW longer \in [1 .. n + 1 -> Node],
         \A a \in 1 .. n : longer[a] = line[a], longer[n + 1] = r
  PROVE  Sweep(longer, n + 1, n, seen \cup {r})
<1>0. n \in Nat /\ Len(corpus) \in Nat
  BY NodesAreFinite DEF Sweep, Swept
<1>1. /\ \A a, b \in 1 .. n : line[a] = line[b] => a = b
      /\ seen = {line[a] : a \in 1 .. n}
      /\ \A a \in 1 .. n : adjacency[1][line[a]] \subseteq seen
      /\ \A a, b \in 1 .. n : \A d \in 0 .. Len(corpus) :
           a < b /\ line[b] \in Ball[d] => line[a] \in Ball[d]
      /\ n > 0 /\ entry \in Node => entry \in seen
  BY DEF Sweep
<1>2. \A a \in 1 .. n + 1 : a \in 1 .. n \/ a = n + 1
  BY <1>0
<1>3. n > 0 => \A d \in 0 .. Len(corpus) : r \notin Ball[d]
  BY <1>0, UnmetIsFarther
<1>4. \A a, b \in 1 .. n + 1 : longer[a] = longer[b] => a = b
  BY <1>1, <1>2
<1>5. seen \cup {r} = {longer[a] : a \in 1 .. n + 1}
  <2>1. \A a \in 1 .. n : a \in 1 .. n + 1
    BY <1>0
  <2>2. n + 1 \in 1 .. n + 1
    BY <1>0
  <2> QED
    BY <1>1, <1>2, <2>1, <2>2
<1>6. \A a \in 1 .. n : adjacency[1][longer[a]] \subseteq seen \cup {r}
  BY <1>1
<1>7. \A a, b \in 1 .. n + 1 : \A d \in 0 .. Len(corpus) :
        a < b /\ longer[b] \in Ball[d] => longer[a] \in Ball[d]
  <2> SUFFICES ASSUME NEW a \in 1 .. n + 1, NEW b \in 1 .. n + 1, NEW d \in 0 .. Len(corpus),
                      a < b, longer[b] \in Ball[d]
               PROVE  longer[a] \in Ball[d]
    OBVIOUS
  <2>1. a \in 1 .. n /\ n > 0
    BY <1>0
  <2>2. b # n + 1
    BY <1>3, <2>1
  <2> QED
    BY <1>1, <1>2, <2>1, <2>2
<1>8. \A d \in 0 .. Len(corpus) - 1 :
        longer[n + 1] \in Ball[d] => \A a \in 1 .. n + 1 : longer[a] \in Ball[d + 1]
  <2> SUFFICES ASSUME NEW d \in 0 .. Len(corpus) - 1, longer[n + 1] \in Ball[d], NEW a \in 1 .. n + 1
               PROVE  longer[a] \in Ball[d + 1]
    OBVIOUS
  <2>1. n = 0
    BY <1>0, <1>3
  <2>2. a = n + 1
    BY <2>1
  <2> QED
    BY <2>2, BallsGrow
<1>9. entry \in Node => entry \in seen \cup {r}
  BY <1>0, <1>1
<1> QED
  BY <1>0, <1>4, <1>5, <1>6, <1>7, <1>8, <1>9 DEF Sweep

\* What a list holds, each once, and a line followed by a list.
Lists(list, m, S) == /\ \A i \in 1 .. m : list[i] \in S
                     /\ \A i, j \in 1 .. m : list[i] = list[j] => i = j
                     /\ \A a \in S : \E i \in 1 .. m : list[i] = a

Continues(longer, line, n, list, m) == /\ \A a \in 1 .. n : longer[a] = line[a]
                                       /\ \A i \in 1 .. m : longer[n + i] = list[i]

\* Expanding the first that waits appends the neighbors not met yet.
LEMMA ExpansionExtends ==
  ASSUME Swept, NEW line, NEW n, NEW k, NEW seen, Sweep(line, n, k, seen), k < n,
         NEW m \in Nat, NEW fresh, fresh = adjacency[1][line[k + 1]] \ seen,
         NEW new, Lists(new, m, fresh),
         NEW longer \in [1 .. n + m -> Node], Continues(longer, line, n, new, m)
  PROVE  Sweep(longer, n + m, k + 1, seen \cup fresh)
<1> USE DEF Lists, Continues
<1>0. n \in Nat /\ k \in Nat /\ Len(corpus) \in Nat /\ k + 1 \in 1 .. n /\ n > 0
  BY NodesAreFinite DEF Sweep, Swept
<1>1. /\ \A a, b \in 1 .. n : line[a] = line[b] => a = b
      /\ seen = {line[a] : a \in 1 .. n}
      /\ \A a \in 1 .. k : adjacency[1][line[a]] \subseteq seen
      /\ \A a, b \in 1 .. n : \A d \in 0 .. Len(corpus) :
           a < b /\ line[b] \in Ball[d] => line[a] \in Ball[d]
      /\ \A d \in 0 .. Len(corpus) - 1 :
           line[k + 1] \in Ball[d] => \A a \in 1 .. n : line[a] \in Ball[d + 1]
      /\ entry \in Node => entry \in seen
  BY <1>0 DEF Sweep
<1>2. \A a \in 1 .. n + m : a \in 1 .. n \/ \E i \in 1 .. m : a = n + i
  <2> SUFFICES ASSUME NEW a \in 1 .. n + m, a \notin 1 .. n PROVE \E i \in 1 .. m : a = n + i
    OBVIOUS
  <2>1. a - n \in 1 .. m /\ a = n + (a - n)
    BY <1>0
  <2> QED
    BY <2>1
<1>3. \A a \in 1 .. n : a \in 1 .. n + m
  BY <1>0
<1>4. \A i \in 1 .. m : n + i \in 1 .. n + m
  BY <1>0
<1>5. \A a \in 1 .. n : \A i \in 1 .. m : longer[a] # longer[n + i]
  BY <1>1
<1>6. \A a, b \in 1 .. n + m : longer[a] = longer[b] => a = b
  BY <1>1, <1>2, <1>5
<1>7. seen \cup fresh = {longer[a] : a \in 1 .. n + m}
  <2>1. \A a \in 1 .. n + m : longer[a] \in seen \cup fresh
    BY <1>1, <1>2
  <2>2. \A x \in seen \cup fresh : \E a \in 1 .. n + m : longer[a] = x
    <3>1. ASSUME NEW x \in seen PROVE \E a \in 1 .. n + m : longer[a] = x
      BY <1>1, <1>3
    <3>2. ASSUME NEW x \in fresh PROVE \E a \in 1 .. n + m : longer[a] = x
      BY <1>4
    <3> QED
      BY <3>1, <3>2
  <2> QED
    BY <2>1, <2>2
<1>8. \A a \in 1 .. k + 1 : adjacency[1][longer[a]] \subseteq seen \cup fresh
  <2> SUFFICES ASSUME NEW a \in 1 .. k + 1 PROVE adjacency[1][longer[a]] \subseteq seen \cup fresh
    OBVIOUS
  <2>1. a \in 1 .. n /\ (a \in 1 .. k \/ a = k + 1)
    BY <1>0
  <2>2. longer[a] = line[a]
    BY <2>1
  <2> QED
    BY <1>1, <2>1, <2>2
<1>9. \A d \in 0 .. Len(corpus) - 1 : line[k + 1] \in Ball[d] =>
        /\ \A a \in 1 .. n : longer[a] \in Ball[d + 1]
        /\ \A i \in 1 .. m : longer[n + i] \in Ball[d + 1]
  <2> SUFFICES ASSUME NEW d \in 0 .. Len(corpus) - 1, line[k + 1] \in Ball[d]
               PROVE  /\ \A a \in 1 .. n : longer[a] \in Ball[d + 1]
                      /\ \A i \in 1 .. m : longer[n + i] \in Ball[d + 1]
    OBVIOUS
  <2>1. adjacency[1][line[k + 1]] \subseteq Ball[d + 1]
    BY BallsGrow
  <2>2. \A a \in 1 .. n : line[a] \in Ball[d + 1]
    BY <1>1
  <2> QED
    BY <2>1, <2>2
<1>10. \A d \in 0 .. Len(corpus) - 1 : line[k + 1] \in Ball[d] =>
         \A a \in 1 .. n + m : longer[a] \in Ball[d + 1]
  BY <1>2, <1>9
<1>11. \A a, b \in 1 .. n + m : \A d \in 0 .. Len(corpus) :
         a < b /\ longer[b] \in Ball[d] => longer[a] \in Ball[d]
  <2> SUFFICES ASSUME NEW a \in 1 .. n + m, NEW b \in 1 .. n + m, NEW d \in 0 .. Len(corpus),
                      a < b, longer[b] \in Ball[d]
               PROVE  longer[a] \in Ball[d]
    OBVIOUS
  <2>1. CASE b \in 1 .. n
    <3>1. a \in 1 .. n
      BY <1>0, <2>1
    <3> QED
      BY <1>1, <2>1, <3>1
  <2>2. CASE b \notin 1 .. n
    <3>1. longer[b] \in fresh
      BY <1>2, <2>2
    <3>2. longer[b] \notin seen
      BY <3>1
    <3>3. d >= 1 /\ line[k + 1] \in Ball[d - 1]
      BY <1>0, <3>2, UnmetIsFarther
    <3>4. d - 1 \in 0 .. Len(corpus) - 1 /\ d - 1 + 1 = d
      BY <1>0, <3>3
    <3> QED
      BY <1>10, <3>3, <3>4
  <2> QED
    BY <2>1, <2>2
<1>12. k + 1 < n + m => \A d \in 0 .. Len(corpus) - 1 :
         longer[k + 1 + 1] \in Ball[d] => \A a \in 1 .. n + m : longer[a] \in Ball[d + 1]
  <2> SUFFICES ASSUME k + 1 < n + m, NEW d \in 0 .. Len(corpus) - 1, longer[k + 1 + 1] \in Ball[d]
               PROVE  \A a \in 1 .. n + m : longer[a] \in Ball[d + 1]
    OBVIOUS
  <2>1. /\ k + 1 \in 1 .. n + m /\ k + 1 + 1 \in 1 .. n + m /\ k + 1 < k + 1 + 1
        /\ d \in 0 .. Len(corpus)
    BY <1>0
  <2>2. longer[k + 1] \in Ball[d]
    BY <1>11, <2>1
  <2>3. line[k + 1] \in Ball[d]
    BY <1>0, <2>2
  <2> QED
    BY <1>10, <2>3
<1>13. entry \in Node => entry \in seen \cup fresh
  BY <1>1
<1>14. n + m \in Nat /\ k + 1 \in 0 .. n + m
  BY <1>0
<1> QED
  BY <1>6, <1>7, <1>8, <1>11, <1>12, <1>13, <1>14 DEF Sweep

\* A node met that no node met earlier links, the very first aside, was the least left.
Islands(line, n) ==
  \A a \in 2 .. n : (\A c \in 1 .. a - 1 : line[a] \notin adjacency[1][line[c]]) =>
    \A x \in Node : (\E b \in 1 .. a : line[b] = x) \/ line[a] < x

\* It suffices to look at the nodes that are new in the line.
LEMMA IslandsGrow ==
  ASSUME NEW line, NEW longer, NEW n \in Nat, NEW m \in Nat, Islands(line, n),
         \A a \in 1 .. n : longer[a] = line[a],
         \A a \in n + 1 .. n + m : a # 1 =>
           \/ \E c \in 1 .. a - 1 : longer[a] \in adjacency[1][longer[c]]
           \/ \A x \in Node : (\E b \in 1 .. a : longer[b] = x) \/ longer[a] < x
  PROVE  Islands(longer, n + m)
<1> SUFFICES ASSUME NEW a \in 2 .. n + m,
                    \A c \in 1 .. a - 1 : longer[a] \notin adjacency[1][longer[c]],
                    NEW x \in Node
             PROVE  (\E b \in 1 .. a : longer[b] = x) \/ longer[a] < x
  BY DEF Islands
<1>1. CASE a <= n
  <2>1. a \in 2 .. n /\ a \in 1 .. n /\ longer[a] = line[a]
    BY <1>1
  <2>2. \A c \in 1 .. a - 1 : line[a] \notin adjacency[1][line[c]]
    <3> SUFFICES ASSUME NEW c \in 1 .. a - 1 PROVE line[a] \notin adjacency[1][line[c]]
      OBVIOUS
    <3>1. c \in 1 .. n /\ longer[c] = line[c]
      BY <1>1
    <3>2. longer[a] \notin adjacency[1][longer[c]]
      OBVIOUS
    <3> QED
      BY <2>1, <3>1, <3>2
  <2>3. (\E b \in 1 .. a : line[b] = x) \/ line[a] < x
    BY <2>1, <2>2 DEF Islands
  <2>4. \A b \in 1 .. a : longer[b] = line[b]
    BY <1>1
  <2> QED
    BY <2>1, <2>3, <2>4
<1>2. CASE ~ (a <= n)
  <2>1. a \in n + 1 .. n + m /\ a # 1
    BY <1>2
  <2> QED
    BY <2>1
<1> QED
  BY <1>1, <1>2

Met == Len(order) + Len(queue)

\* The nodes met so far: the order, then the queue.
Line == [a \in 1 .. Met |-> IF a <= Len(order) THEN order[a] ELSE queue[a - Len(order)]]

Sweeping ==
  /\ phase \in {"build", "train", "merge", "built"} => order = << >> /\ queue = << >> /\ visited = {}
  /\ phase = "order" => /\ order \in Seq(Node) /\ queue \in Seq(Node)
                        /\ Sweep(Line, Met, Len(order), visited)
                        /\ Islands(Line, Met)

LEMMA StartOrderSweeps ==
  ASSUME ShardInv, Sweeping, StartOrder
  PROVE  Sweeping'
<1>1. /\ order = << >> /\ queue = << >> /\ visited = {}
      /\ order' = order /\ queue' = queue /\ visited' = visited
      /\ corpus' = corpus /\ adjacency' = adjacency /\ entry' = entry
      /\ Node' = Node /\ phase' = "order"
  BY DEF Sweeping, StartOrder, shardVars, graph, layoutVars, Node, Indices
<1>2. Met' = 0 /\ Len(order') = 0 /\ order' \in Seq(Node) /\ queue' \in Seq(Node)
  BY <1>1 DEF Met
<1>3. Line' \in [1 .. 0 -> Node]
  BY <1>2 DEF Line
<1>4. Sweep(Line', 0, 0, {})
  BY <1>3 DEF Sweep
<1>5. Sweep(Line, Met, Len(order), visited)' = Sweep(Line', Met', Len(order'), visited')
  BY <1>1 DEF Sweep, Ball
<1>6. Islands(Line, Met)'
  <2>1. \A a \in 2 .. Met' : FALSE
    BY <1>2
  <2> QED
    BY <2>1 DEF Islands
<1> QED
  BY <1>1, <1>2, <1>4, <1>5, <1>6 DEF Sweeping

LEMMA RootSweeps ==
  ASSUME ShardInv, Sweeping, Root
  PROVE  Sweeping'
<1> DEFINE r == NextRoot
           n == Met
<1>1. /\ queue = << >> /\ queue' = <<r>> /\ visited' = visited \cup {r} /\ order' = order
      /\ corpus' = corpus /\ adjacency' = adjacency /\ entry' = entry
      /\ Node' = Node /\ phase = "order" /\ phase' = "order" /\ visited # Node
  BY DEF Root, shardVars, graph, Node, Indices
<1>2. Swept
  BY <1>1 DEF ShardInv, ShardTyped, Swept
<1>3. order \in Seq(Node) /\ Sweep(Line, Met, Len(order), visited) /\ Islands(Line, Met)
  BY <1>1 DEF Sweeping
<1>4. n = Len(order) /\ n \in Nat
  BY <1>1, <1>3 DEF Met
<1>5. visited \subseteq Node /\ (n = 0 => visited = {})
  BY <1>3 DEF Sweep
<1>6. /\ r \in Node \ visited /\ (n = 0 /\ entry \in Node => r = entry)
      /\ n = 0 \/ \A x \in Node \ visited : r <= x
  <2>1. entry \in Node \cup {None} /\ None \notin Node
    BY <1>2, NodesAreFinite DEF ShardInv, ShardTyped, Swept
  <2>2. CASE entry # None /\ entry \notin visited
    <3>1. n = 0
      BY <1>3, <1>4, <2>1, <2>2 DEF Sweep
    <3> QED
      BY <2>1, <2>2, <3>1 DEF NextRoot
  <2>3. CASE ~ (entry # None /\ entry \notin visited)
    <3>1. Node \ visited \in SUBSET Nat /\ Node \ visited # {}
      BY <1>1, <1>2, <1>5, NodesAreFinite DEF Swept
    <3>2. \E a \in Node \ visited : \A m \in Node \ visited : a =< m
      BY <3>1, LeastNumber
    <3>3. r \in Node \ visited /\ \A x \in Node \ visited : r <= x
      BY <2>3, <3>2 DEF NextRoot
    <3> QED
      BY <1>5, <2>1, <2>3, <3>3
  <2> QED
    BY <2>2, <2>3
<1> HIDE DEF r
<1>7. Len(queue') = 1 /\ queue' \in Seq(Node) /\ queue'[1] = r
  BY <1>1, <1>6
<1>8. Met' = n + 1
  BY <1>1, <1>4, <1>7 DEF Met
<1>9. /\ \A a \in 1 .. n : Line'[a] = Line[a] /\ Line[a] = order[a] /\ order[a] \in Node
      /\ Line'[n + 1] = r
  <2>1. Line' = [a \in 1 .. n + 1 |-> IF a <= n THEN order[a] ELSE queue'[a - n]]
    BY <1>1, <1>4, <1>8 DEF Line
  <2>2. Line = [a \in 1 .. n |-> IF a <= n THEN order[a] ELSE queue[a - n]]
    BY <1>4 DEF Line
  <2>3. n + 1 \in 1 .. n + 1 /\ ~ (n + 1 <= n) /\ n + 1 - n = 1
    BY <1>4
  <2>4. \A a \in 1 .. n : a \in 1 .. n + 1 /\ a <= n
    BY <1>4
  <2>5. \A a \in 1 .. n : order[a] \in Node
    BY <1>3, <1>4
  <2>6. \A a \in 1 .. n : Line'[a] = order[a]
    BY <2>1, <2>4
  <2>7. \A a \in 1 .. n : Line[a] = order[a]
    BY <2>2, <2>4
  <2>8. Line'[n + 1] = r
    <3>1. \A a \in 1 .. n + 1 : ~ (a <= n) => Line'[a] = queue'[a - n]
      BY <2>1
    <3>2. Line'[n + 1] = queue'[1]
      <4>1. PICK x \in 1 .. n + 1 : x = n + 1
        BY <2>3
      <4>2. ~ (x <= n)
        BY <2>3, <4>1
      <4>3. Line'[x] = queue'[x - n]
        BY <3>1, <4>2
      <4>4. x - n = 1
        BY <1>4, <4>1
      <4>5. Line'[x] = queue'[1]
        BY <4>3, <4>4
      <4> HIDE DEF Line, n
      <4> QED
        BY <4>1, <4>5
    <3> QED
      BY <1>7, <2>3, <3>2
  <2> QED
    BY <2>5, <2>6, <2>7, <2>8
<1>10. Line' \in [1 .. n + 1 -> Node]
  <2>1. \A a \in 1 .. n + 1 : Line'[a] \in Node
    <3>1. \A a \in 1 .. n + 1 : a \in 1 .. n \/ a = n + 1
      BY <1>4
    <3> QED
      BY <1>6, <1>9, <3>1
  <2>2. Line' = [a \in 1 .. n + 1 |-> Line'[a]]
    BY <1>8 DEF Line
  <2> HIDE DEF Line
  <2> QED
    BY <2>1, <2>2
<1>11. Sweep(Line', n + 1, n, visited \cup {r})
  <2> HIDE DEF n
  <2> QED
    BY <1>2, <1>3, <1>4, <1>6, <1>9, <1>10, RootExtends DEF n
<1>12. Sweep(Line, Met, Len(order), visited)' = Sweep(Line', Met', Len(order'), visited')
  BY <1>1 DEF Sweep, Ball
<1>13. Islands(Line', n + 1)
  <2>1. \A a \in n + 1 .. n + 1 : a # 1 =>
          \A x \in Node : (\E b \in 1 .. a : Line'[b] = x) \/ Line'[a] < x
    <3> SUFFICES ASSUME n # 0, NEW x \in Node, \A b \in 1 .. n + 1 : Line'[b] # x
                 PROVE  r < x
      BY <1>4, <1>9
    <3>1. x # r /\ \A b \in 1 .. n : Line[b] # x
      BY <1>4, <1>9
    <3>2. x \notin visited
      BY <1>3, <3>1 DEF Sweep
    <3>3. r <= x
      BY <1>6, <3>2
    <3>4. Node \subseteq Nat
      BY <1>2, NodesAreFinite DEF Swept
    <3> QED
      BY <1>6, <3>1, <3>3, <3>4
  <2>2. \A a \in 1 .. n : Line'[a] = Line[a]
    BY <1>9
  <2>3. n \in Nat /\ 1 \in Nat /\ Islands(Line, n)
    BY <1>3, <1>4
  <2> HIDE DEF Line, n
  <2> QED
    BY <2>1, <2>2, <2>3, IslandsGrow
<1>14. Islands(Line, Met)' = Islands(Line', Met')
  BY <1>1 DEF Islands
<1> QED
  BY <1>1, <1>3, <1>4, <1>7, <1>8, <1>11, <1>12, <1>13, <1>14 DEF Sweeping

LEMMA ExpandSweeps ==
  ASSUME ShardInv, Sweeping, Expand
  PROVE  Sweeping'
<1> DEFINE n == Met
           k == Len(order)
           fresh == adjacency[1][Head(queue)] \ visited
           new == ByDegree(fresh)
           m == Cardinality(fresh)
<1>1. /\ queue # << >> /\ queue' = Tail(queue) \o new /\ visited' = visited \cup fresh
      /\ order' = Append(order, Head(queue))
      /\ corpus' = corpus /\ adjacency' = adjacency /\ entry' = entry
      /\ Node' = Node /\ phase = "order" /\ phase' = "order"
  BY DEF Expand, shardVars, graph, Node, Indices
<1>2. Swept
  BY <1>1 DEF ShardInv, ShardTyped, Swept
<1>3. order \in Seq(Node) /\ queue \in Seq(Node) /\ Sweep(Line, n, k, visited) /\ Islands(Line, n)
  BY <1>1 DEF Sweeping
<1>4. n = k + Len(queue) /\ k \in Nat /\ Len(queue) \in Nat \ {0} /\ n \in Nat
  BY <1>1, <1>3 DEF Met
<1>5. Head(queue) = queue[1] /\ queue[1] \in Node
  BY <1>1, <1>3
<1>6. fresh \in SUBSET Node
  BY <1>2, <1>5, SweptLinks
<1>7. /\ m \in Nat /\ new \in Seq(Node) /\ Len(new) = m
      /\ \A i \in 1 .. m : new[i] \in fresh
      /\ \A i, j \in 1 .. m : new[i] = new[j] => i = j
      /\ \A a \in fresh : \E i \in 1 .. m : new[i] = a
  <2> HIDE DEF fresh
  <2> QED
    BY <1>2, <1>6, ByDegreeEnumerates
<1>8. Line[k + 1] = queue[1]
  <2>1. k + 1 \in 1 .. Met /\ ~ (k + 1 <= Len(order)) /\ k + 1 - Len(order) = 1
    BY <1>4
  <2> QED
    BY <2>1 DEF Line
<1>9. fresh = adjacency[1][Line[k + 1]] \ visited
  BY <1>5, <1>8
<1> HIDE DEF fresh, new, m
<1>10. /\ order' \in Seq(Node) /\ Len(order') = k + 1 /\ order'[k + 1] = queue[1]
       /\ \A a \in 1 .. k : order'[a] = order[a]
  BY <1>1, <1>3, <1>4, <1>5
<1>11. /\ queue' \in Seq(Node) /\ Len(queue') = Len(queue) - 1 + m
       /\ \A i \in 1 .. Len(queue) - 1 : queue'[i] = queue[i + 1]
       /\ \A i \in 1 .. m : queue'[Len(queue) - 1 + i] = new[i]
  <2> DEFINE rest == Tail(queue)
  <2>1. /\ rest \in Seq(Node) /\ Len(rest) = Len(queue) - 1
        /\ \A i \in 1 .. Len(queue) - 1 : rest[i] = queue[i + 1]
    BY <1>1, <1>3, <1>4
  <2> HIDE DEF rest
  <2>2. queue' = rest \o new
    BY <1>1 DEF rest
  <2>6. m \in Nat /\ new \in Seq(Node) /\ Len(new) = m
    BY <1>7
  <2>7. rest \in Seq(Node) /\ Len(rest) \in Nat
    BY <2>1
  <2>8. /\ rest \o new \in Seq(Node)
        /\ Len(rest \o new) = Len(rest) + Len(new)
        /\ \A i \in 1 .. Len(rest) + Len(new) : (rest \o new)[i] =
             IF i <= Len(rest) THEN rest[i] ELSE new[i - Len(rest)]
    BY <2>6, <2>7, ConcatProperties
  <2>3. queue' \in Seq(Node) /\ Len(queue') = Len(rest) + m
    BY <2>2, <2>6, <2>8
  <2>9. \A i \in 1 .. Len(rest) + m : queue'[i] = IF i <= Len(rest) THEN rest[i] ELSE new[i - Len(rest)]
    BY <2>2, <2>6, <2>8
  <2> HIDE DEF m
  <2>4. \A i \in 1 .. Len(rest) : queue'[i] = rest[i]
    BY <2>6, <2>7, <2>9
  <2>5. \A i \in 1 .. m : queue'[Len(rest) + i] = new[i]
    <3> SUFFICES ASSUME NEW i \in 1 .. m PROVE queue'[Len(rest) + i] = new[i]
      OBVIOUS
    <3>1. /\ Len(rest) + i \in 1 .. Len(rest) + m /\ ~ (Len(rest) + i <= Len(rest))
          /\ Len(rest) + i - Len(rest) = i
      BY <2>6, <2>7
    <3> QED
      BY <2>9, <3>1
  <2> QED
    BY <2>1, <2>3, <2>4, <2>5
<1>12. Met' = n + m
  BY <1>4, <1>7, <1>10, <1>11 DEF Met
<1>13. Line' = [a \in 1 .. n + m |-> IF a <= k + 1 THEN order'[a] ELSE queue'[a - (k + 1)]]
  BY <1>10, <1>12 DEF Line
<1>14. \A a \in 1 .. n : Line'[a] = Line[a] /\ Line[a] \in Node
  <2> SUFFICES ASSUME NEW a \in 1 .. n PROVE Line'[a] = Line[a] /\ Line[a] \in Node
    OBVIOUS
  <2>1. a \in 1 .. n + m
    BY <1>4, <1>7
  <2>2. Line[a] = IF a <= k THEN order[a] ELSE queue[a - k]
    BY DEF Line
  <2>3. Line'[a] = IF a <= k + 1 THEN order'[a] ELSE queue'[a - (k + 1)]
    BY <1>13, <2>1
  <2>4. Line[a] \in Node
    BY <1>3 DEF Sweep
  <2>5. CASE a <= k
    BY <1>4, <1>10, <2>2, <2>3, <2>5
  <2>6. CASE a = k + 1
    BY <1>8, <1>10, <2>3, <2>4, <2>6
  <2>7. CASE a > k + 1
    <3>1. a - (k + 1) \in 1 .. Len(queue) - 1 /\ a - (k + 1) + 1 = a - k
      BY <1>4, <2>7
    <3>2. queue'[a - (k + 1)] = queue[a - k]
      BY <1>11, <3>1
    <3>3. ~ (a <= k) /\ ~ (a <= k + 1)
      BY <1>4, <2>7
    <3> QED
      BY <2>2, <2>3, <2>4, <3>2, <3>3
  <2> QED
    BY <1>4, <2>4, <2>5, <2>6, <2>7
<1>15. \A i \in 1 .. m : Line'[n + i] = new[i]
  <2> SUFFICES ASSUME NEW i \in 1 .. m PROVE Line'[n + i] = new[i]
    OBVIOUS
  <2>1. /\ n + i \in 1 .. n + m /\ ~ (n + i <= k + 1)
        /\ n + i - (k + 1) = Len(queue) - 1 + i
    BY <1>4, <1>7
  <2>2. \A a \in 1 .. n + m : ~ (a <= k + 1) => Line'[a] = queue'[a - (k + 1)]
    BY <1>13
  <2>3. Line'[n + i] = queue'[Len(queue) - 1 + i]
    <3>1. PICK x \in 1 .. n + m : x = n + i
      BY <2>1
    <3>2. ~ (x <= k + 1)
      BY <2>1, <3>1
    <3>3. Line'[x] = queue'[x - (k + 1)]
      BY <2>2, <3>2
    <3>4. x - (k + 1) = Len(queue) - 1 + i
      BY <1>4, <1>7, <3>1
    <3>5. Line'[x] = queue'[Len(queue) - 1 + i]
      BY <3>3, <3>4
    <3> HIDE DEF Line, n, k
    <3> QED
      BY <3>1, <3>5
  <2> QED
    BY <1>11, <2>1, <2>3
<1>16. Line' \in [1 .. n + m -> Node]
  <2>1. \A a \in 1 .. n + m : Line'[a] \in Node
    <3> SUFFICES ASSUME NEW a \in 1 .. n + m, a \notin 1 .. n PROVE Line'[a] \in Node
      BY <1>14
    <3>1. a - n \in 1 .. m /\ n + (a - n) = a
      BY <1>4, <1>7
    <3>2. Line'[a] = new[a - n]
      BY <1>15, <3>1
    <3> QED
      BY <1>6, <1>7, <3>1, <3>2
  <2>2. Line' = [a \in 1 .. n + m |-> Line'[a]]
    BY <1>13
  <2> HIDE DEF Line
  <2> QED
    BY <2>1, <2>2
<1>17. Sweep(Line', n + m, k + 1, visited \cup fresh)
  <2>1. k < n /\ m \in Nat
    BY <1>4, <1>7
  <2>2. Lists(new, m, fresh)
    BY <1>7 DEF Lists
  <2>3. Continues(Line', Line, n, new, m)
    BY <1>14, <1>15 DEF Continues
  <2>4. Sweep(Line, n, k, visited)
    BY <1>3
  <2> HIDE DEF Line, n, k
  <2> QED
    BY <1>2, <1>9, <1>16, <2>1, <2>2, <2>3, <2>4, ExpansionExtends
<1>18. Sweep(Line, Met, Len(order), visited)' = Sweep(Line', Met', Len(order'), visited')
  BY <1>1 DEF Sweep, Ball
<1>19. Islands(Line', n + m)
  <2>1. \A a \in n + 1 .. n + m : \E c \in 1 .. a - 1 : Line'[a] \in adjacency[1][Line'[c]]
    <3> SUFFICES ASSUME NEW a \in n + 1 .. n + m
                 PROVE  Line'[a] \in adjacency[1][Line'[k + 1]] /\ k + 1 \in 1 .. a - 1
      OBVIOUS
    <3>1. a - n \in 1 .. m /\ n + (a - n) = a /\ k + 1 \in 1 .. n /\ k + 1 \in 1 .. a - 1
      BY <1>4, <1>7
    <3>2. Line'[a] = new[a - n]
      BY <1>15, <3>1
    <3>3. Line'[a] \in fresh
      BY <1>7, <3>1, <3>2
    <3>4. Line'[k + 1] = Line[k + 1]
      BY <1>14, <3>1
    <3> QED
      BY <1>9, <3>1, <3>3, <3>4
  <2>2. \A a \in 1 .. n : Line'[a] = Line[a]
    BY <1>14
  <2>3. n \in Nat /\ m \in Nat /\ Islands(Line, n)
    BY <1>3, <1>4, <1>7
  <2> HIDE DEF Line, n, k
  <2> QED
    BY <2>1, <2>2, <2>3, IslandsGrow
<1>20. Islands(Line, Met)' = Islands(Line', Met')
  BY <1>1 DEF Islands
<1> QED
  BY <1>1, <1>10, <1>11, <1>12, <1>17, <1>18, <1>19, <1>20 DEF Sweeping

\* When every node is met and none waits, the nodes in the order met are a permutation.
LEMMA SweepIsComplete ==
  ASSUME ShardInv, Sweeping
  PROVE  OrderIsBreadthFirst
<1> SUFFICES ASSUME phase = "order", visited = Node, queue = << >>
             PROVE  /\ IsPermutation(order)
                    /\ \A a, b \in Indices(order) : \A d \in 0 .. Len(corpus) :
                         a < b /\ order[b] \in Ball[d] => order[a] \in Ball[d]
  BY DEF OrderIsBreadthFirst
<1>1. corpus \in Corpora /\ order \in Seq(Node) /\ Sweep(Line, Met, Len(order), visited)
  BY DEF ShardInv, ShardTyped, Sweeping
<1>2. Met = Len(order) /\ Len(order) \in Nat
  BY <1>1 DEF Met
<1>3. \A a \in 1 .. Len(order) : Line[a] = order[a]
  BY <1>2 DEF Line
<1>4. /\ Line \in [1 .. Len(order) -> Node]
      /\ \A a, b \in 1 .. Len(order) : Line[a] = Line[b] => a = b
      /\ Node = {Line[a] : a \in 1 .. Len(order)}
      /\ \A a, b \in 1 .. Len(order) : \A d \in 0 .. Len(corpus) :
           a < b /\ Line[b] \in Ball[d] => Line[a] \in Ball[d]
  BY <1>1, <1>2 DEF Sweep
<1>5. Len(order) = Len(corpus)
  <2> DEFINE p == Len(order)
             c == Len(corpus)
  <2> HIDE DEF Line, p, c
  <2>1. /\ p \in Nat /\ c \in Nat /\ Node = 1 .. c
        /\ Line \in [1 .. p -> Node]
        /\ \A a, b \in 1 .. p : Line[a] = Line[b] => a = b
        /\ Node = {Line[a] : a \in 1 .. p}
    BY <1>1, <1>2, <1>4, NodesAreFinite DEF p, c
  <2>2. Line \in Bijection(1 .. p, 1 .. c)
    <3>1. Line \in [1 .. p -> 1 .. c] /\ DOMAIN Line = 1 .. p
      BY <2>1
    <3>2. Line \in Injection(1 .. p, 1 .. c)
      BY <2>1, <3>1 DEF Injection, IsInjective
    <3>3. \A t \in 1 .. c : \E a \in 1 .. p : Line[a] = t
      <4>1. \A t \in Node : \E a \in 1 .. p : Line[a] = t
        BY <2>1
      <4> QED
        BY <2>1, <4>1
    <3>4. Line \in Surjection(1 .. p, 1 .. c)
      BY <3>1, <3>3 DEF Surjection
    <3> QED
      BY <3>2, <3>4 DEF Bijection
  <2>3. ExistsBijection(1 .. p, 1 .. c)
    BY <2>2 DEF ExistsBijection
  <2>4. /\ IsFiniteSet(1 .. p) /\ IsFiniteSet(1 .. c)
        /\ Cardinality(1 .. p) = p /\ Cardinality(1 .. c) = c
    <3>1. \A i \in Nat : IsFiniteSet(1 .. i) /\ Cardinality(1 .. i) = i
      <4> SUFFICES ASSUME NEW i \in Nat PROVE IsFiniteSet(1 .. i) /\ Cardinality(1 .. i) = i
        OBVIOUS
      <4>1. 1 \in Int /\ i \in Int
        OBVIOUS
      <4>2. /\ IsFiniteSet(1 .. i)
            /\ Cardinality(1 .. i) = IF 1 > i THEN 0 ELSE i - 1 + 1
        BY <4>1, FS_Interval
      <4> QED
        BY <4>2
    <3> QED
      BY <2>1, <3>1
  <2>5. Cardinality(1 .. p) = Cardinality(1 .. c)
    BY <2>3, <2>4, FS_Bijection
  <2> QED
    BY <2>4, <2>5 DEF p, c
<1>6. \A a \in Indices(order) : order[a] \in Node
  BY <1>1 DEF Indices
<1>7. \A a, b \in Indices(order) : a # b => order[a] # order[b]
  BY <1>3, <1>4 DEF Indices
<1>8. \A a, b \in Indices(order) : \A d \in 0 .. Len(corpus) :
        a < b /\ order[b] \in Ball[d] => order[a] \in Ball[d]
  BY <1>3, <1>4 DEF Indices
<1> QED
  BY <1>5, <1>6, <1>7, <1>8 DEF IsPermutation

LEMMA SweepLeavesIslandsById ==
  ASSUME ShardInv, Sweeping
  PROVE  IslandsComeById
<1> SUFFICES ASSUME phase = "order", visited = Node, queue = << >>,
                    NEW a \in Indices(order), NEW b \in Indices(order), 1 < a, a < b,
                    \A c \in 1 .. a - 1 : order[a] \notin adjacency[1][order[c]]
             PROVE  order[a] < order[b]
  BY DEF IslandsComeById
<1>1. order \in Seq(Node) /\ Sweep(Line, Met, Len(order), visited) /\ Islands(Line, Met)
  BY DEF Sweeping
<1>2. Met = Len(order) /\ Len(order) \in Nat
  BY <1>1 DEF Met
<1>3. \A c \in 1 .. Len(order) : Line[c] = order[c]
  BY <1>2 DEF Line
<1>4. a \in 2 .. Len(order) /\ a \in 1 .. Len(order) /\ b \in 1 .. Len(order)
  BY <1>2 DEF Indices
<1>5. \A c \in 1 .. a - 1 : Line[a] \notin adjacency[1][Line[c]]
  BY <1>2, <1>3, <1>4
<1>6. Line[b] \in Node
  BY <1>1, <1>2, <1>4 DEF Sweep
<1>7. (\E c \in 1 .. a : Line[c] = Line[b]) \/ Line[a] < Line[b]
  BY <1>1, <1>2, <1>4, <1>5, <1>6 DEF Islands
<1>8. \A c \in 1 .. a : Line[c] # Line[b]
  <2>1. \A c, d \in 1 .. Len(order) : Line[c] = Line[d] => c = d
    BY <1>1, <1>2 DEF Sweep
  <2> QED
    BY <1>2, <1>4, <2>1
<1> QED
  BY <1>3, <1>4, <1>7, <1>8

LEMMA SweepingHolds == Spec => []Sweeping
<1>1. Init => Sweeping
  BY DEF Init, ShardInit, Sweeping
<1>2. ShardInv /\ Sweeping /\ [Next]_vars => Sweeping'
  <2> SUFFICES ASSUME ShardInv, Sweeping, [Next]_vars PROVE Sweeping'
    OBVIOUS
  <2>1. CASE Build
    <3>1. /\ phase \in {"build", "train", "merge"} /\ phase' \in {"built", "train", "merge"}
          /\ order' = order /\ queue' = queue /\ visited' = visited
      BY <2>1 DEF Build, ShardNext, BuildNothing, BuildWhole, TrainShards, RunKMeans, Assign,
         SkipShard, MergeShard, CapAndEnter, layoutVars
    <3> QED
      BY <3>1 DEF Sweeping
  <2>2. CASE StartOrder
    BY <2>2, StartOrderSweeps
  <2>3. CASE Root
    BY <2>3, RootSweeps
  <2>4. CASE Expand
    BY <2>4, ExpandSweeps
  <2>5. CASE Ordered \/ WriteReordered \/ RefuseOrder \/ Relabel
    BY <2>5 DEF Ordered, WriteReordered, RefuseOrder, Relabel, Sweeping
  <2>6. CASE \E o \in CallerOrders : CallerOrder(o)
    BY <2>6 DEF CallerOrder, Sweeping
  <2>7. CASE UNCHANGED vars
    <3>1. /\ corpus' = corpus /\ order' = order /\ queue' = queue /\ visited' = visited
          /\ adjacency' = adjacency /\ entry' = entry /\ phase' = phase
          /\ Node' = Node /\ Met' = Met /\ Line' = Line
      BY <2>7 DEF vars, shardVars, graph, layoutVars, Node, Indices, Met, Line
    <3>2. Sweep(Line, Met, Len(order), visited)' = Sweep(Line, Met, Len(order), visited)
      BY <3>1 DEF Sweep, Ball
    <3>3. Islands(Line, Met)' = Islands(Line, Met)
      BY <3>1 DEF Islands
    <3> QED
      BY <3>1, <3>2, <3>3 DEF Sweeping
  <2> QED
    BY <2>1, <2>2, <2>3, <2>4, <2>5, <2>6, <2>7 DEF Next
<1> QED
  BY <1>1, <1>2, ShardInvHolds, PTL DEF Spec

\* layout_order yields a permutation of the nodes however the graph falls apart, and never
\* puts a node before one that fewer links lead to from the entry point, for every graph
\* that keeps build_resident's promise or is merged from such graphs.
THEOREM LayoutOrderIsBreadthFirst == Spec => []OrderIsBreadthFirst
BY SweepingHolds, ShardInvHolds, SweepIsComplete, PTL

\* On islands that no path from the entry point leads to, layout_order starts from the
\* least node left each time, for the same graphs.
THEOREM LayoutTakesIslandsById == Spec => []IslandsComeById
BY SweepingHolds, ShardInvHolds, SweepLeavesIslandsById, PTL

-----------------------------------------------------------------------------
(* k-means.                                                                *)

\* A run over points of n elements that has begun.
Running(n) ==
  /\ kpc \in {"seed", "assign", "recompute", "trained"}
  /\ points \in Seq(Space(n)) /\ Len(points) >= 1
  /\ want \in Nat \ {0}
  /\ centroids \in Seq(Space(n))
  /\ kpc = "seed" => Len(centroids) < want
  /\ kpc \in {"assign", "recompute"} => Len(centroids) = want
  /\ kpc = "trained" => Len(centroids) >= 1
  /\ assignment \in [Indices(points) -> 1 .. want]
  /\ kpc = "recompute" => cluster \in 1 .. want
  /\ Len(points) =< want => kpc = "trained" /\ centroids = points

LEMMA TrainingStarts ==
  ASSUME NEW n \in Nat, NEW ps \in Seq(Space(n)), Len(ps) >= 1, NEW k \in Nat \ {0}, Train(ps, k)
  PROVE  Running(n)' /\ points' = ps /\ want' = k
<1>1. points' = ps /\ want' = k
  BY DEF Train
<1>0. assignment' \in [Indices(points)' -> 1 .. want']
  <2>1. assignment' = [i \in Indices(ps) |-> 1] /\ 1 \in 1 .. k
    BY DEF Train
  <2>2. Indices(points)' = Indices(ps)
    BY <1>1 DEF Indices
  <2> QED
    BY <1>1, <2>1, <2>2
<1>2. CASE Len(ps) =< k
  BY <1>0, <1>1, <1>2 DEF Train, Running
<1>3. CASE ~ (Len(ps) =< k)
  <2>1. centroids' = << >> /\ kpc' = "seed"
    BY <1>3 DEF Train
  <2>2. centroids' \in Seq(Space(n)) /\ Len(centroids') = 0
    BY <2>1
  <2> QED
    BY <1>0, <1>1, <1>3, <2>1, <2>2 DEF Running
<1> QED
  BY <1>1, <1>2, <1>3

LEMMA IndicesAreFinite ==
  ASSUME NEW S, NEW s \in Seq(S)
  PROVE  /\ Len(s) \in Nat /\ Indices(s) = 1 .. Len(s) /\ Indices(s) \in SUBSET Nat
         /\ IsFiniteSet(Indices(s)) /\ (Len(s) >= 1 => 1 \in Indices(s))
         /\ DOMAIN s = Indices(s) /\ \A i \in Indices(s) : s[i] \in S
<1>1. Len(s) \in Nat
  OBVIOUS
<1>2. IsFiniteSet(1 .. Len(s))
  BY <1>1, FS_Interval
<1> QED
  BY <1>1, <1>2 DEF Indices

\* The centroid nearest to a vector is one of those there are.
LEMMA NearestIsCentroid ==
  ASSUME NEW n \in Nat, NEW v \in Space(n), NEW cs \in Seq(Space(n)), Len(cs) >= 1
  PROVE  LET d == [c \in Indices(cs) |-> SquaredL2(v, cs[c])]
         IN  /\ ArgMin(d) \in Indices(cs)
             /\ \A c \in Indices(cs) : SquaredL2(v, cs[ArgMin(d)]) =< SquaredL2(v, cs[c])
<1> DEFINE d == [c \in Indices(cs) |-> SquaredL2(v, cs[c])]
           S == Indices(cs)
<1>1. S \in SUBSET Nat /\ IsFiniteSet(S) /\ S # {} /\ \A c \in S : cs[c] \in Space(n)
  BY IndicesAreFinite
<1>2. \A c \in S : SquaredL2(v, cs[c]) \in Int
  BY <1>1, SquaredL2Separates
<1>3. d \in [S -> Int]
  BY <1>2
<1>4. \A c \in S : d[c] = SquaredL2(v, cs[c])
  OBVIOUS
<1> HIDE DEF d, S
<1>5. /\ ArgMin(d) \in S
      /\ \A j \in S : d[ArgMin(d)] < d[j] \/ (d[ArgMin(d)] = d[j] /\ ArgMin(d) =< j)
  BY <1>1, <1>3, ArgMinIsLeast
<1>6. \A j \in S : SquaredL2(v, cs[ArgMin(d)]) =< SquaredL2(v, cs[j])
  BY <1>2, <1>4, <1>5
<1> QED
  BY <1>5, <1>6 DEF d, S

\* A mean has as many elements as the points.
LEMMA MeanIsVector ==
  ASSUME NEW n \in Nat, Running(n), NEW c, Members(c) # {}
  PROVE  Mean(c) \in Space(n)
<1>1. /\ Indices(points) \in SUBSET Nat /\ IsFiniteSet(Indices(points)) /\ 1 \in Indices(points)
      /\ \A i \in Indices(points) : points[i] \in Space(n)
  BY IndicesAreFinite DEF Running
<1>2. Members(c) \in SUBSET Indices(points) /\ IsFiniteSet(Members(c))
  BY <1>1, FS_Subset DEF Members
<1>3. Cardinality(Members(c)) \in Nat \ {0}
  BY <1>2, FS_CardinalityType, FS_EmptySet
<1>4. DOMAIN points[1] = 1 .. n
  BY <1>1 DEF Space
<1>5. ASSUME NEW d \in 1 .. n PROVE Total([i \in Members(c) |-> points[i][d]]) \in Int
  <2> DEFINE f == [i \in Members(c) |-> points[i][d]]
  <2>1. \A i \in Members(c) : points[i][d] \in Int
    BY <1>1, <1>2 DEF Space
  <2>2. f \in [Members(c) -> Int]
    BY <2>1
  <2> HIDE DEF f
  <2>3. Total(f) \in Int
    BY <1>2, <2>2, TotalIsInteger
  <2> QED
    BY <2>3 DEF f
<1>6. \A d \in 1 .. n : Total([i \in Members(c) |-> points[i][d]]) \div Cardinality(Members(c)) \in Int
  BY <1>3, <1>5
<1> QED
  BY <1>4, <1>6 DEF Mean, Space

LEMMA KMeansStepKeeps ==
  ASSUME NEW n \in Nat, Running(n), KMeansStep
  PROVE  Running(n)' /\ points' = points /\ want' = want
<1>1. points' = points /\ want' = want /\ Indices(points)' = Indices(points)
  BY DEF KMeansStep, AssignAll, Recompute, Seed, Indices
<1>2. /\ points \in Seq(Space(n)) /\ Len(points) >= 1 /\ want \in Nat \ {0}
      /\ centroids \in Seq(Space(n)) /\ Len(centroids) \in Nat /\ Len(points) \in Nat
  BY DEF Running
<1>3. kpc # "trained" /\ ~ (Len(points) =< want)
  BY DEF Running, KMeansStep, AssignAll, Recompute, Seed
<1>4. /\ Indices(points) \in SUBSET Nat /\ IsFiniteSet(Indices(points)) /\ 1 \in Indices(points)
      /\ \A i \in Indices(points) : points[i] \in Space(n)
  BY <1>2, IndicesAreFinite
<1>5. CASE \E i \in Indices(points) : Seed(i)
  <2>1. PICK i \in Indices(points) : Seed(i)
    BY <1>5
  <2>2. points[i] \in Space(n)
    BY <1>4
  <2>3. centroids' \in Seq(Space(n)) /\ Len(centroids') = Len(centroids) + 1
    BY <1>2, <2>1, <2>2 DEF Seed
  <2>4. Len(centroids) < want /\ kpc' = IF Len(centroids) + 1 = want THEN "assign" ELSE "seed"
    BY <2>1 DEF Seed
  <2>5. /\ kpc' = "seed" => Len(centroids') < want
        /\ kpc' \in {"assign", "recompute"} => Len(centroids') = want
        /\ kpc' \in {"seed", "assign"}
    BY <1>2, <2>3, <2>4
  <2> QED
    <3>1. assignment' = assignment /\ assignment \in [Indices(points) -> 1 .. want]
      BY <2>1 DEF Seed, Running
    <3>2. assignment' \in [Indices(points)' -> 1 .. want']
      BY <1>1, <3>1
    <3> QED
      BY <1>1, <1>2, <1>3, <2>3, <2>5, <3>2 DEF Running
<1>6. CASE AssignAll
  <2>1. Len(centroids) = want /\ Len(centroids) >= 1
    BY <1>2, <1>6 DEF Running, AssignAll
  <2>2. \A i \in Indices(points) :
          ArgMin([c \in Indices(centroids) |-> SquaredL2(points[i], centroids[c])]) \in Indices(centroids)
    BY <1>2, <1>4, <2>1, NearestIsCentroid
  <2>3. assignment' \in [Indices(points) -> 1 .. want]
    BY <1>6, <2>1, <2>2 DEF AssignAll, Indices
  <2>4. kpc' = "recompute" /\ cluster' = 1 /\ centroids' = centroids
    BY <1>6 DEF AssignAll
  <2>5. cluster' \in 1 .. want
    BY <1>2, <2>4
  <2> QED
    BY <1>1, <1>2, <1>3, <2>1, <2>3, <2>4, <2>5 DEF Running
<1>7. CASE Recompute
  <2>1. /\ Len(centroids) = want /\ assignment \in [Indices(points) -> 1 .. want]
        /\ cluster \in 1 .. want
    BY <1>7 DEF Running, Recompute
  <2>2. points[FarthestPoint] \in Space(n)
    <3> DEFINE far == [i \in Indices(points) |-> SquaredL2(points[i], centroids[assignment[i]])]
               near == [i \in DOMAIN far |-> 0 - far[i]]
    <3>1. \A i \in Indices(points) : centroids[assignment[i]] \in Space(n)
      BY <1>2, <2>1
    <3>2. \A i \in Indices(points) : SquaredL2(points[i], centroids[assignment[i]]) \in Int
      BY <1>4, <3>1, SquaredL2Separates
    <3>3. near \in [Indices(points) -> Int]
      BY <3>2
    <3>4. FarthestPoint = ArgMin(near)
      BY DEF FarthestPoint, ArgMax
    <3> HIDE DEF near
    <3>5. ArgMin(near) \in Indices(points)
      BY <1>4, <3>3, ArgMinIsLeast
    <3> QED
      BY <1>4, <3>4, <3>5
  <2>3. (IF Members(cluster) = {} THEN points[FarthestPoint] ELSE Mean(cluster)) \in Space(n)
    BY <2>2, MeanIsVector
  <2>4. centroids' = [centroids EXCEPT ![cluster] =
                     IF Members(cluster) = {} THEN points[FarthestPoint] ELSE Mean(cluster)]
    BY <1>7 DEF Recompute
  <2>5. centroids' \in Seq(Space(n)) /\ Len(centroids') = want
    BY <1>2, <2>1, <2>3, <2>4
  <2>6. /\ kpc' \in {"recompute", "assign", "trained"}
        /\ kpc' = "recompute" => cluster' \in 1 .. want
        /\ assignment' = assignment
    BY <1>2, <1>7, <2>1 DEF Recompute
  <2> QED
    BY <1>1, <1>2, <1>3, <2>1, <2>5, <2>6 DEF Running
<1> QED
  BY <1>1, <1>5, <1>6, <1>7 DEF KMeansStep

\* old and new differ on T alone, where they are g and f.
ReplacesPart(S, T, old, new, g, f) ==
  /\ T \in SUBSET S /\ old \in [S -> Int] /\ new \in [S -> Int]
  /\ g \in [T -> Int] /\ f \in [T -> Int] /\ Total(f) =< Total(g)
  /\ \A i \in S : i \notin T => new[i] = old[i]
  /\ \A i \in T : new[i] = f[i] /\ old[i] = g[i]

\* A sum does not rise when a part of it does not.
LEMMA TotalWithPart ==
  ASSUME NEW S, IsFiniteSet(S), NEW T, NEW old, NEW new, NEW g, NEW f,
         ReplacesPart(S, T, old, new, g, f)
  PROVE  Total(new) =< Total(old)
<1> DEFINE diff == [i \in S |-> old[i] - new[i]]
           part == [i \in T |-> g[i] - f[i]]
<1>1. /\ T \in SUBSET S /\ old \in [S -> Int] /\ new \in [S -> Int]
      /\ g \in [T -> Int] /\ f \in [T -> Int] /\ Total(f) =< Total(g)
      /\ \A i \in S : i \notin T => new[i] = old[i]
      /\ \A i \in T : new[i] = f[i] /\ old[i] = g[i]
      /\ IsFiniteSet(T)
  BY FS_Subset DEF ReplacesPart
<1>2. /\ \A i \in S : old[i] \in Int /\ new[i] \in Int
      /\ \A i \in T : g[i] \in Int /\ f[i] \in Int
  BY <1>1
<1>3. diff \in [S -> Int] /\ part \in [T -> Int]
  BY <1>2
<1>4. Combines(S, old, new, 1, diff) /\ Combines(T, g, f, 1, part)
  BY <1>2 DEF Combines
<1>5. \A i \in S \ T : diff[i] = 0
  BY <1>1, <1>2
<1>6. [i \in T |-> diff[i]] = part
  BY <1>1
<1> HIDE DEF diff, part
<1>7. Total(old) = Total(new) + 1 * Total(diff)
  <2>1. 1 \in Int
    OBVIOUS
  <2> QED
    BY <1>1, <1>3, <1>4, <2>1, TotalIsLinear
<1>8. Total(g) = Total(f) + 1 * Total(part)
  <2>1. 1 \in Int
    OBVIOUS
  <2> QED
    BY <1>1, <1>3, <1>4, <2>1, TotalIsLinear
<1>9. Total(diff) = Total(part)
  BY <1>1, <1>3, <1>5, <1>6, TotalOfPart
<1>10. /\ Total(old) \in Int /\ Total(new) \in Int /\ Total(g) \in Int /\ Total(f) \in Int
       /\ Total(part) \in Int
  BY <1>1, <1>3, TotalIsInteger
<1> QED
  BY <1>1, <1>7, <1>8, <1>9, <1>10

\* What each point adds to the cost.
Share(i) == SquaredL2(points[i], centroids[assignment[i]])

LEMMA SharesAreIntegers ==
  ASSUME NEW n \in Nat, Running(n), kpc \in {"assign", "recompute"}
  PROVE  /\ IsFiniteSet(Indices(points))
         /\ \A i \in Indices(points) : /\ points[i] \in Space(n)
                                       /\ assignment[i] \in Indices(centroids)
                                       /\ centroids[assignment[i]] \in Space(n)
                                       /\ Share(i) \in Int
         /\ Cost = Total([i \in Indices(points) |-> Share(i)])
<1>1. /\ IsFiniteSet(Indices(points)) /\ \A i \in Indices(points) : points[i] \in Space(n)
  BY IndicesAreFinite DEF Running
<1>2. /\ Indices(centroids) = 1 .. want /\ \A c \in Indices(centroids) : centroids[c] \in Space(n)
  BY IndicesAreFinite DEF Running
<1>3. \A i \in Indices(points) : assignment[i] \in Indices(centroids)
  BY <1>2 DEF Running
<1>4. \A i \in Indices(points) : Share(i) \in Int
  BY <1>1, <1>2, <1>3, SquaredL2Separates DEF Share
<1>5. Cost = Total([i \in Indices(points) |-> Share(i)])
  BY DEF Cost, Share
<1> QED
  BY <1>1, <1>2, <1>3, <1>4, <1>5

\* No point is nearer to the centroid it had than to the nearest.
LEMMA AssigningDescends ==
  ASSUME NEW n \in Nat, Running(n), AssignAll
  PROVE  Cost' =< Cost
<1>1. kpc = "assign" /\ points' = points /\ centroids' = centroids
  BY DEF AssignAll
<1>2. /\ IsFiniteSet(Indices(points))
      /\ \A i \in Indices(points) : /\ points[i] \in Space(n) /\ assignment[i] \in Indices(centroids)
                                    /\ Share(i) \in Int
      /\ Cost = Total([i \in Indices(points) |-> Share(i)])
  BY <1>1, SharesAreIntegers
<1>3. centroids \in Seq(Space(n)) /\ Len(centroids) >= 1
  BY <1>1 DEF Running
<1> DEFINE new == [i \in Indices(points) |-> SquaredL2(points[i], centroids[assignment'[i]])]
           old == [i \in Indices(points) |-> Share(i)]
<1>4. ASSUME NEW i \in Indices(points)
      PROVE  new[i] \in Int /\ new[i] =< old[i]
  <2>1. PICK a : a = ArgMin([c \in Indices(centroids) |-> SquaredL2(points[i], centroids[c])])
    OBVIOUS
  <2>2. assignment'[i] = a
    BY <2>1 DEF AssignAll
  <2>3. /\ a \in Indices(centroids)
        /\ \A c \in Indices(centroids) : SquaredL2(points[i], centroids[a]) =< SquaredL2(points[i], centroids[c])
    BY <1>2, <1>3, <2>1, NearestIsCentroid
  <2>4. SquaredL2(points[i], centroids[a]) =< Share(i)
    BY <1>2, <2>3 DEF Share
  <2>5. centroids[a] \in Space(n)
    BY <1>3, <2>3, IndicesAreFinite
  <2>6. SquaredL2(points[i], centroids[a]) \in Int
    BY <1>2, <2>5, SquaredL2Separates
  <2> QED
    BY <2>2, <2>4, <2>6
<1>5. new \in [Indices(points) -> Int] /\ old \in [Indices(points) -> Int]
  BY <1>2, <1>4
<1>6. Cost' = Total(new)
  BY <1>1 DEF Cost, Indices
<1> HIDE DEF new, old
<1>7. Total(new) =< Total(old)
  BY <1>2, <1>4, <1>5, TotalsCompare
<1> QED
  BY <1>2, <1>6, <1>7 DEF old

\* The distances of the members of a cluster from a vector.
Distances(c, v) == [i \in Members(c) |-> SquaredL2(points[i], v)]

Centred(c, v) ==
  /\ Distances(c, Mean(c)) \in [Members(c) -> Int] /\ Distances(c, v) \in [Members(c) -> Int]
  /\ Total(Distances(c, Mean(c))) =< Total(Distances(c, v))

\* The mean of the members of a cluster, in the sum of the squares of their distances, is
\* no farther from them than any other vector.
LEMMA MeanIsCentre ==
  ASSUME NEW n \in Nat, Running(n), WholeMeans(points), NEW c, Members(c) # {},
         NEW old \in Space(n)
  PROVE  Centred(c, old)
<1>1. /\ points \in Seq(Space(n)) /\ IsFiniteSet(Indices(points)) /\ Indices(points) = 1 .. Len(points)
      /\ 1 \in Indices(points) /\ \A i \in Indices(points) : points[i] \in Space(n)
  BY IndicesAreFinite DEF Running
<1>2. PICK S : S = Members(c)
  OBVIOUS
<1>3. S \in SUBSET Indices(points) /\ IsFiniteSet(S) /\ S # {}
  BY <1>1, <1>2, FS_Subset DEF Members
<1>4. PICK k \in Nat \ {0} : k = Cardinality(S)
  BY <1>3, FS_CardinalityType, FS_EmptySet
<1>5. k \in Indices(points)
  <2>1. Cardinality(Indices(points)) = Len(points)
    <3>1. Len(points) \in Nat /\ 1 \in Int /\ Len(points) \in Int
      BY <1>1
    <3>2. Cardinality(1 .. Len(points)) = IF 1 > Len(points) THEN 0 ELSE Len(points) - 1 + 1
      BY <3>1, FS_Interval
    <3> QED
      BY <1>1, <3>1, <3>2
  <2>2. Cardinality(S) <= Cardinality(Indices(points))
    BY <1>1, <1>3, FS_Subset
  <2> QED
    BY <1>1, <1>4, <2>1, <2>2
<1> DEFINE D == 1 .. n
<1>6. IsFiniteSet(D)
  BY FS_Interval
<1>7. \A i \in S : points[i] \in [D -> Int]
  BY <1>1, <1>3 DEF Space
<1>8. PICK q \in Space(n) : q = Mean(c)
  BY <1>2, <1>3, MeanIsVector
<1>9. ASSUME NEW d \in D PROVE k * q[d] = Total([i \in S |-> points[i][d]])
  <2> DEFINE f == [i \in S |-> points[i][d]]
  <2>1. f \in [S -> Int]
    BY <1>7
  <2>2. \A i \in S : f[i] % k = 0
    <3>1. \A i \in S : DOMAIN points[i] = D
      BY <1>7
    <3> QED
      BY <1>3, <1>5, <3>1 DEF WholeMeans
  <2>3. q[d] = Total(f) \div k
    <3>1. DOMAIN points[1] = D
      BY <1>1 DEF Space
    <3> QED
      BY <1>2, <1>4, <1>8, <3>1 DEF Mean
  <2> HIDE DEF f
  <2>4. k * (Total(f) \div k) = Total(f)
    BY <1>3, <2>1, <2>2, TotalOfMultiples
  <2> QED
    BY <2>3, <2>4 DEF f
<1> DEFINE Table(v) == [i \in S |-> [d \in D |-> (points[i][d] - v[d]) * (points[i][d] - v[d])]]
<1>10. ASSUME NEW v \in Space(n)
       PROVE  /\ Table(v) \in [S -> [D -> Int]]
              /\ Rows(S, D, Table(v)) = [i \in S |-> SquaredL2(points[i], v)]
              /\ Columns(S, D, Table(v))
                 = [d \in D |-> Total([i \in S |-> (points[i][d] - v[d]) * (points[i][d] - v[d])])]
  <2>1. \A i \in S : \A d \in D : points[i][d] \in Int /\ v[d] \in Int
    BY <1>7 DEF Space
  <2>2. Table(v) \in [S -> [D -> Int]]
    BY <2>1
  <2>3. \A i \in S : SquaredL2(points[i], v) = Total([d \in D |-> Table(v)[i][d]])
    <3> SUFFICES ASSUME NEW i \in S
                 PROVE  SquaredL2(points[i], v) = Total([d \in D |-> Table(v)[i][d]])
      OBVIOUS
    <3>1. DOMAIN points[i] = D
      BY <1>7
    <3>2. [d \in DOMAIN points[i] |-> (points[i][d] - v[d]) * (points[i][d] - v[d])]
          = [d \in D |-> Table(v)[i][d]]
      BY <3>1
    <3> QED
      BY <3>2 DEF SquaredL2
  <2>4. Rows(S, D, Table(v)) = [i \in S |-> SquaredL2(points[i], v)]
    BY <2>3 DEF Rows
  <2>5. \A d \in D : Total([i \in S |-> Table(v)[i][d]])
                     = Total([i \in S |-> (points[i][d] - v[d]) * (points[i][d] - v[d])])
    <3> SUFFICES ASSUME NEW d \in D
                 PROVE  [i \in S |-> Table(v)[i][d]]
                        = [i \in S |-> (points[i][d] - v[d]) * (points[i][d] - v[d])]
      OBVIOUS
    <3>1. \A i \in S : Table(v)[i][d] = (points[i][d] - v[d]) * (points[i][d] - v[d])
      OBVIOUS
    <3> HIDE DEF Table
    <3> QED
      BY <3>1
  <2>6. Columns(S, D, Table(v))
        = [d \in D |-> Total([i \in S |-> (points[i][d] - v[d]) * (points[i][d] - v[d])])]
    <3> HIDE DEF Table
    <3> QED
      BY <2>5 DEF Columns
  <2> QED
    BY <2>2, <2>4, <2>6
<1>11. PICK F \in [S -> [D -> Int]], G \in [S -> [D -> Int]] :
         /\ Rows(S, D, F) = [i \in S |-> SquaredL2(points[i], q)]
         /\ Rows(S, D, G) = [i \in S |-> SquaredL2(points[i], old)]
         /\ Columns(S, D, F)
            = [d \in D |-> Total([i \in S |-> (points[i][d] - q[d]) * (points[i][d] - q[d])])]
         /\ Columns(S, D, G)
            = [d \in D |-> Total([i \in S |-> (points[i][d] - old[d]) * (points[i][d] - old[d])])]
  BY <1>10
<1> HIDE DEF Table
<1>12. \A d \in D : Columns(S, D, F)[d] =< Columns(S, D, G)[d]
  <2> SUFFICES ASSUME NEW d \in D
               PROVE  Total([i \in S |-> (points[i][d] - q[d]) * (points[i][d] - q[d])])
                      =< Total([i \in S |-> (points[i][d] - old[d]) * (points[i][d] - old[d])])
    BY <1>11
  <2>1. PICK x \in [S -> Int] : x = [i \in S |-> points[i][d]]
    BY <1>7
  <2>2. PICK r \in Int, o \in Int : r = q[d] /\ o = old[d]
    BY DEF Space
  <2>3. IsMean(S, x, r)
    BY <1>4, <1>9, <2>1, <2>2 DEF IsMean
  <2>4. Spread(S, x, r) =< Spread(S, x, o)
    BY <1>3, <2>3, MeanIsNearest
  <2>5. /\ [i \in S |-> (x[i] - r) * (x[i] - r)] = [i \in S |-> (points[i][d] - q[d]) * (points[i][d] - q[d])]
        /\ [i \in S |-> (x[i] - o) * (x[i] - o)] = [i \in S |-> (points[i][d] - old[d]) * (points[i][d] - old[d])]
    BY <2>1, <2>2
  <2> QED
    BY <2>4, <2>5 DEF Spread
<1> HIDE DEF D
<1>13. /\ Rows(S, D, F) \in [S -> Int] /\ Columns(S, D, F) \in [D -> Int]
       /\ Total(Rows(S, D, F)) = Total(Columns(S, D, F))
  BY <1>3, <1>6, RowsOrColumns
<1>14. /\ Rows(S, D, G) \in [S -> Int] /\ Columns(S, D, G) \in [D -> Int]
       /\ Total(Rows(S, D, G)) = Total(Columns(S, D, G))
  BY <1>3, <1>6, RowsOrColumns
<1>15. Total(Rows(S, D, F)) =< Total(Rows(S, D, G))
  BY <1>6, <1>12, <1>13, <1>14, TotalsCompare
<1> QED
  BY <1>2, <1>8, <1>11, <1>13, <1>14, <1>15 DEF Centred, Distances

\* A cluster that is recomputed has no members, or gets their mean.
LEMMA RecomputingDescends ==
  ASSUME NEW n \in Nat, Running(n), WholeMeans(points), Recompute
  PROVE  Cost' =< Cost
<1>1. /\ kpc = "recompute" /\ points' = points /\ assignment' = assignment
      /\ centroids' = [centroids EXCEPT ![cluster] =
                         IF Members(cluster) = {} THEN points[FarthestPoint] ELSE Mean(cluster)]
  BY DEF Recompute
<1>2. /\ IsFiniteSet(Indices(points))
      /\ \A i \in Indices(points) : /\ points[i] \in Space(n) /\ assignment[i] \in Indices(centroids)
                                    /\ Share(i) \in Int
      /\ Cost = Total([i \in Indices(points) |-> Share(i)])
  BY <1>1, SharesAreIntegers
<1>3. /\ centroids \in Seq(Space(n)) /\ cluster \in Indices(centroids)
      /\ DOMAIN centroids = Indices(centroids)
      /\ \A c \in Indices(centroids) : centroids[c] \in Space(n)
  <2>1. centroids \in Seq(Space(n)) /\ Len(centroids) = want /\ cluster \in 1 .. want
    BY <1>1 DEF Running
  <2> QED
    BY <2>1, IndicesAreFinite
<1> DEFINE new == [i \in Indices(points) |-> SquaredL2(points[i], centroids'[assignment[i]])]
           old == [i \in Indices(points) |-> Share(i)]
           S == Indices(points)
           T == Members(cluster)
<1>4. Cost' = Total(new)
  BY <1>1 DEF Cost, Indices
<1>5. T \in SUBSET S /\ \A i \in S : i \in T <=> assignment[i] = cluster
  BY DEF Members
<1>6. \A i \in S \ T : new[i] = old[i] /\ old[i] \in Int
  <2> SUFFICES ASSUME NEW i \in S \ T PROVE new[i] = old[i] /\ old[i] \in Int
    OBVIOUS
  <2>1. assignment[i] # cluster /\ assignment[i] \in Indices(centroids)
    BY <1>2, <1>5
  <2>2. centroids'[assignment[i]] = centroids[assignment[i]]
    BY <1>1, <1>3, <2>1
  <2> QED
    BY <1>2, <2>2 DEF Share
<1>7. CASE T = {}
  <2>1. \A i \in S : new[i] = old[i]
    BY <1>6, <1>7
  <2>2. new = old
    BY <2>1
  <2>3. Total(old) \in Int
    <3>1. old \in [S -> Int]
      BY <1>2
    <3> HIDE DEF old
    <3> QED
      BY <1>2, <3>1, TotalIsInteger
  <2> HIDE DEF new, old
  <2> QED
    BY <1>2, <1>4, <2>2, <2>3 DEF old
<1>8. CASE T # {}
  <2>1. PICK was, mean : was = centroids[cluster] /\ mean = Mean(cluster) /\ was \in Space(n)
    BY <1>3
  <2>2. centroids'[cluster] = mean
    BY <1>1, <1>3, <1>8, <2>1
  <2>3. Centred(cluster, was)
    BY <1>8, <2>1, MeanIsCentre
  <2>4. \A i \in T : /\ new[i] = Distances(cluster, mean)[i]
                     /\ old[i] = Distances(cluster, was)[i]
    <3> SUFFICES ASSUME NEW i \in T
                 PROVE  new[i] = Distances(cluster, mean)[i] /\ old[i] = Distances(cluster, was)[i]
      OBVIOUS
    <3>1. assignment[i] = cluster /\ i \in S
      BY <1>5
    <3> QED
      BY <2>1, <2>2, <3>1 DEF Share, Distances
  <2>5. PICK f, g : /\ f = Distances(cluster, mean) /\ g = Distances(cluster, was)
                    /\ f \in [T -> Int] /\ g \in [T -> Int] /\ Total(f) =< Total(g)
    BY <2>1, <2>3 DEF Centred
  <2> HIDE DEF T
  <2>6. new \in [S -> Int] /\ old \in [S -> Int]
    <3>1. \A i \in S : new[i] \in Int /\ old[i] \in Int
      <4> SUFFICES ASSUME NEW i \in S PROVE new[i] \in Int /\ old[i] \in Int
        OBVIOUS
      <4>1. CASE i \in T
        <5>1. f[i] \in Int /\ g[i] \in Int
          BY <2>5, <4>1
        <5> QED
          BY <2>4, <2>5, <4>1, <5>1
      <4>2. CASE i \notin T
        BY <1>6, <4>2
      <4> QED
        BY <4>1, <4>2
    <3> QED
      BY <3>1
  <2>7. /\ \A i \in S : i \notin T => new[i] = old[i]
        /\ \A i \in T : new[i] = f[i] /\ old[i] = g[i]
    BY <1>6, <2>4, <2>5
  <2> HIDE DEF new, old, S
  <2>8. Total(new) =< Total(old)
    <3>1. ReplacesPart(S, T, old, new, g, f)
      BY <1>5, <2>5, <2>6, <2>7 DEF ReplacesPart
    <3> QED
      BY <1>2, <3>1, TotalWithPart DEF S
  <2> QED
    BY <1>2, <1>4, <2>8 DEF old, S
<1> QED
  BY <1>7, <1>8

-----------------------------------------------------------------------------
(* The inverted file: training and build.                                  *)

\* The number of elements of the stored vectors.
Dim == Len(store[1])

Column(s) == [i \in Ids |-> <<store[i][s]>>]

\* Every vector is in the lists of the cells nearest to it.
Posted ==
  \/ store = << >> /\ cells = << >>
  \/ /\ store # << >> /\ cells \in Seq(Space(Dim)) /\ Len(cells) >= 1
     /\ postings = [c \in Indices(cells) |->
                      {i \in Ids : c \in NearestCells(store[i], Smaller(params.soft, Len(cells)), cells)}]

\* A subspace has centroids, and is its column when they are enough for that.
Trained ==
  /\ codebook \in Seq(Seq(Space(1)))
  /\ \A s \in Indices(codebook) :
       /\ Len(codebook[s]) >= 1
       /\ Len(store) =< params.sub => codebook[s] = Column(s)

Done == {"ready", "searched", "gated", "unsupported", "panicked"}

IvfInv ==
  /\ store \in Stores /\ params \in Params
  /\ withPq \in BOOLEAN /\ metric \in {"L2", "InnerProduct"}
  /\ stage \in {"build", "cells", "quantize", "codebook"} \cup Done
  /\ stage = "build" => cells = << >>
  /\ stage \in {"build", "cells"} => codebook = << >>
  /\ stage \in {"cells", "quantize", "codebook"} => store # << >>
  /\ stage = "cells" => Running(Dim) /\ points = store
  /\ stage \notin {"build", "cells"} => Posted
  /\ stage \in {"quantize", "codebook"} => withPq /\ Trained
  /\ stage = "codebook" => /\ Len(codebook) < Dim
                           /\ Running(1) /\ points = Column(Len(codebook) + 1) /\ want = params.sub
  /\ stage \in Done /\ withPq /\ store # << >> =>
       Trained /\ Len(codebook) = Dim /\ pqCodes = [i \in Ids |-> Encode(store[i])]
  /\ stage \in {"searched", "gated"} => /\ query \in Queries /\ config \in Configs
                                        /\ answer = Best(config.k, query, fetched)
  /\ stage = "searched" => fetched = IF cells = << >> THEN {} ELSE Candidates(query)
  /\ stage = "gated" =>
       IF NothingToGate(query) THEN fetched = {}
       ELSE withPq /\ fetched = Gated(query, Budget(Cardinality(Candidates(query)), config))

LEMMA StoresAreSpaces ==
  ASSUME store \in Stores
  PROVE  /\ store \in Seq(Seq(Int)) /\ Len(store) \in Nat /\ Ids = 1 .. Len(store)
         /\ Ids \in SUBSET Nat /\ IsFiniteSet(Ids) /\ Cardinality(Ids) = Len(store)
         /\ store # << >> => /\ 1 \in Ids /\ Dim \in Nat /\ store \in Seq(Space(Dim))
                             /\ \A i \in Ids : store[i] \in Space(Dim)
                             /\ Queries \subseteq Space(Dim)
<1>1. store \in Seq(Seq(Int)) /\ SameSpace(Range(store) \cup Queries)
  BY IvfAssumption
<1>2. PICK d \in Nat : (\A i \in Indices(store) : store[i] \in Space(d)) /\ Queries \subseteq Space(d)
  BY <1>1, OneSpace
<1>3. /\ Len(store) \in Nat /\ Ids = 1 .. Len(store) /\ Ids \in SUBSET Nat /\ IsFiniteSet(Ids)
      /\ DOMAIN store = Ids
  BY <1>1, IndicesAreFinite DEF Ids
<1>4. Cardinality(Ids) = Len(store)
  <2>1. \A i \in Nat : Cardinality(1 .. i) = i
    <3> SUFFICES ASSUME NEW i \in Nat PROVE Cardinality(1 .. i) = i
      OBVIOUS
    <3>1. 1 \in Int /\ i \in Int
      OBVIOUS
    <3>2. Cardinality(1 .. i) = IF 1 > i THEN 0 ELSE i - 1 + 1
      BY <3>1, FS_Interval
    <3> QED
      BY <3>2
  <2> QED
    BY <1>3, <2>1
<1>5. ASSUME store # << >> PROVE 1 \in Ids
  BY <1>1, <1>3, <1>5
<1>6. ASSUME store # << >> PROVE Dim = d
  <2>0. 1 \in Ids
    BY <1>5, <1>6
  <2>1. store[1] \in Seq(Int) /\ store[1] \in Space(d)
    <3>1. \A i \in Ids : store[i] \in Seq(Int)
      BY <1>1, <1>3
    <3>2. \A i \in Ids : store[i] \in Space(d)
      BY <1>2 DEF Ids
    <3> QED
      BY <2>0, <3>1, <3>2
  <2> QED
    BY <2>1 DEF Dim, Space
<1>7. ASSUME store # << >> PROVE store \in Seq(Space(d))
  <2>1. store = [i \in 1 .. Len(store) |-> store[i]]
    BY <1>1
  <2>2. \A i \in 1 .. Len(store) : store[i] \in Space(d)
    BY <1>2 DEF Indices
  <2> QED
    BY <1>3, <2>1, <2>2
<1> QED
  BY <1>1, <1>2, <1>3, <1>4, <1>5, <1>6, <1>7 DEF Ids

LEMMA ColumnsAreVectors ==
  ASSUME store \in Stores, store # << >>, NEW s \in 1 .. Dim
  PROVE  /\ Column(s) \in Seq(Space(1)) /\ Len(Column(s)) = Len(store) /\ Len(store) >= 1
         /\ Indices(Column(s)) = Ids
<1>1. \A i \in Ids : store[i][s] \in Int
  BY StoresAreSpaces DEF Space
<1>2. \A i \in Ids : <<store[i][s]>> \in Space(1)
  BY <1>1 DEF Space
<1>3. Len(store) \in Nat /\ Ids = 1 .. Len(store) /\ 1 \in Ids
  BY StoresAreSpaces
<1>4. Column(s) \in Seq(Space(1)) /\ Len(Column(s)) = Len(store)
  BY <1>2, <1>3 DEF Column
<1> QED
  BY <1>3, <1>4 DEF Indices

LEMMA ParamsAreNumbers ==
  ASSUME params \in Params
  PROVE  /\ params.lists \in Nat \ {0} /\ params.probes \in Nat \ {0} /\ params.soft \in Nat \ {0}
         /\ params.sub \in Nat \ {0}
BY IvfAssumption DEF ValidIvf, ValidPq

\* What a step that leaves the index alone leaves alone.
LEMMA IndexStays ==
  ASSUME UNCHANGED index
  PROVE  /\ store' = store /\ params' = params /\ withPq' = withPq /\ metric' = metric
         /\ cells' = cells /\ postings' = postings /\ codebook' = codebook /\ pqCodes' = pqCodes
         /\ Ids' = Ids /\ Dim' = Dim /\ Posted' = Posted /\ Trained' = Trained
<1>1. /\ store' = store /\ params' = params /\ withPq' = withPq /\ metric' = metric
      /\ cells' = cells /\ postings' = postings /\ codebook' = codebook /\ pqCodes' = pqCodes
  BY DEF index
<1>2. Ids' = Ids /\ Dim' = Dim
  BY <1>1 DEF Ids, Dim, Indices
<1>3. Posted' = Posted
  BY <1>1, <1>2 DEF Posted, Indices
<1>4. \A s : Column(s)' = Column(s)
  BY <1>1, <1>2 DEF Column
<1>5. Trained' = Trained
  BY <1>1, <1>4 DEF Trained, Indices
<1> QED
  BY <1>1, <1>2, <1>3, <1>5

LEMMA IvfInitHolds == IvfInit => IvfInv
<1> SUFFICES ASSUME IvfInit PROVE IvfInv
  OBVIOUS
<1>1. /\ store \in Stores /\ params \in Params /\ withPq \in BOOLEAN
      /\ metric \in {"L2", "InnerProduct"} /\ stage = "build" /\ cells = << >> /\ codebook = << >>
  BY DEF IvfInit
<1> QED
  BY <1>1 DEF IvfInv, Done

LEMMA TrainCellsKeeps ==
  ASSUME IvfInv, BuildEmpty \/ TrainCells
  PROVE  IvfInv'
<1>1. CASE BuildEmpty
  <2>1. /\ stage = "build" /\ stage' = "ready" /\ store = << >> /\ cells = << >> /\ UNCHANGED index
    BY <1>1 DEF BuildEmpty, IvfInv
  <2>2. Posted
    BY <2>1 DEF Posted
  <2> QED
    BY <2>1, <2>2, IndexStays DEF IvfInv, Done
<1>2. CASE TrainCells
  <2>1. /\ stage = "build" /\ stage' = "cells" /\ store # << >> /\ UNCHANGED index
        /\ Train(store, params.lists)
    BY <1>2 DEF TrainCells
  <2>2. store \in Stores /\ params \in Params /\ codebook = << >>
    BY <2>1 DEF IvfInv
  <2>3. PICK n \in Nat : n = Dim
    BY <2>1, <2>2, StoresAreSpaces
  <2>4. PICK ps : ps = store
    OBVIOUS
  <2>5. ps \in Seq(Space(n)) /\ Len(ps) >= 1 /\ Train(ps, params.lists)
    BY <2>1, <2>2, <2>3, <2>4, StoresAreSpaces
  <2>6. PICK k \in Nat \ {0} : k = params.lists
    BY <2>2, ParamsAreNumbers
  <2>7. Running(n)' /\ points' = ps
    BY <2>5, <2>6, TrainingStarts
  <2>8. Running(Dim)' /\ points' = store'
    BY <2>1, <2>3, <2>4, <2>7, IndexStays DEF Running
  <2> QED
    BY <2>1, <2>2, <2>8, IndexStays DEF IvfInv, Done
<1> QED
  BY <1>1, <1>2

LEMMA TrainKMeansKeeps ==
  ASSUME IvfInv, TrainKMeans
  PROVE  IvfInv'
<1>1. stage \in {"cells", "codebook"} /\ KMeansStep /\ UNCHANGED <<index, search, stage>>
  BY DEF TrainKMeans
<1>2. store \in Stores /\ store # << >>
  BY <1>1 DEF IvfInv
<1>3. PICK n \in Nat : n = IF stage = "cells" THEN Dim ELSE 1
  BY <1>2, StoresAreSpaces
<1>4. Running(n)
  BY <1>1, <1>3 DEF IvfInv
<1>5. Running(n)' /\ points' = points /\ want' = want
  BY <1>1, <1>4, KMeansStepKeeps
<1>6. /\ stage' = "cells" => Running(Dim)'
      /\ stage' = "codebook" => Running(1)'
  BY <1>1, <1>3, <1>5, IndexStays DEF Running
<1>7. stage' = stage /\ UNCHANGED index
  BY <1>1
<1>8. \A s : Column(s)' = Column(s)
  BY <1>7, IndexStays DEF Column
<1>9. /\ stage' = "cells" => points' = store'
      /\ stage' = "codebook" => points' = Column(Len(codebook) + 1)' /\ want' = params'.sub
                                /\ Len(codebook') < Dim'
  BY <1>5, <1>7, <1>8, IndexStays DEF IvfInv
<1> QED
  BY <1>1, <1>6, <1>7, <1>9, IndexStays DEF IvfInv, Done

LEMMA PostKeeps ==
  ASSUME IvfInv, Post
  PROVE  IvfInv'
<1>1. /\ stage = "cells" /\ kpc = "trained" /\ cells' = centroids
      /\ store' = store /\ params' = params /\ withPq' = withPq /\ metric' = metric
      /\ codebook' = codebook /\ pqCodes' = pqCodes
      /\ stage' = IF withPq THEN "quantize" ELSE "ready"
  BY DEF Post
<1>2. /\ store \in Stores /\ params \in Params /\ store # << >> /\ codebook = << >>
      /\ withPq \in BOOLEAN /\ metric \in {"L2", "InnerProduct"}
      /\ centroids \in Seq(Space(Dim)) /\ Len(centroids) >= 1
  BY <1>1 DEF IvfInv, Running
<1>3. Ids' = Ids /\ Dim' = Dim
  BY <1>1 DEF Ids, Dim, Indices
<1>4. Posted'
  BY <1>1, <1>2, <1>3 DEF Posted, Post
<1>5. codebook' \in Seq(Seq(Space(1))) /\ Len(codebook') = 0
  BY <1>1, <1>2
<1>6. Trained'
  BY <1>5 DEF Trained, Indices
<1> QED
  BY <1>1, <1>2, <1>4, <1>6 DEF IvfInv, Done

LEMMA SubspaceKeeps ==
  ASSUME IvfInv, TrainSubspace \/ TakeSubspace
  PROVE  IvfInv'
<1>1. CASE TrainSubspace
  <2>1. /\ stage = "quantize" /\ stage' = "codebook" /\ UNCHANGED index /\ Len(codebook) < Dim
        /\ Train(Column(Len(codebook) + 1), params.sub)
    BY <1>1 DEF TrainSubspace, Dim, Column
  <2>2. /\ store \in Stores /\ params \in Params /\ store # << >> /\ Trained /\ Posted /\ withPq
        /\ Len(codebook) \in Nat
    BY <2>1 DEF IvfInv, Trained
  <2>3. Len(codebook) + 1 \in 1 .. Dim
    BY <2>1, <2>2, StoresAreSpaces
  <2>4. PICK ps : ps = Column(Len(codebook) + 1)
    OBVIOUS
  <2>5. ps \in Seq(Space(1)) /\ Len(ps) >= 1
    BY <2>2, <2>3, <2>4, ColumnsAreVectors
  <2>6. PICK k \in Nat \ {0} : k = params.sub
    BY <2>2, ParamsAreNumbers
  <2>7. Running(1)' /\ points' = ps /\ want' = k
    BY <2>1, <2>4, <2>5, <2>6, TrainingStarts
  <2>8. \A s : Column(s)' = Column(s)
    BY <2>1, IndexStays DEF Column
  <2>9. points' = Column(Len(codebook) + 1)' /\ want' = params'.sub
    BY <2>1, <2>4, <2>6, <2>7, <2>8, IndexStays
  <2> QED
    BY <2>1, <2>2, <2>7, <2>9, IndexStays DEF IvfInv, Done
<1>2. CASE TakeSubspace
  <2>1. /\ stage = "codebook" /\ kpc = "trained" /\ stage' = "quantize"
        /\ codebook' = Append(codebook, centroids)
        /\ store' = store /\ params' = params /\ withPq' = withPq /\ metric' = metric
        /\ cells' = cells /\ postings' = postings /\ pqCodes' = pqCodes
    BY <1>2 DEF TakeSubspace
  <2>2. /\ store \in Stores /\ params \in Params /\ store # << >> /\ Trained /\ Posted /\ withPq
        /\ Len(codebook) \in Nat /\ Len(codebook) < Dim /\ codebook \in Seq(Seq(Space(1)))
        /\ metric \in {"L2", "InnerProduct"}
    BY <2>1 DEF IvfInv, Trained
  <2>3. /\ points = Column(Len(codebook) + 1) /\ want = params.sub
        /\ centroids \in Seq(Space(1)) /\ Len(centroids) >= 1
        /\ Len(points) =< want => centroids = points
    BY <2>1 DEF IvfInv, Running
  <2>4. Len(points) = Len(store)
    BY <2>2, <2>3, StoresAreSpaces, ColumnsAreVectors
  <2>5. Ids' = Ids /\ Dim' = Dim
    BY <2>1 DEF Ids, Dim, Indices
  <2>6. Posted'
    BY <2>1, <2>2, <2>5 DEF Posted
  <2>7. \A s : Column(s)' = Column(s)
    BY <2>1, <2>5 DEF Column
  <2>8. /\ codebook' \in Seq(Seq(Space(1))) /\ Len(codebook') = Len(codebook) + 1
        /\ \A s \in 1 .. Len(codebook) : codebook'[s] = codebook[s]
        /\ codebook'[Len(codebook) + 1] = centroids
    BY <2>1, <2>2, <2>3
  <2>9. Trained'
    <3> SUFFICES ASSUME NEW s \in 1 .. Len(codebook) + 1
                 PROVE  /\ Len(codebook'[s]) >= 1
                        /\ Len(store) =< params.sub => codebook'[s] = Column(s)
      BY <2>1, <2>7, <2>8 DEF Trained, Indices
    <3>1. CASE s = Len(codebook) + 1
      BY <2>3, <2>4, <2>8, <3>1
    <3>2. CASE s # Len(codebook) + 1
      <4>1. s \in 1 .. Len(codebook)
        BY <2>2, <3>2
      <4> QED
        BY <2>2, <2>8, <4>1 DEF Trained, Indices
    <3> QED
      BY <3>1, <3>2
  <2> QED
    BY <2>1, <2>2, <2>6, <2>9 DEF IvfInv, Done
<1> QED
  BY <1>1, <1>2

LEMMA EncodeKeeps ==
  ASSUME IvfInv, EncodeBatch
  PROVE  IvfInv'
<1>1. /\ stage = "quantize" /\ stage' = "ready" /\ Len(codebook) = Dim
      /\ pqCodes' = [i \in Ids |-> Encode(store[i])]
      /\ store' = store /\ params' = params /\ withPq' = withPq /\ metric' = metric
      /\ cells' = cells /\ postings' = postings /\ codebook' = codebook
  BY DEF EncodeBatch, Dim
<1>2. /\ store \in Stores /\ params \in Params /\ store # << >> /\ Trained /\ Posted /\ withPq
      /\ metric \in {"L2", "InnerProduct"}
  BY <1>1 DEF IvfInv
<1>3. Ids' = Ids /\ Dim' = Dim
  BY <1>1 DEF Ids, Dim, Indices
<1>4. Posted'
  BY <1>1, <1>2, <1>3 DEF Posted
<1>5. \A s : Column(s)' = Column(s)
  BY <1>1, <1>3 DEF Column
<1>6. Trained'
  BY <1>1, <1>2, <1>5 DEF Trained, Indices
<1>7. \A v : Encode(v)' = Encode(v)
  BY <1>1 DEF Encode, Indices
<1>8. pqCodes' = [i \in Ids' |-> Encode(store[i])']
  BY <1>1, <1>3, <1>7
<1> QED
  BY <1>1, <1>2, <1>3, <1>4, <1>6, <1>8 DEF IvfInv, Done

-----------------------------------------------------------------------------
(* The inverted file: searches.                                            *)

LEMMA SearchesReadTheIndex ==
  ASSUME UNCHANGED index
  PROVE  /\ \A q : Candidates(q)' = Candidates(q) /\ NothingToGate(q)' = NothingToGate(q)
         /\ \A q, n : Gated(q, n)' = Gated(q, n)
         /\ \A n, q, S : Best(n, q, S)' = Best(n, q, S)
         /\ \A i \in Ids : Encode(store[i])' = Encode(store[i])
<1>1. /\ store' = store /\ params' = params /\ withPq' = withPq /\ metric' = metric
      /\ cells' = cells /\ postings' = postings /\ codebook' = codebook /\ pqCodes' = pqCodes
  BY DEF index
<1>2. \A q : Candidates(q)' = Candidates(q)
  BY <1>1 DEF Candidates
<1>3. \A q, n : Gated(q, n)' = Gated(q, n)
  BY <1>1 DEF Candidates, Gated, AdcDistance, Indices
<1>4. \A n, q, S : Best(n, q, S)' = Best(n, q, S)
  BY <1>1 DEF Best, Score
<1>5. \A q : NothingToGate(q)' = NothingToGate(q)
  BY <1>1, <1>2 DEF NothingToGate
<1>6. \A i \in Ids : Encode(store[i])' = Encode(store[i])
  BY <1>1 DEF Encode, Indices
<1> QED
  BY <1>2, <1>3, <1>4, <1>5, <1>6

LEMMA SearchKeeps ==
  ASSUME IvfInv, NEW q \in Queries, NEW c \in Configs,
         Search(q, c) \/ SearchHybrid(q, c) \/ HybridUnsupported(q, c) \/ HybridPanics(q, c)
  PROVE  IvfInv'
<1>1. /\ stage = "ready" /\ UNCHANGED index /\ query' = q /\ config' = c
      /\ stage' \in {"searched", "gated", "unsupported", "panicked"}
  BY DEF Search, SearchHybrid, HybridUnsupported, HybridPanics, Ask
<1>2. /\ store \in Stores /\ params \in Params
      /\ withPq \in BOOLEAN /\ metric \in {"L2", "InnerProduct"} /\ Posted
      /\ withPq /\ store # << >> =>
           Trained /\ Len(codebook) = Dim /\ pqCodes = [i \in Ids |-> Encode(store[i])]
  BY <1>1 DEF IvfInv, Done
<1>3. /\ store' \in Stores /\ params' \in Params
      /\ withPq' \in BOOLEAN /\ metric' \in {"L2", "InnerProduct"} /\ Posted'
      /\ withPq' /\ store' # << >> =>
           /\ Trained' /\ Len(codebook') = Dim'
           /\ pqCodes' = [i \in Ids' |-> Encode(store[i])']
  <2>1. [i \in Ids' |-> Encode(store[i])'] = [i \in Ids |-> Encode(store[i])]
    BY <1>1, IndexStays, SearchesReadTheIndex
  <2> QED
    BY <1>1, <1>2, <2>1, IndexStays
<1>4. /\ NothingToGate(query)' = NothingToGate(q) /\ Candidates(query)' = Candidates(q)
      /\ \A n : Gated(query, n)' = Gated(q, n)
  BY <1>1 DEF NothingToGate, Candidates, Gated, AdcDistance, index, Indices
<1>5. Best(config.k, query, fetched)' = Best(config'.k, query', fetched')
  BY <1>1 DEF Best, Score, index
<1>6. stage' \in {"searched", "gated"} => answer' = Best(config'.k, query', fetched')
  BY <1>1, SearchesReadTheIndex DEF Search, SearchHybrid, HybridUnsupported, HybridPanics, Answer
<1>7. stage' = "searched" => fetched' = IF cells' = << >> THEN {} ELSE Candidates(q)
  BY <1>1 DEF Search, SearchHybrid, HybridUnsupported, HybridPanics, Answer, index
<1>8. stage' = "gated" =>
        IF NothingToGate(q) THEN fetched' = {}
        ELSE withPq' /\ fetched' = Gated(q, Budget(Cardinality(Candidates(q)), c))
  BY <1>1 DEF Search, SearchHybrid, HybridUnsupported, HybridPanics, Answer, index
<1>9. Budget(Cardinality(Candidates(query)), config)' = Budget(Cardinality(Candidates(q)), c)
  BY <1>1, <1>4
<1>10. stage' = "searched" => fetched' = IF cells' = << >> THEN {} ELSE Candidates(query)'
  BY <1>4, <1>7
<1>11. stage' = "gated" =>
        IF NothingToGate(query)' THEN fetched' = {}
        ELSE withPq' /\ fetched' = Gated(query, Budget(Cardinality(Candidates(query)), config))'
  <2>1. Gated(query, Budget(Cardinality(Candidates(query)), config))' =
          Gated(q, Budget(Cardinality(Candidates(q)), c))
    BY <1>1 DEF Candidates, Gated, AdcDistance, index, Indices
  <2> QED
    BY <1>4, <1>8, <2>1
<1>12. stage' \in {"searched", "gated"} => query' \in Queries /\ config' \in Configs
  BY <1>1
<1>13. stage' \in Done /\ stage' \notin {"build", "cells", "quantize", "codebook"}
  BY <1>1 DEF Done
<1> QED
  BY <1>3, <1>5, <1>6, <1>10, <1>11, <1>12, <1>13 DEF IvfInv

LEMMA IvfInvHolds == IvfSpec => []IvfInv
<1>1. IvfInv /\ [IvfNext]_ivfVars => IvfInv'
  <2> SUFFICES ASSUME IvfInv, [IvfNext]_ivfVars PROVE IvfInv'
    OBVIOUS
  <2>1. CASE BuildEmpty \/ TrainCells
    BY <2>1, TrainCellsKeeps
  <2>2. CASE TrainKMeans
    BY <2>2, TrainKMeansKeeps
  <2>3. CASE Post
    BY <2>3, PostKeeps
  <2>4. CASE TrainSubspace \/ TakeSubspace
    BY <2>4, SubspaceKeeps
  <2>5. CASE EncodeBatch
    BY <2>5, EncodeKeeps
  <2>6. CASE \E q \in Queries, c \in Configs : \/ Search(q, c) \/ SearchHybrid(q, c)
                                               \/ HybridUnsupported(q, c) \/ HybridPanics(q, c)
    BY <2>6, SearchKeeps
  <2>7. CASE UNCHANGED ivfVars
    <3>1. UNCHANGED index /\ UNCHANGED kmeansVars /\ UNCHANGED search /\ stage' = stage
      BY <2>7 DEF ivfVars
    <3>2. /\ points' = points /\ want' = want /\ Running(1)' = Running(1)
          /\ Running(Dim)' = Running(Dim)
      BY <3>1, IndexStays DEF kmeansVars, Running, Indices, Space
    <3>3. Column(Len(codebook) + 1)' = Column(Len(codebook) + 1)
      BY <3>1, IndexStays DEF Column
    <3>4. /\ query' = query /\ config' = config /\ fetched' = fetched /\ answer' = answer
      BY <3>1 DEF search
    <3>5. /\ NothingToGate(query)' = NothingToGate(query) /\ Candidates(query)' = Candidates(query)
          /\ Gated(query, Budget(Cardinality(Candidates(query)), config))' =
               Gated(query, Budget(Cardinality(Candidates(query)), config))
          /\ Best(config.k, query, fetched)' = Best(config.k, query, fetched)
      BY <3>1, <3>4 DEF Candidates, NothingToGate, Gated, AdcDistance, Best, Score, index, Indices
    <3>6. [i \in Ids |-> Encode(store[i])]' = [i \in Ids |-> Encode(store[i])]
      BY <3>1, IndexStays, SearchesReadTheIndex
    <3> QED
      BY <3>1, <3>2, <3>3, <3>4, <3>5, <3>6, IndexStays DEF IvfInv
  <2> QED
    BY <2>1, <2>2, <2>3, <2>4, <2>5, <2>6, <2>7 DEF IvfNext
<1> QED
  BY <1>1, IvfInitHolds, PTL DEF IvfSpec

-----------------------------------------------------------------------------
(* The inverted file: what a search finds.                                 *)

\* The nearest cells are the foremost by distance.
LEMMA NearestAreForemost ==
  ASSUME NEW n \in Nat, NEW v \in Space(n), NEW cs \in Seq(Space(n))
  PROVE  LET d == [c \in Indices(cs) |-> SquaredL2(v, cs[c])]
         IN  /\ Ranked(Indices(cs), d)
             /\ \A count : NearestCells(v, count, cs) = Foremost(Indices(cs), count, d)
<1> DEFINE d == [c \in Indices(cs) |-> SquaredL2(v, cs[c])]
<1>1. /\ Indices(cs) \in SUBSET Nat /\ IsFiniteSet(Indices(cs))
      /\ \A c \in Indices(cs) : SquaredL2(v, cs[c]) \in Int
  BY IndicesAreFinite, SquaredL2Separates
<1>2. Ranked(Indices(cs), d)
  BY <1>1 DEF Ranked
<1>3. \A c \in Indices(cs) : AllAhead(Indices(cs), d, c) =
        {b \in Indices(cs) : \/ SquaredL2(v, cs[b]) < SquaredL2(v, cs[c])
                             \/ SquaredL2(v, cs[b]) = SquaredL2(v, cs[c]) /\ b < c}
  BY DEF AllAhead, Ahead
<1>4. \A count : NearestCells(v, count, cs) = Foremost(Indices(cs), count, d)
  BY <1>3 DEF NearestCells, CellRank, Foremost
<1> QED
  BY <1>2, <1>4

LEMMA CellsAreProbed ==
  ASSUME NEW n \in Nat, NEW v \in Space(n), NEW cs \in Seq(Space(n)), Len(cs) >= 1
  PROVE  /\ \A count \in Nat : count >= Len(cs) => NearestCells(v, count, cs) = Indices(cs)
         /\ \E c \in Indices(cs) : \A count \in Nat \ {0} : c \in NearestCells(v, count, cs)
<1> DEFINE S == Indices(cs)
           d == [c \in S |-> SquaredL2(v, cs[c])]
<1>1. Ranked(S, d) /\ \A count : NearestCells(v, count, cs) = Foremost(S, count, d)
  BY NearestAreForemost
<1>2. S = 1 .. Len(cs) /\ Len(cs) \in Nat
  BY IndicesAreFinite
<1>3. Cardinality(S) = Len(cs)
  <2>1. 1 \in Int /\ Len(cs) \in Int
    BY <1>2
  <2>2. Cardinality(1 .. Len(cs)) = IF 1 > Len(cs) THEN 0 ELSE Len(cs) - 1 + 1
    BY <2>1, FS_Interval
  <2> QED
    BY <1>2, <2>2
<1> HIDE DEF S, d
<1>4. \A count \in Nat : count >= Len(cs) => NearestCells(v, count, cs) = S
  BY <1>1, <1>2, <1>3, ForemostAreEnough
<1>5. Cardinality(Foremost(S, 1, d)) = 1 /\ Foremost(S, 1, d) \subseteq S
  BY <1>1, <1>2, <1>3, ForemostAreEnough
<1>6. PICK c \in S : c \in Foremost(S, 1, d)
  <2>1. Cardinality({}) = 0
    BY FS_EmptySet
  <2>2. Foremost(S, 1, d) # {}
    <3>1. PICK F : F = Foremost(S, 1, d)
      OBVIOUS
    <3>2. Cardinality(F) = 1
      BY <1>5, <3>1
    <3>3. F # {}
      BY <2>1, <3>2
    <3> QED
      BY <3>1, <3>3
  <2> QED
    BY <1>5, <2>2
<1>7. Cardinality(AllAhead(S, d, c)) < 1 /\ Cardinality(AllAhead(S, d, c)) \in Nat
  BY <1>1, <1>6, AheadCounts DEF Foremost
<1>8. \A count \in Nat \ {0} : c \in NearestCells(v, count, cs)
  BY <1>1, <1>7 DEF Foremost
<1> QED
  BY <1>4, <1>8 DEF S

\* Scores are integers.
LEMMA ScoresAreIntegers ==
  ASSUME NEW n \in Nat, NEW q \in Space(n), NEW v \in Space(n)
  PROVE  Score(q, v) \in Int
<1> DEFINE f == [d \in DOMAIN v |-> q[d] * v[d]]
<1>1. DOMAIN v = 1 .. n /\ IsFiniteSet(1 .. n)
  BY FS_Interval DEF Space
<1>2. \A d \in 1 .. n : q[d] * v[d] \in Int
  BY DEF Space
<1>3. f \in [1 .. n -> Int]
  BY <1>1, <1>2
<1> HIDE DEF f
<1>4. Total(f) \in Int
  BY <1>1, <1>3, TotalIsInteger
<1>5. SquaredL2(q, v) \in Int
  BY SquaredL2Separates
<1> QED
  BY <1>4, <1>5 DEF Score, f

\* With every cell probed every vector is a candidate.
LEMMA EveryVectorIsCandidate ==
  ASSUME store \in Stores, params \in Params, store # << >>, Posted,
         NEW q \in Queries, params.probes >= Len(cells)
  PROVE  Candidates(q) = Ids
<1>1. /\ cells \in Seq(Space(Dim)) /\ Len(cells) >= 1 /\ Len(cells) \in Nat /\ Dim \in Nat
      /\ postings = [c \in Indices(cells) |->
                      {i \in Ids : c \in NearestCells(store[i], Smaller(params.soft, Len(cells)), cells)}]
      /\ q \in Space(Dim) /\ \A i \in Ids : store[i] \in Space(Dim)
  BY StoresAreSpaces DEF Posted
<1>2. Smaller(params.probes, Len(cells)) = Len(cells)
  BY <1>1, ParamsAreNumbers DEF Smaller
<1>3. Smaller(params.soft, Len(cells)) \in Nat \ {0}
  BY <1>1, ParamsAreNumbers DEF Smaller
<1>4. NearestCells(q, Len(cells), cells) = Indices(cells)
  BY <1>1, CellsAreProbed
<1>5. Candidates(q) = UNION {postings[c] : c \in Indices(cells)}
  BY <1>2, <1>4 DEF Candidates
<1>6. \A i \in Ids : \E c \in Indices(cells) : i \in postings[c]
  <2> SUFFICES ASSUME NEW i \in Ids PROVE \E c \in Indices(cells) : i \in postings[c]
    OBVIOUS
  <2>1. PICK c \in Indices(cells) : \A count \in Nat \ {0} : c \in NearestCells(store[i], count, cells)
    BY <1>1, CellsAreProbed
  <2>2. c \in NearestCells(store[i], Smaller(params.soft, Len(cells)), cells)
    BY <1>3, <2>1
  <2>3. i \in postings[c]
    BY <1>1, <2>2
  <2> QED
    BY <2>3
<1>7. \A c \in Indices(cells) : postings[c] \subseteq Ids
  BY <1>1
<1> QED
  BY <1>5, <1>6, <1>7

LEMMA BudgetLetsAllPass ==
  ASSUME NEW n \in Nat, n >= 1, NEW c \in Configs, c.num >= c.den, c.batch >= n
  PROVE  Budget(n, c) \in Nat /\ n =< Budget(n, c)
<1> DEFINE sum == n * c.num + c.den - 1
           top == sum \div c.den
<1>1. c.num \in Nat /\ c.den \in Nat \ {0} /\ c.batch \in Nat
  BY IvfAssumption
<1>2. n * c.num >= n * c.den /\ n * c.num \in Nat /\ n * c.den \in Nat
  BY <1>1
<1>3. sum \in Nat /\ sum >= n * c.den
  BY <1>1, <1>2
<1>4. top \in Nat /\ top >= n
  <2> HIDE DEF sum
  <2> QED
    BY <1>1, <1>3, QuotientBounds
<1> HIDE DEF top
<1> QED
  BY <1>1, <1>4 DEF Budget, Smaller, top

\* The distance read off the tables is a number; it is the exact one when the codebook holds
\* every vector.
LEMMA CodesTellDistances ==
  ASSUME store \in Stores, params \in Params, store # << >>, Trained, Len(codebook) = Dim,
         pqCodes = [i \in Ids |-> Encode(store[i])], NEW q \in Queries, NEW i \in Ids
  PROVE  /\ AdcDistance(q, pqCodes[i]) \in Int
         /\ Len(store) =< params.sub => AdcDistance(q, pqCodes[i]) = SquaredL2(q, store[i])
<1> DEFINE code == Encode(store[i])
           f == [s \in 1 .. Dim |-> SquaredL2(<<q[s]>>, codebook[s][code[s]])]
<1>1. /\ Dim \in Nat /\ q \in Space(Dim) /\ store[i] \in Space(Dim) /\ i \in Nat
      /\ \A j \in Ids : store[j] \in Space(Dim)
  BY StoresAreSpaces
<1>2. Indices(codebook) = 1 .. Dim /\ pqCodes[i] = code
  BY DEF Indices
<1>3. \A s \in 1 .. Dim :
        /\ codebook[s] \in Seq(Space(1)) /\ Len(codebook[s]) >= 1
        /\ Len(store) =< params.sub => codebook[s] = Column(s)
  BY <1>2 DEF Trained, Indices
<1>4. \A s \in 1 .. Dim : q[s] \in Int /\ store[i][s] \in Int
                          /\ <<q[s]>> \in Space(1) /\ <<store[i][s]>> \in Space(1)
  BY <1>1 DEF Space
<1>5. \A s \in 1 .. Dim :
        code[s] = ArgMin([c \in Indices(codebook[s]) |-> SquaredL2(<<store[i][s]>>, codebook[s][c])])
  BY <1>2 DEF Encode
<1> HIDE DEF code
<1>6. \A s \in 1 .. Dim :
        /\ code[s] \in Indices(codebook[s])
        /\ \A c \in Indices(codebook[s]) : SquaredL2(<<store[i][s]>>, codebook[s][code[s]])
                                           =< SquaredL2(<<store[i][s]>>, codebook[s][c])
  <2> SUFFICES ASSUME NEW s \in 1 .. Dim
               PROVE  /\ code[s] \in Indices(codebook[s])
                      /\ \A c \in Indices(codebook[s]) :
                           SquaredL2(<<store[i][s]>>, codebook[s][code[s]])
                             =< SquaredL2(<<store[i][s]>>, codebook[s][c])
    OBVIOUS
  <2> DEFINE v == <<store[i][s]>>
             cs == codebook[s]
  <2>1. v \in Space(1) /\ cs \in Seq(Space(1)) /\ Len(cs) >= 1
    BY <1>3, <1>4
  <2>2. code[s] = ArgMin([c \in Indices(cs) |-> SquaredL2(v, cs[c])])
    BY <1>5
  <2> HIDE DEF v, cs
  <2>3. code[s] \in Indices(cs) /\ \A c \in Indices(cs) : SquaredL2(v, cs[code[s]]) =< SquaredL2(v, cs[c])
    BY <2>1, <2>2, NearestIsCentroid
  <2> QED
    BY <2>3 DEF v, cs
<1>7. \A s \in 1 .. Dim : codebook[s][code[s]] \in Space(1)
  BY <1>3, <1>6, IndicesAreFinite
<1>8. \A s \in 1 .. Dim : SquaredL2(<<q[s]>>, codebook[s][code[s]]) \in Int
  <2> SUFFICES ASSUME NEW s \in 1 .. Dim
               PROVE  SquaredL2(<<q[s]>>, codebook[s][code[s]]) \in Int
    OBVIOUS
  <2>1. PICK a, b : a = <<q[s]>> /\ b = codebook[s][code[s]]
    OBVIOUS
  <2>2. a \in Space(1) /\ b \in Space(1)
    BY <1>4, <1>7, <2>1
  <2>3. SquaredL2(a, b) \in Nat
    BY <2>2, NumbersSeparate
  <2> QED
    BY <2>1, <2>3
<1>9. AdcDistance(q, pqCodes[i]) = Total(f)
  BY <1>2 DEF AdcDistance
<1>10. Total(f) \in Int
  <2>1. f \in [1 .. Dim -> Int] /\ IsFiniteSet(1 .. Dim)
    BY <1>1, <1>8, FS_Interval
  <2> HIDE DEF f
  <2> QED
    BY <2>1, TotalIsInteger
<1>11. ASSUME Len(store) =< params.sub PROVE Total(f) = SquaredL2(q, store[i])
  <2>1. \A s \in 1 .. Dim : codebook[s] = Column(s) /\ Indices(codebook[s]) = Ids
    BY <1>3, <1>11, ColumnsAreVectors
  <2>2. ASSUME NEW s \in 1 .. Dim PROVE codebook[s][code[s]] = <<store[i][s]>>
    <3>1. codebook[s][i] = <<store[i][s]>>
      BY <2>1 DEF Column
    <3>2. SquaredL2(<<store[i][s]>>, <<store[i][s]>>) = 0
      BY <1>4, SquaredL2Separates
    <3>3. SquaredL2(<<store[i][s]>>, codebook[s][code[s]]) =< 0
      BY <1>6, <2>1, <3>1, <3>2
    <3>4. SquaredL2(<<store[i][s]>>, codebook[s][code[s]]) \in Nat
      BY <1>4, <1>7, SquaredL2Separates
    <3>5. SquaredL2(<<store[i][s]>>, codebook[s][code[s]]) = 0
      BY <3>3, <3>4
    <3> QED
      BY <1>4, <1>7, <3>5, NumbersSeparate
  <2>3. \A s \in 1 .. Dim : f[s] = (q[s] - store[i][s]) * (q[s] - store[i][s])
    BY <1>4, <2>2, SquaredL2OfOne
  <2>4. f = [s \in 1 .. Dim |-> (q[s] - store[i][s]) * (q[s] - store[i][s])]
    BY <2>3
  <2>5. DOMAIN q = 1 .. Dim
    BY <1>1 DEF Space
  <2> HIDE DEF f
  <2> QED
    BY <2>4, <2>5 DEF SquaredL2
<1> QED
  BY <1>9, <1>10, <1>11

\* Nothing is dropped by a gate as wide as what comes to it.
LEMMA WideGatesPass ==
  ASSUME store \in Stores, params \in Params, store # << >>, Trained, Len(codebook) = Dim,
         pqCodes = [i \in Ids |-> Encode(store[i])], NEW q \in Queries,
         Candidates(q) \in SUBSET Ids, NEW n \in Nat, Cardinality(Candidates(q)) =< n
  PROVE  Gated(q, n) = Candidates(q)
<1> DEFINE S == Candidates(q)
           d == [i \in S |-> AdcDistance(q, pqCodes[i])]
<1>1. \A i \in S : AdcDistance(q, pqCodes[i]) \in Int
  BY CodesTellDistances
<1>2. S \in SUBSET Nat /\ IsFiniteSet(S)
  BY StoresAreSpaces, FS_Subset
<1>3. Ranked(S, d)
  BY <1>1, <1>2 DEF Ranked
<1>4. \A i \in S : AllAhead(S, d, i) =
        {j \in S : \/ AdcDistance(q, pqCodes[j]) < AdcDistance(q, pqCodes[i])
                   \/ AdcDistance(q, pqCodes[j]) = AdcDistance(q, pqCodes[i]) /\ j < i}
  BY DEF AllAhead, Ahead
<1>5. Gated(q, n) = Foremost(S, n, d)
  BY <1>4 DEF Gated, Foremost
<1> HIDE DEF d
<1> QED
  BY <1>3, <1>5, ForemostAreEnough

\* Probing every cell, an IVF search answers as the exact scan does, under either metric, and
\* so does a hybrid search whose gate lets everything pass, whatever k-means made of the
\* cells and of the codebook.
THEOREM AllCellsAnswerExactly == IvfSpec => []AllCellsIsBruteForce
<1>1. IvfInv => AllCellsIsBruteForce
  <2> SUFFICES ASSUME IvfInv, stage = "searched" \/ (stage = "gated" /\ NothingGated),
                      params.probes >= Len(cells)
               PROVE  answer = BruteForce(config.k, query)
    BY DEF AllCellsIsBruteForce
  <2>1. /\ store \in Stores /\ params \in Params /\ Posted /\ query \in Queries /\ config \in Configs
        /\ answer = Best(config.k, query, fetched)
    BY DEF IvfInv
  <2>2. CASE store = << >>
    <3>1. cells = << >> /\ Ids = {}
      <4>1. Len(<< >>) = 0
        OBVIOUS
      <4> QED
        BY <2>1, <2>2, <4>1 DEF Posted, Ids, Indices
    <3>2. fetched = {}
      BY <3>1 DEF IvfInv, NothingToGate
    <3> QED
      BY <2>1, <3>1, <3>2 DEF BruteForce
  <2>3. CASE store # << >>
    <3>1. cells # << >> /\ Candidates(query) = Ids /\ 1 \in Ids
      <4>1. Len(cells) >= 1 /\ Len(<< >>) = 0
        BY <2>1, <2>3 DEF Posted
      <4> QED
        BY <2>1, <2>3, <4>1, EveryVectorIsCandidate, StoresAreSpaces
    <3>2. CASE stage = "searched"
      BY <2>1, <3>1, <3>2 DEF IvfInv, BruteForce
    <3>3. CASE stage = "gated" /\ NothingGated
      <4>1. ~ NothingToGate(query)
        BY <3>1 DEF NothingToGate
      <4>2. withPq /\ fetched = Gated(query, Budget(Cardinality(Ids), config))
        BY <3>1, <3>3, <4>1 DEF IvfInv
      <4>3. Trained /\ Len(codebook) = Dim /\ pqCodes = [i \in Ids |-> Encode(store[i])]
        BY <2>3, <3>3, <4>2 DEF IvfInv, Done
      <4>4. Cardinality(Ids) = Len(store) /\ Len(store) \in Nat /\ Len(store) >= 1
        BY <2>1, <3>1, StoresAreSpaces
      <4>5. config.num >= config.den /\ config.batch >= Len(store)
        BY <3>3 DEF NothingGated
      <4>6. Budget(Len(store), config) \in Nat /\ Len(store) =< Budget(Len(store), config)
        BY <2>1, <4>4, <4>5, BudgetLetsAllPass
      <4>7. Gated(query, Budget(Len(store), config)) = Ids
        BY <2>1, <2>3, <3>1, <4>3, <4>4, <4>6, WideGatesPass
      <4> QED
        BY <2>1, <4>2, <4>4, <4>7 DEF BruteForce
    <3> QED
      BY <3>2, <3>3
  <2> QED
    BY <2>2, <2>3
<1> QED
  BY <1>1, IvfInvHolds, PTL

\* A query equal to a stored vector finds it however few cells are probed: the cell nearest
\* to the vector is among those it was posted to and among those the query is sent to.
THEOREM StoredVectorsAreFound == IvfSpec => []StoredVectorIsFound
<1>1. IvfInv => StoredVectorIsFound
  <2> SUFFICES ASSUME IvfInv, stage = "searched", metric = "L2", config.k > 0,
                      NEW i \in Ids, store[i] = query
               PROVE  \E j \in answer : store[j] = query
    BY DEF StoredVectorIsFound
  <2>1. /\ store \in Stores /\ params \in Params /\ Posted /\ query \in Queries /\ config \in Configs
        /\ answer = Best(config.k, query, fetched)
        /\ fetched = IF cells = << >> THEN {} ELSE Candidates(query)
    BY DEF IvfInv
  <2>2. store # << >>
    <3>1. Len(<< >>) = 0
      OBVIOUS
    <3> QED
      BY <3>1 DEF Ids, Indices
  <2>3. /\ cells \in Seq(Space(Dim)) /\ Len(cells) >= 1 /\ Len(cells) \in Nat /\ Dim \in Nat
        /\ postings = [c \in Indices(cells) |->
                        {j \in Ids : c \in NearestCells(store[j], Smaller(params.soft, Len(cells)), cells)}]
        /\ query \in Space(Dim) /\ \A j \in Ids : store[j] \in Space(Dim)
    BY <2>1, <2>2, StoresAreSpaces DEF Posted
  <2>4. fetched = Candidates(query)
    <3>1. Len(<< >>) = 0
      OBVIOUS
    <3> QED
      BY <2>1, <2>3, <3>1
  <2>5. PICK c \in Indices(cells) : \A count \in Nat \ {0} : c \in NearestCells(query, count, cells)
    BY <2>3, CellsAreProbed
  <2>6. /\ Smaller(params.soft, Len(cells)) \in Nat \ {0}
        /\ Smaller(params.probes, Len(cells)) \in Nat \ {0}
    BY <2>1, <2>3, ParamsAreNumbers DEF Smaller
  <2>7. i \in postings[c]
    BY <2>3, <2>5, <2>6
  <2>8. i \in fetched /\ fetched \subseteq Ids
    <3>1. c \in NearestCells(query, Smaller(params.probes, Len(cells)), cells)
      BY <2>5, <2>6
    <3>2. \A b \in Indices(cells) : postings[b] \subseteq Ids
      BY <2>3
    <3>3. \A b \in NearestCells(query, Smaller(params.probes, Len(cells)), cells) : b \in Indices(cells)
      BY DEF NearestCells
    <3> QED
      BY <2>4, <2>7, <3>1, <3>2, <3>3 DEF Candidates
  <2> DEFINE S == fetched
             d == [j \in S |-> SquaredL2(query, store[j])]
  <2>9. \A j \in S : SquaredL2(query, store[j]) \in Nat /\ (SquaredL2(query, store[j]) = 0 => store[j] = query)
    BY <2>3, <2>8, SquaredL2Separates
  <2>10. SquaredL2(query, store[i]) = 0
    BY <2>3, SquaredL2Separates
  <2>11. S \in SUBSET Nat /\ IsFiniteSet(S)
    BY <2>1, <2>8, StoresAreSpaces, FS_Subset
  <2>12. d \in [S -> Int]
    BY <2>9
  <2> DEFINE least == ArgMin(d)
  <2>13. least \in S /\ \A j \in S : d[least] < d[j] \/ (d[least] = d[j] /\ least =< j)
    <3> HIDE DEF d, S
    <3> QED
      BY <2>8, <2>11, <2>12, ArgMinIsLeast DEF S
  <2> HIDE DEF least
  <2>14. store[least] = query
    <3>1. d[i] = 0 /\ d[least] \in Nat /\ d[least] = SquaredL2(query, store[least])
      BY <2>8, <2>9, <2>10, <2>13
    <3>2. d[least] = 0
      BY <2>8, <2>13, <3>1
    <3> QED
      BY <2>9, <2>13, <3>1, <3>2
  <2>15. {j \in S : \/ Score(query, store[j]) < Score(query, store[least])
                    \/ Score(query, store[j]) = Score(query, store[least]) /\ j < least} = {}
    <3>1. \A j \in S : Score(query, store[j]) = d[j] /\ d[j] \in Int /\ j \in Int
      BY <2>9, <2>11 DEF Score
    <3> HIDE DEF d, S
    <3> QED
      BY <2>13, <3>1
  <2>16. config.k \in Nat /\ 0 < config.k
    BY <2>1, IvfAssumption
  <2>17. least \in Best(config.k, query, S)
    <3> HIDE DEF S, d
    <3> QED
      BY <2>13, <2>15, <2>16, FS_EmptySet DEF Best
  <2> QED
    BY <2>1, <2>14, <2>17
<1> QED
  BY <1>1, IvfInvHolds, PTL

\* With a centroid for each vector the gate of the hybrid search keeps what a gate on exact
\* distances would: training, encoding and the lookup tables agree.
THEOREM LosslessGateIsExact == IvfSpec => []LosslessCodesGateExactly
<1>1. IvfInv => LosslessCodesGateExactly
  <2> DEFINE S == Candidates(query)
             budget == Budget(Cardinality(S), config)
  <2> SUFFICES ASSUME IvfInv, stage = "gated", metric = "L2", Len(store) =< params.sub
               PROVE  fetched = (IF cells = << >> \/ S = {} THEN {} ELSE Best(budget, query, S))
    BY DEF LosslessCodesGateExactly
  <2>1. /\ store \in Stores /\ params \in Params /\ Posted /\ query \in Queries
        /\ IF NothingToGate(query) THEN fetched = {} ELSE withPq /\ fetched = Gated(query, budget)
    BY DEF IvfInv
  <2>2. CASE NothingToGate(query)
    <3>1. cells = << >> \/ S = {}
      BY <2>2 DEF NothingToGate
    <3> QED
      BY <2>1, <2>2, <3>1
  <2>3. CASE ~ NothingToGate(query)
    <3>1. withPq /\ fetched = Gated(query, budget) /\ cells # << >> /\ S # {}
      BY <2>1, <2>3 DEF NothingToGate
    <3>2. store # << >>
      BY <2>1, <3>1 DEF Posted
    <3>3. Trained /\ Len(codebook) = Dim /\ pqCodes = [i \in Ids |-> Encode(store[i])]
      BY <3>1, <3>2 DEF IvfInv, Done
    <3>4. S \subseteq Ids
      <4>1. \A b \in Indices(cells) : postings[b] \subseteq Ids
        BY <2>1, <3>2 DEF Posted
      <4> QED
        BY <4>1 DEF Candidates, NearestCells
    <3>5. \A i \in Ids : AdcDistance(query, pqCodes[i]) = Score(query, store[i])
      BY <2>1, <3>2, <3>3, CodesTellDistances DEF Score
    <3>6. Gated(query, budget) = Best(budget, query, S)
      <4> HIDE DEF budget
      <4>1. \A i \in S : {j \in S :
               \/ AdcDistance(query, pqCodes[j]) < AdcDistance(query, pqCodes[i])
               \/ AdcDistance(query, pqCodes[j]) = AdcDistance(query, pqCodes[i]) /\ j < i}
             = {j \in S : \/ Score(query, store[j]) < Score(query, store[i])
                          \/ Score(query, store[j]) = Score(query, store[i]) /\ j < i}
        BY <3>4, <3>5
      <4> QED
        BY <4>1 DEF Gated, Best
    <3> QED
      BY <3>1, <3>6
  <2> QED
    BY <2>2, <2>3
<1> QED
  BY <1>1, IvfInvHolds, PTL

-----------------------------------------------------------------------------
(* The inverted file: what its training does.                              *)

\* Between two runs of k-means there is no run that could be in an iteration.
Resting == stage \in {"build", "quantize"} => kpc \notin {"assign", "recompute"}

LEMMA RestsBetweenRuns == IvfSpec => []Resting
<1>1. IvfInit => Resting
  BY DEF IvfInit, KMeansIdle, Resting
<1>2. Resting /\ [IvfNext]_ivfVars => Resting'
  <2> SUFFICES ASSUME Resting, [IvfNext]_ivfVars PROVE Resting'
    OBVIOUS
  <2>1. CASE BuildEmpty \/ EncodeBatch
    BY <2>1 DEF BuildEmpty, EncodeBatch, Resting
  <2>2. CASE TrainCells \/ TrainSubspace
    BY <2>2 DEF TrainCells, TrainSubspace, Resting
  <2>3. CASE TrainKMeans
    BY <2>3 DEF TrainKMeans, Resting
  <2>4. CASE Post \/ TakeSubspace
    BY <2>4 DEF Post, TakeSubspace, kmeansVars, Resting
  <2>5. CASE \E q \in Queries, c \in Configs : \/ Search(q, c) \/ SearchHybrid(q, c)
                                               \/ HybridUnsupported(q, c) \/ HybridPanics(q, c)
    BY <2>5 DEF Search, SearchHybrid, HybridUnsupported, HybridPanics, Resting
  <2>6. CASE UNCHANGED ivfVars
    BY <2>6 DEF ivfVars, kmeansVars, Resting
  <2> QED
    BY <2>1, <2>2, <2>3, <2>4, <2>5, <2>6 DEF IvfNext
<1> QED
  BY <1>1, <1>2, PTL DEF IvfSpec

\* Both trainings are over points whose means are exact: a column is so when the vectors are.
LEMMA TrainingMeansAreExact ==
  ASSUME IvfInv, stage \in {"cells", "codebook"}
  PROVE  \E n \in Nat : Running(n) /\ WholeMeans(points)
<1>1. store \in Stores /\ store # << >> /\ WholeMeans(store)
  BY MeansAreExact DEF IvfInv
<1>2. CASE stage = "cells"
  BY <1>1, <1>2, StoresAreSpaces DEF IvfInv
<1>3. CASE stage = "codebook"
  <2>1. Running(1) /\ points = Column(Len(codebook) + 1) /\ Len(codebook) < Dim /\ Trained
    BY <1>3 DEF IvfInv
  <2>2. Dim \in Nat /\ Len(codebook) \in Nat
    BY <1>1, <2>1, StoresAreSpaces DEF Trained
  <2>3. PICK s \in 1 .. Dim : s = Len(codebook) + 1
    BY <2>1, <2>2
  <2>4. points = Column(s) /\ Indices(points) = Ids
    BY <1>1, <2>1, <2>3, ColumnsAreVectors
  <2>5. \A i, k \in Ids : store[i][s] % k = 0
    <3>1. \A i \in Ids : DOMAIN store[i] = 1 .. Dim
      BY <1>1, StoresAreSpaces DEF Space
    <3> QED
      BY <1>1, <3>1 DEF WholeMeans, Ids
  <2>6. \A i \in Ids : DOMAIN points[i] = {1} /\ points[i][1] = store[i][s]
    BY <2>4 DEF Column
  <2>7. WholeMeans(points)
    BY <2>4, <2>5, <2>6 DEF WholeMeans
  <2> QED
    BY <2>1, <2>7
<1> QED
  BY <1>2, <1>3

\* Lloyd's algorithm descends: for every store, every seeding and every split, no assignment
\* and no recomputation makes the clustering worse, although an assignment starts from
\* everything in one cluster and empty clusters are seeded anew in between.
THEOREM ClusteringDescends == IvfSpec => CostNeverRises
<1>1. IvfInv /\ Resting /\ [IvfNext]_ivfVars
      => [(kpc \in {"assign", "recompute"}) => Cost' =< Cost]_kmeansVars
  <2> SUFFICES ASSUME IvfInv, Resting, [IvfNext]_ivfVars,
                      kpc \in {"assign", "recompute"}, ~ UNCHANGED kmeansVars
               PROVE  Cost' =< Cost
    OBVIOUS
  <2>1. TrainKMeans
    <3>1. ~ BuildEmpty /\ ~ Post /\ ~ TakeSubspace /\ ~ EncodeBatch /\ ~ UNCHANGED ivfVars
      BY DEF BuildEmpty, Post, TakeSubspace, EncodeBatch, ivfVars
    <3>2. ~ TrainCells /\ ~ TrainSubspace
      BY DEF TrainCells, TrainSubspace, Resting
    <3>3. \A q \in Queries, c \in Configs : /\ ~ Search(q, c) /\ ~ SearchHybrid(q, c)
                                            /\ ~ HybridUnsupported(q, c) /\ ~ HybridPanics(q, c)
      BY DEF Search, SearchHybrid, HybridUnsupported, HybridPanics
    <3> QED
      BY <3>1, <3>2, <3>3 DEF IvfNext
  <2>2. stage \in {"cells", "codebook"} /\ KMeansStep
    BY <2>1 DEF TrainKMeans
  <2>3. PICK n \in Nat : Running(n) /\ WholeMeans(points)
    BY <2>2, TrainingMeansAreExact
  <2>4. AssignAll \/ Recompute
    BY <2>2 DEF KMeansStep, Seed
  <2> QED
    BY <2>3, <2>4, AssigningDescends, RecomputingDescends
<1>2. IvfSpec => [][(kpc \in {"assign", "recompute"}) => Cost' =< Cost]_kmeansVars
  BY <1>1, IvfInvHolds, RestsBetweenRuns, PTL DEF IvfSpec
<1> QED
  BY <1>2 DEF CostNeverRises
=============================================================================
