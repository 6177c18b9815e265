------------------------------- MODULE Ranking -------------------------------
(***************************************************************************)
(* The first n of a finite set under a distance, ties broken by the smaller  *)
(* number, as cmp_ascending in slate-core/src/search.rs does, and the facts  *)
(* that proofs about collectors rest on.                                     *)
(*                                                                         *)
(* LeastNumber and MinimalSubset stand in for induction: what fails for     *)
(* some number, or some finite set, fails for a least one.                  *)
(***************************************************************************)
EXTENDS Integers, FiniteSets, FunctionTheorems, FiniteSetTheorems, TLAPS

Ahead(d, a, b) == d[a] < d[b] \/ (d[a] = d[b] /\ a < b)

AllAhead(S, d, a) == {b \in S : Ahead(d, b, a)}

Foremost(S, n, d) == {a \in S : Cardinality(AllAhead(S, d, a)) < n}

Ranked(S, d) == IsFiniteSet(S) /\ S \subseteq Nat /\ \A a \in S : d[a] \in Int

-----------------------------------------------------------------------------

\* A set of natural numbers has a least one.
LEMMA LeastNumber ==
  ASSUME NEW T \in SUBSET Nat, T # {}
  PROVE  \E m \in T : \A y \in T : m <= y
<1> DEFINE R == OpToRel(<, Nat)
<1>1. IsWellFoundedOn(R, Nat)
  BY NatLessThanWellFounded
<1>2. \A x, y \in Nat : <<x, y>> \in R <=> x < y
  BY DEF OpToRel
<1> HIDE DEF R
<1>3. PICK m \in T : \A y \in T : ~ (<<y, m>> \in R)
  BY <1>1, WFMin
<1>4. \A y \in T : ~ (y < m)
  BY <1>2, <1>3
<1>5. \A y \in T : y \in Int /\ m \in Int
  OBVIOUS
<1>6. \A y \in T : m <= y
  BY <1>4, <1>5
<1> QED
  BY <1>6

\* Of some subsets of a finite set, one has none of the others within it.
LEMMA MinimalSubset ==
  ASSUME NEW S, IsFiniteSet(S), NEW T \in SUBSET (SUBSET S), T # {}
  PROVE  \E m \in T : \A y \in T : y \subseteq m => y = m
<1> DEFINE R == StrictSubsetOrdering(S)
<1>1. IsWellFoundedOn(R, SUBSET S)
  BY FS_StrictSubsetOrderingWellFounded, FS_FiniteSubsetsOfFinite
<1>2. \A x, y \in SUBSET S : <<x, y>> \in R <=> x \subseteq y /\ x # y
  BY DEF StrictSubsetOrdering
<1> HIDE DEF R
<1>3. \E x \in T : \A y \in T : ~ (<<y, x>> \in R)
  BY <1>1, WFMin
<1> QED
  BY <1>2, <1>3

-----------------------------------------------------------------------------

\* Ahead orders a ranked set totally.
LEMMA AheadOrders ==
  ASSUME NEW S, NEW d, Ranked(S, d)
  PROVE  /\ \A a \in S : ~ Ahead(d, a, a)
         /\ \A a, b \in S : a = b \/ Ahead(d, a, b) \/ Ahead(d, b, a)
         /\ \A a, b, c \in S : Ahead(d, a, b) /\ Ahead(d, b, c) => Ahead(d, a, c)
<1>1. \A a \in S : d[a] \in Int /\ a \in Int
  BY DEF Ranked
<1> QED
  BY <1>1 DEF Ahead

LEMMA AheadCounts ==
  ASSUME NEW S, NEW d, Ranked(S, d), NEW a \in S
  PROVE  /\ AllAhead(S, d, a) \in SUBSET (S \ {a})
         /\ IsFiniteSet(AllAhead(S, d, a))
         /\ Cardinality(AllAhead(S, d, a)) \in 0 .. Cardinality(S) - 1
<1>1. AllAhead(S, d, a) \in SUBSET (S \ {a})
  BY AheadOrders DEF AllAhead
<1>2. IsFiniteSet(S)
  BY DEF Ranked
<1>3. /\ IsFiniteSet(S \ {a})
      /\ Cardinality(S \ {a}) = Cardinality(S) - 1
  BY <1>2, FS_RemoveElement
<1>4. /\ IsFiniteSet(AllAhead(S, d, a))
      /\ Cardinality(AllAhead(S, d, a)) <= Cardinality(S \ {a})
  BY <1>1, <1>3, FS_Subset
<1>5. Cardinality(AllAhead(S, d, a)) \in Nat /\ Cardinality(S) \in Nat
  BY <1>2, <1>4, FS_CardinalityType
<1> QED
  BY <1>1, <1>3, <1>4, <1>5

\* What is ahead has fewer ahead of it.
LEMMA AheadCountsLess ==
  ASSUME NEW S, NEW d, Ranked(S, d), NEW a \in S, NEW b \in S, Ahead(d, a, b)
  PROVE  Cardinality(AllAhead(S, d, a)) < Cardinality(AllAhead(S, d, b))
<1>1. AllAhead(S, d, a) \in SUBSET AllAhead(S, d, b)
  BY AheadOrders DEF AllAhead
<1>2. a \in AllAhead(S, d, b) /\ a \notin AllAhead(S, d, a)
  BY AheadOrders DEF AllAhead
<1>3. /\ IsFiniteSet(AllAhead(S, d, b))
      /\ Cardinality(AllAhead(S, d, a)) \in Int
      /\ Cardinality(AllAhead(S, d, b)) \in Int
  BY AheadCounts
<1>4. /\ Cardinality(AllAhead(S, d, a)) <= Cardinality(AllAhead(S, d, b))
      /\ Cardinality(AllAhead(S, d, a)) # Cardinality(AllAhead(S, d, b))
  BY <1>1, <1>2, <1>3, FS_Subset
<1> QED
  BY <1>3, <1>4

\* How many are ahead numbers the elements of a set from 0 without gap.
LEMMA RanksAreABijection ==
  ASSUME NEW S, NEW d, Ranked(S, d)
  PROVE  LET rank == [a \in S |-> Cardinality(AllAhead(S, d, a))]
         IN  rank \in Bijection(S, 0 .. Cardinality(S) - 1)
<1> DEFINE rank == [a \in S |-> Cardinality(AllAhead(S, d, a))]
           n == Cardinality(S)
<1>1. rank \in [S -> 0 .. n - 1]
  BY AheadCounts
<1>2. \A a, b \in S : rank[a] = rank[b] => a = b
  <2> SUFFICES ASSUME NEW a \in S, NEW b \in S, a # b PROVE rank[a] # rank[b]
    OBVIOUS
  <2>1. rank[a] \in Int /\ rank[b] \in Int
    BY AheadCounts
  <2>2. CASE Ahead(d, a, b)
    BY <2>1, <2>2, AheadCountsLess
  <2>3. CASE Ahead(d, b, a)
    BY <2>1, <2>3, AheadCountsLess
  <2> QED
    BY <2>2, <2>3, AheadOrders
<1>3. n \in Nat
  BY FS_CardinalityType DEF Ranked
<1>4. IsFiniteSet(0 .. n - 1) /\ Cardinality(0 .. n - 1) = n
  BY <1>3, FS_Interval
<1> HIDE DEF rank
<1>5. rank \in Injection(S, 0 .. n - 1)
  BY <1>1, <1>2 DEF Injection, IsInjective
<1>6. rank \in Surjection(S, 0 .. n - 1)
  BY <1>4, <1>5, FS_Injection
<1>7. rank \in Bijection(S, 0 .. n - 1)
  BY <1>5, <1>6 DEF Bijection
<1> QED
  BY <1>7 DEF rank

\* The first n are n, or the whole set.
LEMMA ForemostAreEnough ==
  ASSUME NEW S, NEW d, Ranked(S, d), NEW n \in Nat
  PROVE  /\ Foremost(S, n, d) \subseteq S /\ IsFiniteSet(Foremost(S, n, d))
         /\ n <= Cardinality(S) => Cardinality(Foremost(S, n, d)) = n
         /\ Cardinality(S) <= n => Foremost(S, n, d) = S
<1> DEFINE rank == [a \in S |-> Cardinality(AllAhead(S, d, a))]
           size == Cardinality(S)
           first == Foremost(S, n, d)
<1>1. size \in Nat /\ IsFiniteSet(S)
  BY FS_CardinalityType DEF Ranked
<1>2. first = {a \in S : rank[a] < n}
  BY DEF Foremost
<1>3. rank \in Bijection(S, 0 .. size - 1)
  BY RanksAreABijection
<1> HIDE DEF rank, size, first
<1>4. /\ rank \in [S -> 0 .. size - 1]
      /\ \A a, b \in S : rank[a] = rank[b] => a = b
      /\ \A i \in 0 .. size - 1 : \E a \in S : rank[a] = i
  BY <1>3 DEF Bijection, Injection, Surjection, IsInjective
<1>5. first \in SUBSET S /\ IsFiniteSet(first)
  BY <1>1, <1>2, FS_Subset
<1>6. size <= n => first = S
  BY <1>1, <1>2, <1>4
<1>7. ASSUME n <= size PROVE Cardinality(first) = n
  <2> DEFINE place == [a \in first |-> rank[a]]
  <2>1. place \in [first -> 0 .. n - 1]
    BY <1>1, <1>2, <1>4
  <2>2. \A a, b \in first : place[a] = place[b] => a = b
    BY <1>4, <1>5
  <2>3. \A i \in 0 .. n - 1 : \E a \in first : place[a] = i
    BY <1>1, <1>2, <1>4, <1>7
  <2> HIDE DEF place
  <2>4. place \in Bijection(first, 0 .. n - 1)
    BY <2>1, <2>2, <2>3 DEF Bijection, Injection, Surjection, IsInjective
  <2>5. ExistsBijection(first, 0 .. n - 1)
    BY <2>4 DEF ExistsBijection
  <2>6. Cardinality(0 .. n - 1) = n
    BY FS_Interval
  <2> QED
    BY <1>5, <2>5, <2>6, FS_Bijection
<1> QED
  BY <1>5, <1>6, <1>7 DEF first, size

\* The first n are ahead of all others.
LEMMA ForemostAreAhead ==
  ASSUME NEW S, NEW d, Ranked(S, d), NEW n \in Nat,
         NEW a \in Foremost(S, n, d), NEW b \in S \ Foremost(S, n, d)
  PROVE  Ahead(d, a, b)
<1>1. a \in S /\ b \in S /\ a # b
  BY DEF Foremost
<1>2. /\ Cardinality(AllAhead(S, d, a)) < n /\ ~ (Cardinality(AllAhead(S, d, b)) < n)
      /\ Cardinality(AllAhead(S, d, a)) \in Int /\ Cardinality(AllAhead(S, d, b)) \in Int
  BY <1>1, AheadCounts DEF Foremost
<1>3. ~ Ahead(d, b, a)
  BY <1>1, <1>2, AheadCountsLess
<1> QED
  BY <1>1, <1>3, AheadOrders

\* Candidates are enough when n of them are ahead of whatever is not among them: the
\* first n of the candidates are then the first n of all.
LEMMA CandidatesAreEnough ==
  ASSUME NEW S, NEW d, Ranked(S, d), NEW n \in Nat, NEW C \in SUBSET S,
         \A b \in S \ C : n <= Cardinality(AllAhead(C, d, b))
  PROVE  Foremost(C, n, d) = Foremost(S, n, d)
<1>1. Ranked(C, d)
  BY FS_Subset DEF Ranked
<1>2. \A a \in S : /\ AllAhead(C, d, a) \in SUBSET AllAhead(S, d, a)
                   /\ IsFiniteSet(AllAhead(C, d, a))
                   /\ Cardinality(AllAhead(C, d, a)) \in Nat
                   /\ Cardinality(AllAhead(S, d, a)) \in Nat
                   /\ Cardinality(AllAhead(C, d, a)) <= Cardinality(AllAhead(S, d, a))
  <2> SUFFICES ASSUME NEW a \in S
               PROVE  /\ AllAhead(C, d, a) \in SUBSET AllAhead(S, d, a)
                      /\ IsFiniteSet(AllAhead(C, d, a))
                      /\ Cardinality(AllAhead(C, d, a)) \in Nat
                      /\ Cardinality(AllAhead(S, d, a)) \in Nat
                      /\ Cardinality(AllAhead(C, d, a)) <= Cardinality(AllAhead(S, d, a))
    OBVIOUS
  <2>1. AllAhead(C, d, a) \in SUBSET AllAhead(S, d, a)
    BY DEF AllAhead
  <2>2. IsFiniteSet(AllAhead(S, d, a))
    BY AheadCounts
  <2>3. /\ IsFiniteSet(AllAhead(C, d, a))
        /\ Cardinality(AllAhead(C, d, a)) <= Cardinality(AllAhead(S, d, a))
    BY <2>1, <2>2, FS_Subset
  <2> QED
    BY <2>1, <2>2, <2>3, FS_CardinalityType
<1>3. ASSUME NEW a \in Foremost(S, n, d) PROVE a \in Foremost(C, n, d)
  <2>1. a \in S /\ Cardinality(AllAhead(S, d, a)) < n
    BY DEF Foremost
  <2>2. Cardinality(AllAhead(C, d, a)) < n
    BY <1>2, <2>1
  <2>3. a \in C
    BY <1>2, <2>1, <2>2
  <2> QED
    BY <2>2, <2>3 DEF Foremost
<1>4. ASSUME NEW a \in Foremost(C, n, d), a \notin Foremost(S, n, d) PROVE FALSE
  <2>1. a \in C /\ a \in S /\ Cardinality(AllAhead(C, d, a)) < n
    BY DEF Foremost
  <2>2. ~ (Cardinality(AllAhead(S, d, a)) < n)
    BY <1>4, <2>1 DEF Foremost
  <2>3. AllAhead(C, d, a) # AllAhead(S, d, a)
    BY <2>1, <2>2
  <2>4. PICK b \in S \ C : Ahead(d, b, a)
    BY <2>3 DEF AllAhead
  <2>5. AllAhead(C, d, b) \in SUBSET AllAhead(C, d, a)
    BY <2>1, <2>4, AheadOrders DEF AllAhead
  <2>6. Cardinality(AllAhead(C, d, b)) <= Cardinality(AllAhead(C, d, a))
    BY <1>2, <2>1, <2>5, FS_Subset
  <2> QED
    BY <1>2, <2>1, <2>4, <2>6
<1> QED
  BY <1>3, <1>4

\* A quotient reaches every number whose product with the divisor the dividend reaches.
LEMMA QuotientBounds ==
  ASSUME NEW c \in Nat, NEW x \in Nat, NEW d \in Nat \ {0}, x >= c * d
  PROVE  x \div d \in Nat /\ x \div d >= c
<1> DEFINE q == x \div d
<1>1. q \in Int /\ x = d * q + (x % d) /\ x % d \in 0 .. d - 1
  OBVIOUS
<1> HIDE DEF q
<1>2. d * q + d > c * d
  BY <1>1
<1>3. d * (q + 1) > d * c
  BY <1>1, <1>2
<1>4. q + 1 > c
  BY <1>1, <1>3
<1>5. q \in Nat /\ q >= c
  BY <1>1, <1>4
<1> QED
  BY <1>5 DEF q

\* A multiple is divided without a rest.
LEMMA MultipleHasNoRest ==
  ASSUME NEW d \in Nat \ {0}, NEW q \in Int
  PROVE  (d * q) % d = 0 /\ (d * q) \div d = q
<1> DEFINE x == d * q
           t == x \div d
           r == x % d
<1>1. x \in Int /\ t \in Int /\ r \in 0 .. d - 1 /\ x = d * t + r
  OBVIOUS
<1>2. x = d * q
  OBVIOUS
<1> HIDE DEF x, t, r
<1>3. PICK e \in Int : e = q - t
  BY <1>1
<1>4. d * e = r
  BY <1>1, <1>2, <1>3
<1>5. ~ (e >= 1)
  <2>1. ASSUME e >= 1 PROVE d * e >= d
    BY <2>1
  <2> QED
    BY <1>1, <1>4, <2>1
<1>6. ~ (e <= -1)
  <2>1. ASSUME e <= -1 PROVE d * e <= -d
    BY <2>1
  <2> QED
    BY <1>1, <1>4, <2>1
<1>7. e = 0
  BY <1>5, <1>6
<1>8. r = 0 /\ t = q
  BY <1>1, <1>3, <1>4, <1>7
<1> QED
  BY <1>8 DEF r, t, x
=============================================================================
