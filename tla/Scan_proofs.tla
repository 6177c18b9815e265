------------------------------ MODULE Scan_proofs ------------------------------
(***************************************************************************)
(* Proofs about the two parts every scan of vectors is made of, which use no *)
(* other component: the collector (TopK) and the distance kernels (Kernels). *)
(*                                                                         *)
(* The collector keeps as many neighbors as it can, and keeps the best, for *)
(* every capacity and every stream of offers.                               *)
(*                                                                         *)
(* For queries of every length, a kernel sums each element exactly once,    *)
(* loads nothing beyond the stored vector, and runs on the CPU at hand.     *)
(* None of the three is inductive.  Counted is what they rest on: before    *)
(* element `at` everything has been added once and nothing after it, the    *)
(* loads so far are within the vector, and past the length check the vector *)
(* has len elements and the kernel is the one Dispatch gives.               *)
(***************************************************************************)
EXTENDS TopK, Kernels, FunctionTheorems, FiniteSetTheorems, TLAPS

-----------------------------------------------------------------------------
(* The collector.                                                          *)

\* The heap as Next sees it; `out` plays no part in the invariants.
TypeInv == /\ k \in Ks
           /\ offered \in Seq(Neighbor)
           /\ heap \subseteq 1 .. Len(offered)

IInv == /\ TypeInv
        /\ IsFiniteSet(heap)
        /\ KeepsEnough
        /\ NoBetterDropped

\* cmp_ascending is a total order: the facts an eviction relies on.
LEMMA LessIsOrder ==
  ASSUME NEW a \in Neighbor, NEW b \in Neighbor, NEW c \in Neighbor
  PROVE  /\ ~ Less(a, a)
         /\ Less(a, b) => ~ Less(b, a)
         /\ Less(a, b) \/ Less(b, a) \/ a = b
         /\ ~ Less(a, b) /\ ~ Less(b, c) => ~ Less(a, c)
<1>1. /\ a.score \in Int /\ b.score \in Int /\ c.score \in Int
      /\ a.id \in Int /\ b.id \in Int /\ c.id \in Int
  <2>1. /\ a.score \in Scores /\ b.score \in Scores /\ c.score \in Scores
        /\ a.id \in Ids /\ b.id \in Ids /\ c.id \in Ids
    BY DEF Neighbor
  <2>2. Ids \subseteq Int /\ Scores \subseteq Int
    BY TopKAssumption DEF TopKAssumption
  <2> QED BY <2>1, <2>2
<1>2. a.score = b.score /\ a.id = b.id => a = b
  BY DEF Neighbor
<1> QED BY <1>1, <1>2 DEF Less

\* One offer, whichever of its three branches is taken.
LEMMA OfferKeepsIInv ==
  ASSUME IInv, NEW n \in Neighbor, Offer(n)
  PROVE  IInv'
<1> DEFINE i == Len(offered) + 1
<1>1. /\ offered \in Seq(Neighbor) /\ k \in Nat /\ k' = k
      /\ Len(offered) \in Nat /\ i \in Nat /\ Cardinality(heap) \in Nat
  BY TopKAssumption, FS_CardinalityType DEF IInv, TypeInv, Offer, TopKAssumption
<1>2. /\ offered' \in Seq(Neighbor)
      /\ Len(offered') = i
      /\ offered'[i] = n
      /\ \A j \in 1 .. Len(offered) : offered'[j] = offered[j]
      /\ \A j \in 1 .. Len(offered) : offered[j] \in Neighbor
  BY <1>1 DEF Offer
<1>3. heap \subseteq 1 .. Len(offered) /\ i \notin heap /\ IsFiniteSet(heap)
  BY <1>1 DEF IInv, TypeInv
<1>4. 1 .. Len(offered') = (1 .. Len(offered)) \cup {i}
  BY <1>1, <1>2
<1>5. CASE k = 0 /\ heap' = heap
  <2>1. Cardinality(heap) = 0
    BY <1>1, <1>5 DEF IInv, KeepsEnough, Smaller
  <2>2. heap = {}
    BY <2>1, <1>3, FS_EmptySet
  <2> QED BY <1>1, <1>2, <1>5, <2>1, <2>2, <1>3
          DEF IInv, TypeInv, KeepsEnough, NoBetterDropped, Smaller
<1>6. CASE k > 0 /\ Cardinality(heap) < k /\ heap' = heap \cup {i}
  <2>1. IsFiniteSet(heap') /\ Cardinality(heap') = Cardinality(heap) + 1
    BY <1>3, <1>6, FS_AddElement
  <2>2. Cardinality(heap) = Len(offered)
    BY <1>1, <1>6 DEF IInv, KeepsEnough, Smaller
  <2>3. KeepsEnough'
    BY <2>1, <2>2, <1>1, <1>2, <1>6 DEF KeepsEnough, Smaller
  <2>4. heap = 1 .. Len(offered)
    <3>1. /\ IsFiniteSet(1 .. Len(offered))
          /\ Cardinality(1 .. Len(offered)) = Len(offered)
      <4> DEFINE l == Len(offered)
      <4>1. l \in Nat /\ 1 \in Int /\ l \in Int
        BY <1>1
      <4>2. /\ IsFiniteSet(1 .. l)
            /\ Cardinality(1 .. l) = IF 1 > l THEN 0 ELSE l - 1 + 1
        BY <4>1, FS_Interval
      <4> HIDE DEF l
      <4>3. (IF 1 > l THEN 0 ELSE l - 1 + 1) = l
        BY <4>1
      <4>4. IsFiniteSet(1 .. l) /\ Cardinality(1 .. l) = l
        BY <4>2, <4>3
      <4> QED BY <4>4 DEF l
    <3> QED BY <3>1, <2>2, <1>3, FS_Subset
  <2>5. NoBetterDropped'
    BY <2>4, <1>4, <1>6 DEF NoBetterDropped
  <2> QED BY <1>1, <1>2, <1>3, <1>4, <1>6, <2>1, <2>3, <2>5 DEF IInv, TypeInv
<1>7. CASE k > 0 /\ Cardinality(heap) >= k /\ Replace(n, i)
  <2>1. Cardinality(heap) = k /\ k =< Len(offered)
    BY <1>1, <1>7 DEF IInv, KeepsEnough, Smaller
  <2>2. PICK w \in Peek(heap) :
          heap' = IF Less(n, offered[w]) THEN (heap \ {w}) \cup {i} ELSE heap
    BY <1>7 DEF Replace
  <2>3. /\ w \in heap /\ offered[w] \in Neighbor
        /\ \A j \in heap : ~ Less(offered[w], offered[j])
    BY <2>2, <1>2, <1>3 DEF Peek
  <2>4. \A j \in (1 .. Len(offered)) \ heap : ~ Less(offered[j], offered[w])
    BY <2>3 DEF IInv, NoBetterDropped
  <2>5. CASE Less(n, offered[w])
    <3>1. heap' = (heap \ {w}) \cup {i}
      BY <2>2, <2>5
    <3>2. IsFiniteSet(heap') /\ Cardinality(heap') = k
      <4>1. IsFiniteSet(heap \ {w}) /\ Cardinality(heap \ {w}) = k - 1
        BY <1>3, <2>1, <2>3, FS_RemoveElement
      <4>2. i \notin heap \ {w}
        BY <1>3
      <4>3. /\ IsFiniteSet((heap \ {w}) \cup {i})
            /\ Cardinality((heap \ {w}) \cup {i}) = (k - 1) + 1
        BY <4>1, <4>2, FS_AddElement
      <4> QED BY <4>3, <1>1, <3>1
    <3>3. ASSUME NEW a \in heap', NEW b \in (1 .. Len(offered')) \ heap'
          PROVE  ~ Less(offered'[b], offered'[a])
      <4>1. /\ b \in 1 .. Len(offered)
            /\ offered'[b] = offered[b]
            /\ offered[b] \in Neighbor
            /\ b = w \/ b \notin heap
        BY <1>2, <1>4, <3>1, <3>3
      <4>2. ~ Less(offered[b], offered[w])
        BY <4>1, <2>4, <2>3
      <4>3. CASE a = i
        BY <4>1, <4>2, <4>3, <2>5, <2>3, <1>2, LessIsOrder
      <4>4. CASE a \in heap
        <5>1. offered'[a] = offered[a] /\ offered[a] \in Neighbor
          BY <4>4, <1>2, <1>3
        <5>2. ~ Less(offered[w], offered[a])
          BY <4>4, <2>3
        <5> QED BY <5>1, <5>2, <4>1, <4>2, <2>3, LessIsOrder
      <4> QED BY <4>3, <4>4, <3>1
    <3>4. NoBetterDropped'
      BY <3>3 DEF NoBetterDropped
    <3>5. KeepsEnough'
      BY <1>1, <1>2, <2>1, <3>2 DEF KeepsEnough, Smaller
    <3>6. TypeInv'
      BY <1>1, <1>2, <1>3, <1>4, <3>1 DEF IInv, TypeInv
    <3> QED BY <3>2, <3>4, <3>5, <3>6 DEF IInv
  <2>6. CASE ~ Less(n, offered[w])
    <3>1. heap' = heap
      BY <2>2, <2>6
    <3>2. ASSUME NEW a \in heap, NEW b \in (1 .. Len(offered')) \ heap
          PROVE  ~ Less(offered'[b], offered'[a])
      <4>1. /\ offered'[a] = offered[a] /\ offered[a] \in Neighbor
            /\ ~ Less(offered[w], offered[a])
        BY <1>2, <1>3, <2>3
      <4>2. CASE b = i
        BY <4>1, <4>2, <2>6, <2>3, <1>2, LessIsOrder
      <4>3. CASE b # i
        <5>1. b \in (1 .. Len(offered)) \ heap /\ offered'[b] = offered[b]
          BY <4>3, <1>2, <1>4
        <5> QED BY <5>1, <4>1 DEF IInv, NoBetterDropped
      <4> QED BY <4>2, <4>3
    <3>3. NoBetterDropped'
      BY <3>1, <3>2 DEF NoBetterDropped
    <3> QED BY <1>1, <1>2, <1>3, <1>4, <2>1, <3>1, <3>3
            DEF IInv, TypeInv, KeepsEnough, Smaller
  <2> QED BY <2>5, <2>6
<1> QED BY <1>5, <1>6, <1>7 DEF Offer

LEMMA NextKeepsIInv == IInv /\ [Next]_vars => IInv'
<1> SUFFICES ASSUME IInv, [Next]_vars PROVE IInv'
  OBVIOUS
<1>1. CASE \E n \in Neighbor : Offer(n)
  BY <1>1, OfferKeepsIInv
<1>2. CASE IntoSortedVec
  BY <1>2 DEF IInv, TypeInv, KeepsEnough, NoBetterDropped, IntoSortedVec, Less
<1>3. CASE UNCHANGED vars
  BY <1>3 DEF IInv, TypeInv, KeepsEnough, NoBetterDropped, vars, Less
<1> QED BY <1>1, <1>2, <1>3 DEF Next

\* Whatever the stream, the collector holds min(k, offers) neighbors and none it
\* dropped ranks before one it kept (TopK::offer).
THEOREM CollectorKeepsTheBest == Spec => []KeepsBest
<1>1. Init => IInv
  BY TopKAssumption, FS_EmptySet
  DEF Init, IInv, TypeInv, KeepsEnough, NoBetterDropped, Smaller, TopKAssumption
<1>2. IInv => KeepsBest
  BY DEF IInv, KeepsBest
<1> QED BY <1>1, <1>2, NextKeepsIInv, PTL DEF Spec

-----------------------------------------------------------------------------
\* The order of the answer.

Position == 1 .. Len(offered)

Below(v)  == {j \in Position : Less(offered[j], v)}
AtMost(v) == {j \in Position : ~ Less(v, offered[j])}

\* v is the value at place r of the sorted stream.
StandsAt(v, r) == Cardinality(Below(v)) < r /\ r <= Cardinality(AtMost(v))

LEMMA PositionsAreFinite ==
  ASSUME TypeInv
  PROVE  /\ Len(offered) \in Nat /\ IsFiniteSet(Position)
         /\ Cardinality(Position) = Len(offered)
         /\ \A i \in Position : i \in Nat /\ offered[i] \in Neighbor
         /\ \A S \in SUBSET Position : IsFiniteSet(S) /\ Cardinality(S) \in Nat
<1>1. offered \in Seq(Neighbor) /\ Len(offered) \in Nat
  BY DEF TypeInv
<1>2. /\ IsFiniteSet(1 .. Len(offered)) /\ Cardinality(1 .. Len(offered)) = Len(offered)
  BY <1>1, FS_Interval
<1>3. \A S \in SUBSET Position : IsFiniteSet(S) /\ Cardinality(S) \in Nat
  BY <1>2, FS_Subset, FS_CardinalityType DEF Position
<1> QED BY <1>1, <1>2, <1>3 DEF Position

\* One value stands at each place.
LEMMA OneStandsAt ==
  ASSUME TypeInv, NEW v \in Neighbor, NEW w \in Neighbor, NEW r \in Nat,
         StandsAt(v, r), StandsAt(w, r)
  PROVE  v = w
<1>1. ASSUME NEW x \in Neighbor, NEW y \in Neighbor, StandsAt(x, r), StandsAt(y, r), Less(x, y)
      PROVE  FALSE
  <2>1. AtMost(x) \in SUBSET Below(y) /\ Below(y) \in SUBSET Position
    <3> SUFFICES ASSUME NEW j \in Position, ~ Less(x, offered[j]) PROVE Less(offered[j], y)
      BY DEF AtMost, Below
    <3>1. offered[j] \in Neighbor
      BY PositionsAreFinite
    <3>2. ASSUME ~ Less(offered[j], y) PROVE FALSE
      <4>1. ~ Less(x, y)
        BY <3>1, <3>2, LessIsOrder
      <4> QED BY <4>1, <1>1
    <3> QED BY <3>2
  <2>2. /\ IsFiniteSet(Below(y)) /\ Cardinality(Below(y)) \in Nat
        /\ Cardinality(AtMost(x)) \in Nat
    BY <2>1, PositionsAreFinite
  <2>3. Cardinality(AtMost(x)) <= Cardinality(Below(y))
    BY <2>1, <2>2, FS_Subset
  <2> QED BY <1>1, <2>2, <2>3 DEF StandsAt
<1> QED BY <1>1, LessIsOrder

Ranks(i) == {j \in Position : \/ Less(offered[j], offered[i])
                              \/ offered[j] = offered[i] /\ j =< i}

LEMMA RankIsOneToOne ==
  ASSUME TypeInv, NEW i \in Position, NEW j \in Position, i # j
  PROVE  Rank(i) # Rank(j)
<1>1. ASSUME NEW a \in Position, NEW b \in Position, a # b,
             Less(offered[a], offered[b]) \/ (offered[a] = offered[b] /\ a < b)
      PROVE  Rank(a) < Rank(b)
  <2>1. \A x \in Position : x \in Nat /\ offered[x] \in Neighbor
    BY PositionsAreFinite
  <2>2. Ranks(a) \in SUBSET Ranks(b) /\ b \in Ranks(b) /\ b \notin Ranks(a)
    <3>1. b \in Ranks(b)
      BY <2>1 DEF Ranks
    <3>2. b \notin Ranks(a)
      BY <1>1, <2>1, LessIsOrder DEF Ranks
    <3>3. ASSUME NEW x \in Ranks(a) PROVE x \in Ranks(b)
      <4>1. /\ x \in Position /\ offered[x] \in Neighbor /\ offered[a] \in Neighbor
            /\ offered[b] \in Neighbor /\ x \in Nat /\ a \in Nat /\ b \in Nat
        BY <2>1 DEF Ranks
      <4>2. CASE Less(offered[x], offered[a])
        <5>1. ~ Less(offered[b], offered[a])
          BY <1>1, <4>1, LessIsOrder
        <5>2. ASSUME ~ Less(offered[x], offered[b]) PROVE FALSE
          <6>1. ~ Less(offered[x], offered[a])
            BY <4>1, <5>1, <5>2, LessIsOrder
          <6> QED BY <4>2, <6>1
        <5> QED BY <4>1, <5>2 DEF Ranks
      <4>3. CASE offered[x] = offered[a] /\ x =< a
        BY <1>1, <4>1, <4>3 DEF Ranks
      <4> QED BY <4>2, <4>3 DEF Ranks
    <3> QED BY <3>1, <3>2, <3>3
  <2>3. /\ IsFiniteSet(Ranks(b)) /\ Cardinality(Ranks(a)) \in Nat
        /\ Cardinality(Ranks(b)) \in Nat
    BY PositionsAreFinite DEF Ranks
  <2>4. /\ Cardinality(Ranks(a)) <= Cardinality(Ranks(b))
        /\ Cardinality(Ranks(a)) # Cardinality(Ranks(b))
    BY <2>2, <2>3, FS_Subset
  <2>5. Rank(a) = Cardinality(Ranks(a)) /\ Rank(b) = Cardinality(Ranks(b))
    BY DEF Rank, Ranks, Position
  <2> QED BY <2>3, <2>4, <2>5
<1>2. \A x \in Position : Rank(x) \in Nat
  <2>1. \A x \in Position : Rank(x) = Cardinality(Ranks(x)) /\ Ranks(x) \in SUBSET Position
    BY DEF Rank, Ranks, Position
  <2> QED BY <2>1, PositionsAreFinite
<1>3. \/ Less(offered[i], offered[j]) \/ (offered[i] = offered[j] /\ i < j)
      \/ Less(offered[j], offered[i]) \/ (offered[j] = offered[i] /\ j < i)
  BY PositionsAreFinite, LessIsOrder
<1>4. CASE Less(offered[i], offered[j]) \/ (offered[i] = offered[j] /\ i < j)
  BY <1>1, <1>2, <1>4
<1>5. CASE Less(offered[j], offered[i]) \/ (offered[j] = offered[i] /\ j < i)
  BY <1>1, <1>2, <1>5
<1> QED BY <1>3, <1>4, <1>5

\* The reference sorts: the value it puts at place r stands there.
LEMMA SortedStands ==
  ASSUME TypeInv, NEW r \in Position
  PROVE  Sorted[r] \in Neighbor /\ StandsAt(Sorted[r], r)
<1> DEFINE rank == [i \in Position |-> Rank(i)]
<1>1. ASSUME NEW i \in Position
      PROVE  /\ Rank(i) \in Position
             /\ Cardinality(Below(offered[i])) < Rank(i)
             /\ Rank(i) <= Cardinality(AtMost(offered[i]))
  <2>1. offered[i] \in Neighbor /\ i \in Nat
    BY PositionsAreFinite
  <2>2. Rank(i) = Cardinality(Ranks(i))
    BY DEF Rank, Ranks, Position
  <2>3. /\ Ranks(i) \in SUBSET AtMost(offered[i])
        /\ Below(offered[i]) \in SUBSET (Ranks(i) \ {i})
        /\ i \in Ranks(i)
    <3>1. \A x \in Position : /\ offered[x] \in Neighbor /\ x \in Nat
                              /\ ~ Less(offered[x], offered[x])
                              /\ Less(offered[x], offered[i]) => ~ Less(offered[i], offered[x])
      BY <2>1, PositionsAreFinite, LessIsOrder
    <3>2. Ranks(i) \in SUBSET AtMost(offered[i])
      <4> SUFFICES ASSUME NEW x \in Ranks(i) PROVE x \in Position /\ ~ Less(offered[i], offered[x])
        BY DEF AtMost
      <4>1. /\ x \in Position
            /\ Less(offered[x], offered[i]) \/ offered[x] = offered[i]
        BY DEF Ranks
      <4>2. CASE Less(offered[x], offered[i])
        BY <3>1, <4>1, <4>2
      <4>3. CASE offered[x] = offered[i]
        <5>1. ~ Less(offered[x], offered[x])
          BY <3>1, <4>1
        <5> QED BY <4>1, <4>3, <5>1
      <4> QED BY <4>1, <4>2, <4>3
    <3>3. i \in Ranks(i)
      BY <2>1 DEF Ranks
    <3>4. Below(offered[i]) \in SUBSET (Ranks(i) \ {i})
      <4> SUFFICES ASSUME NEW x \in Position, Less(offered[x], offered[i])
                   PROVE  x \in Ranks(i) /\ x # i
        BY DEF Below
      <4>1. x \in Ranks(i)
        BY DEF Ranks
      <4>2. x # i
        BY <3>1
      <4> QED BY <4>1, <4>2
    <3> QED BY <3>2, <3>3, <3>4
  <2>4. /\ Ranks(i) \in SUBSET Position /\ AtMost(offered[i]) \in SUBSET Position
        /\ Below(offered[i]) \in SUBSET Position
    BY DEF Ranks, AtMost, Below
  <2>5. /\ IsFiniteSet(Ranks(i)) /\ Cardinality(Ranks(i)) \in Nat
        /\ IsFiniteSet(AtMost(offered[i])) /\ Cardinality(AtMost(offered[i])) \in Nat
        /\ Cardinality(Below(offered[i])) \in Nat
    BY <2>4, PositionsAreFinite
  <2>6. /\ IsFiniteSet(Ranks(i) \ {i})
        /\ Cardinality(Ranks(i) \ {i}) = Cardinality(Ranks(i)) - 1
    BY <2>3, <2>5, FS_RemoveElement
  <2>7. Cardinality(Below(offered[i])) <= Cardinality(Ranks(i) \ {i})
    BY <2>3, <2>6, FS_Subset
  <2>8. Cardinality(Ranks(i)) <= Cardinality(AtMost(offered[i]))
    BY <2>3, <2>5, FS_Subset
  <2>9. Cardinality(Ranks(i)) <= Len(offered)
    BY <2>4, PositionsAreFinite, FS_Subset
  <2>10. Len(offered) \in Nat
    BY PositionsAreFinite
  <2> QED BY <2>2, <2>5, <2>6, <2>7, <2>8, <2>9, <2>10 DEF Position
<1>2. rank \in Injection(Position, Position)
  <2>1. rank \in [Position -> Position]
    BY <1>1
  <2>2. \A i, j \in Position : rank[i] = rank[j] => i = j
    BY RankIsOneToOne
  <2> HIDE DEF rank
  <2> QED BY <2>1, <2>2 DEF Injection, IsInjective
<1>3. rank \in Surjection(Position, Position)
  <2> HIDE DEF rank
  <2> QED BY <1>2, PositionsAreFinite, FS_Injection
<1>4. \E i \in Position : Rank(i) = r
  <2>1. \E i \in Position : rank[i] = r
    <3> HIDE DEF rank
    <3> QED BY <1>3 DEF Surjection
  <2> QED BY <2>1
<1> DEFINE slot == CHOOSE i \in Position : Rank(i) = r
<1>5. slot \in Position /\ Rank(slot) = r
  BY <1>4
<1>6. Sorted[r] = offered[slot]
  BY DEF Sorted, Position
<1> HIDE DEF slot
<1> QED BY <1>1, <1>5, <1>6, PositionsAreFinite DEF StandsAt

\* The heap sorted: the value into_sorted_vec puts at place r stands there too, among
\* all that was offered.
LEMMA HeapStands ==
  ASSUME IInv, NEW p \in Arrangements(heap), NEW r \in 1 .. Cardinality(heap)
  PROVE  /\ p[r] \in Position /\ offered[p[r]] \in Neighbor
         /\ StandsAt(offered[p[r]], r)
<1> DEFINE m == Cardinality(heap)
<1>1. /\ m \in Nat /\ IsFiniteSet(heap) /\ heap \in SUBSET Position /\ TypeInv
      /\ r \in 1 .. m
  BY FS_CardinalityType DEF IInv, TypeInv, Position
<1> HIDE DEF m
<1>2. /\ p \in [1 .. m -> heap]
      /\ \A a, b \in 1 .. m : a # b => p[a] # p[b]
      /\ \A a, b \in 1 .. m : a < b => ~ Less(offered[p[b]], offered[p[a]])
  BY DEF Arrangements, m
<1>3. p \in Injection(1 .. m, heap)
  BY <1>2 DEF Injection, IsInjective
<1>4. Cardinality(1 .. m) = m
  BY <1>1, FS_Interval
<1>5. p \in Surjection(1 .. m, heap)
  BY <1>1, <1>3, <1>4, FS_Injection DEF m
<1>6. p[r] \in heap /\ p[r] \in Position /\ offered[p[r]] \in Neighbor
  BY <1>1, <1>2, PositionsAreFinite
<1> DEFINE v == offered[p[r]]
           before == 1 .. r - 1
           image == {p[a] : a \in before}
<1>7. Below(v) \in SUBSET image
  <2> SUFFICES ASSUME NEW j \in Position, Less(offered[j], v) PROVE j \in image
    BY DEF Below
  <2>1. j \in heap
    BY <1>6 DEF IInv, NoBetterDropped, Position
  <2>2. PICK a \in 1 .. m : p[a] = j
    BY <1>5, <2>1 DEF Surjection
  <2>3. ~ (r < a)
    BY <1>1, <1>2, <2>2
  <2>4. a # r
    BY <1>6, <2>2, LessIsOrder
  <2> QED BY <1>1, <2>2, <2>3, <2>4
<1>8. Cardinality(Below(v)) < r
  <2>1. IsFiniteSet(before) /\ Cardinality(before) = r - 1
    BY <1>1, FS_Interval
  <2> DEFINE f == [a \in before |-> p[a]]
  <2>2. f \in Surjection(before, image)
    BY DEF Surjection
  <2> HIDE DEF f, before, image
  <2>3. IsFiniteSet(image) /\ Cardinality(image) <= r - 1
    BY <2>1, <2>2, FS_Surjection
  <2>4. Cardinality(Below(v)) <= Cardinality(image)
    BY <1>7, <2>3, FS_Subset
  <2>5. Cardinality(Below(v)) \in Nat /\ Cardinality(image) \in Nat
    <3>1. Below(v) \in SUBSET Position
      BY DEF Below
    <3> QED BY <1>1, <2>3, <3>1, PositionsAreFinite, FS_CardinalityType
  <2> QED BY <1>1, <2>3, <2>4, <2>5
<1>9. r <= Cardinality(AtMost(v))
  <2> DEFINE g == [a \in 1 .. r |-> p[a]]
  <2>1. \A a \in 1 .. r : p[a] \in AtMost(v)
    <3> SUFFICES ASSUME NEW a \in 1 .. r PROVE ~ Less(v, offered[p[a]]) /\ p[a] \in Position
      BY DEF AtMost
    <3>1. a \in 1 .. m /\ p[a] \in Position /\ (a < r \/ a = r)
      BY <1>1, <1>2
    <3> QED BY <1>1, <1>2, <1>6, <3>1, LessIsOrder
  <2>2. g \in [1 .. r -> AtMost(v)]
    BY <2>1
  <2>3. \A a, b \in 1 .. r : g[a] = g[b] => a = b
    BY <1>1, <1>2
  <2> HIDE DEF g, v
  <2>4. g \in Injection(1 .. r, AtMost(v))
    BY <2>2, <2>3 DEF Injection, IsInjective
  <2>5. IsFiniteSet(AtMost(v)) /\ Cardinality(1 .. r) = r
    BY <1>1, PositionsAreFinite, FS_Interval DEF AtMost
  <2> QED BY <2>4, <2>5, FS_Injection
<1> QED BY <1>6, <1>8, <1>9 DEF StandsAt

\* The collector was consumed in sorted order.
Consumed == done => \E p \in Arrangements(heap) : out = [a \in DOMAIN p |-> offered[p[a]]]

LEMMA NextKeepsConsumed == Consumed /\ [Next]_vars => Consumed'
<1> SUFFICES ASSUME Consumed, [Next]_vars PROVE Consumed'
  OBVIOUS
<1>1. CASE \E n \in Neighbor : Offer(n)
  BY <1>1 DEF Offer, Consumed
<1>2. CASE IntoSortedVec
  BY <1>2 DEF IntoSortedVec, Consumed, Arrangements, Less
<1>3. CASE UNCHANGED vars
  BY <1>3 DEF vars, Consumed, Arrangements, Less
<1> QED BY <1>1, <1>2, <1>3 DEF Next

\* TopK::into_sorted_vec: the answer is the first k of the stream sorted by score and id,
\* and so depends on what was offered and not on when.
THEOREM CollectorSorts == Spec => []ResultIsReference
<1>1. IInv /\ Consumed => ResultIsReference
  <2> SUFFICES ASSUME IInv, Consumed, done
               PROVE  out = [r \in 1 .. Smaller(k, Len(offered)) |-> Sorted[r]]
    BY DEF ResultIsReference
  <2> DEFINE m == Cardinality(heap)
  <2>1. PICK p \in Arrangements(heap) : out = [a \in DOMAIN p |-> offered[p[a]]]
    BY DEF Consumed
  <2>2. DOMAIN p = 1 .. m
    BY DEF Arrangements
  <2>3. m = Smaller(k, Len(offered)) /\ TypeInv
    BY DEF IInv, KeepsEnough
  <2>4. k \in Nat /\ Len(offered) \in Nat
    BY <2>3, TopKAssumption, PositionsAreFinite DEF TypeInv, TopKAssumption
  <2> HIDE DEF m
  <2>5. ASSUME NEW r \in 1 .. m PROVE offered[p[r]] = Sorted[r]
    <3>1. offered[p[r]] \in Neighbor /\ StandsAt(offered[p[r]], r)
      BY <2>5, HeapStands DEF m
    <3>2. r \in Position /\ r \in Nat
      BY <2>3, <2>4 DEF Position, Smaller
    <3>3. Sorted[r] \in Neighbor /\ StandsAt(Sorted[r], r)
      BY <2>3, <3>2, SortedStands
    <3> QED BY <2>3, <3>1, <3>2, <3>3, OneStandsAt
  <2> QED BY <2>1, <2>2, <2>3, <2>5
<1>2. Init => IInv /\ Consumed
  BY TopKAssumption, FS_EmptySet
  DEF Init, IInv, TypeInv, KeepsEnough, NoBetterDropped, Smaller, TopKAssumption, Consumed
<1> QED BY <1>1, <1>2, NextKeepsIInv, NextKeepsConsumed, PTL DEF Spec

-----------------------------------------------------------------------------
(* The distance kernels.                                                   *)

VectorKernel == {"Avx2", "Avx512", "Neon"}

KernelTyped == /\ cpu \in Cpu /\ form \in Form
         /\ len \in Nat /\ stored \in Nat /\ reach \in Nat
         /\ at \in 0 .. len
         /\ kernel \in VectorKernel \cup {"none", "Scalar"}
         /\ pc \in {"check", "mismatch", "chunks", "tail", "done"}

Counted == /\ sum = [e \in 0 .. len - 1 |-> IF e < at THEN 1 ELSE 0]
           /\ reach <= stored
           /\ pc \in {"check", "mismatch"} => kernel = "none"
           /\ pc \in {"chunks", "tail", "done"} => /\ stored = Width(form) * len
                                                   /\ kernel = Dispatch(cpu, form)
           /\ pc = "chunks" => kernel \in VectorKernel
           /\ pc = "done" => at = len

KernelInv == KernelTyped /\ Counted

-----------------------------------------------------------------------------

\* Elements have one, two or four bytes.
LEMMA Widths == \A f \in Form : Width(f) \in {1, 2, 4}
BY DEF Form, Width

\* The shuffles of hsum256 bring every lane into the result once.
LEMMA HSumCountsOnce == \A lane \in 0 .. 7 : HSum256[lane] = 1
<1> SUFFICES ASSUME NEW lane \in 0 .. 7 PROVE HSum256[lane] = 1
  OBVIOUS
<1> DEFINE sum128 == [s \in 0 .. 3 |-> [l \in 0 .. 7 |-> IF l \in {s, s + 4} THEN 1 ELSE 0]]
<1> DEFINE sums == [s \in 0 .. 3 |-> AddSums(sum128[s], sum128[IF s < 2 THEN 1 ELSE 3])]
<1>1. HSum256 = AddSums(sums[0], sums[2])
  BY DEF HSum256
<1>2. HSum256[lane] = sums[0][lane] + sums[2][lane]
  BY <1>1 DEF AddSums
<1>3. /\ sums[0] = AddSums(sum128[0], sum128[1])
      /\ sums[2] = AddSums(sum128[2], sum128[3])
  OBVIOUS
<1>4. /\ sums[0][lane] = sum128[0][lane] + sum128[1][lane]
      /\ sums[2][lane] = sum128[2][lane] + sum128[3][lane]
  BY <1>3 DEF AddSums
<1>5. \A s \in 0 .. 3 : sum128[s][lane] = IF lane \in {s, s + 4} THEN 1 ELSE 0
  OBVIOUS
<1> HIDE DEF sum128, sums
<1> QED
  BY <1>2, <1>4, <1>5

\* A loop adds the lanes it moves past, which are no more than a register of the tier
\* holds, and loads no element beyond those it has checked for.
LEMMA LoopsAreSound ==
  ASSUME NEW tier \in VectorKernel, NEW f \in Form
  PROVE  /\ Loop(tier, f).lanes \in Nat /\ Loop(tier, f).ahead \in Nat /\ Loop(tier, f).load \in Nat
         /\ Loop(tier, f).step = Loop(tier, f).lanes
         /\ Loop(tier, f).lanes <= Loop(tier, f).ahead
         /\ Loop(tier, f).load <= Loop(tier, f).ahead
         /\ tier = "Avx2" => Loop(tier, f).lanes = 8
<1>1. CASE tier = "Avx2"
  BY <1>1 DEF Form, Loop, Avx2F32, Avx2F16, Avx2I8
<1>2. CASE tier = "Avx512"
  BY <1>2 DEF Form, Loop, Avx512F32, Avx512F16, Avx512I8
<1>3. CASE tier = "Neon"
  BY <1>3 DEF Form, Loop, NeonF32, NeonF16, NeonI8
<1> QED
  BY <1>1, <1>2, <1>3 DEF VectorKernel

\* A dispatcher gives a kernel, and one whose instructions the CPU has.
LEMMA DispatchFits ==
  ASSUME NEW c \in Cpu, NEW f \in Form
  PROVE  /\ Dispatch(c, f) \in VectorKernel \cup {"Scalar"}
         /\ Requires(Dispatch(c, f), f) \subseteq c.features
<1>1. CASE f = "f32"
  BY <1>1 DEF Cpu, Dispatch, F32Kernel, DetectTier, Requires, VectorKernel
<1>2. CASE f = "i8"
  BY <1>2 DEF Cpu, Dispatch, I8Kernel, DetectTier, Requires, VectorKernel
<1>3. CASE f = "f16"
  BY <1>3 DEF Cpu, Dispatch, F16Kernel, F16SimdOk, DetectTier, Requires, VectorKernel
<1> QED
  BY <1>1, <1>2, <1>3 DEF Form

\* Adding the lanes from i on leaves every element before the new i counted once, when
\* they are no more than the tier's register has.
LEMMA LanesAreAdded ==
  ASSUME KernelTyped, sum = [e \in 0 .. len - 1 |-> IF e < at THEN 1 ELSE 0],
         NEW lanes \in Nat, NEW load \in Nat, at + lanes <= len,
         kernel = "Avx2" => lanes <= 8,
         AddLanes(at, lanes, load)
  PROVE  sum' = [e \in 0 .. len - 1 |-> IF e < at + lanes THEN 1 ELSE 0]
<1>1. \A e \in at .. at + lanes - 1 : LaneCount(kernel, e - at) = 1
  <2> SUFFICES ASSUME NEW e \in at .. at + lanes - 1 PROVE LaneCount(kernel, e - at) = 1
    OBVIOUS
  <2>1. CASE kernel = "Avx2"
    <3>1. e - at \in 0 .. 7
      BY <2>1 DEF KernelTyped
    <3> QED
      BY <2>1, <3>1, HSumCountsOnce DEF LaneCount
  <2>2. CASE kernel # "Avx2"
    BY <2>2 DEF LaneCount
  <2> QED
    BY <2>1, <2>2
<1>2. \A e \in 0 .. len - 1 :
        sum[e] + (IF e \in at .. at + lanes - 1 THEN LaneCount(kernel, e - at) ELSE 0)
          = IF e < at + lanes THEN 1 ELSE 0
  BY <1>1 DEF KernelTyped
<1> QED
  BY <1>2 DEF AddLanes

-----------------------------------------------------------------------------

LEMMA KernelInitHolds == KernelInit => KernelInv
<1> SUFFICES ASSUME KernelInit PROVE KernelInv
  OBVIOUS
<1>1. Width(form) * MaxLen \in Nat /\ len \in Nat
  BY Widths, KernelAssumption DEF KernelInit
<1>2. KernelTyped
  BY <1>1 DEF KernelInit, KernelTyped
<1>3. Counted
  BY <1>1 DEF KernelInit, Counted
<1> QED
  BY <1>2, <1>3 DEF KernelInv

LEMMA KernelStepHolds == KernelInv /\ [KernelNext]_kernelVars => KernelInv'
<1> SUFFICES ASSUME KernelInv, [KernelNext]_kernelVars PROVE KernelInv'
  OBVIOUS
<1> USE DEF KernelInv
<1>w. Width(form) \in {1, 2, 4}
  BY Widths DEF KernelTyped
<1>1. CASE Refuse
  BY <1>1 DEF Refuse, KernelTyped, Counted
<1>2. CASE Enter
  <2>1. /\ kernel' = Dispatch(cpu, form)
        /\ kernel' \in VectorKernel \cup {"Scalar"}
    BY <1>2, DispatchFits DEF Enter, KernelTyped
  <2>2. KernelTyped'
    BY <1>2, <2>1 DEF Enter, KernelTyped
  <2>3. Counted'
    BY <1>2, <2>1 DEF Enter, Counted
  <2> QED
    BY <2>2, <2>3
<1>3. CASE Chunk
  <2> DEFINE l == Loop(kernel, form)
  <2>1. /\ l.lanes \in Nat /\ l.ahead \in Nat /\ l.load \in Nat
        /\ l.step = l.lanes /\ l.lanes <= l.ahead /\ l.load <= l.ahead
        /\ kernel = "Avx2" => l.lanes = 8
    BY <1>3, LoopsAreSound DEF Chunk, KernelTyped, Counted
  <2>2. at + l.ahead <= len /\ at' = at + l.lanes /\ AddLanes(at, l.lanes, l.load)
    BY <1>3, <2>1 DEF Chunk
  <2> HIDE DEF l
  <2>3. sum' = [e \in 0 .. len - 1 |-> IF e < at + l.lanes THEN 1 ELSE 0]
    <3>1. at + l.lanes <= len
      BY <2>1, <2>2 DEF KernelTyped
    <3> QED
      BY <2>1, <2>2, <3>1, LanesAreAdded DEF Counted
  <2>4. reach' = Width(form) * (at + l.load)
    BY <2>2 DEF AddLanes
  <2>5. reach' \in Nat /\ reach' <= Width(form) * len
    BY <1>w, <2>1, <2>2, <2>4 DEF KernelTyped
  <2>6. at' \in 0 .. len
    BY <2>1, <2>2 DEF KernelTyped
  <2>7. KernelTyped'
    BY <1>3, <2>5, <2>6 DEF Chunk, KernelTyped
  <2>8. Counted'
    BY <1>3, <2>2, <2>3, <2>5 DEF Chunk, Counted
  <2> QED
    BY <2>7, <2>8
<1>4. CASE LeaveChunks
  BY <1>4 DEF LeaveChunks, KernelTyped, Counted
<1>5. CASE MaskedTail
  <2>1. kernel = "Avx512"
    BY <1>5 DEF MaskedTail, KernelTyped, Counted, VectorKernel, Form, Loop,
                Avx2F32, Avx2F16, Avx2I8, NeonF32, NeonF16, NeonI8
  <2>2. CASE len - at > 0
    <3>1. AddLanes(at, len - at, len - at) /\ len - at \in Nat /\ at + (len - at) = len
      BY <1>5, <2>2 DEF MaskedTail, KernelTyped
    <3>2. sum' = [e \in 0 .. len - 1 |-> IF e < len THEN 1 ELSE 0]
      BY <2>1, <3>1, LanesAreAdded DEF KernelTyped, Counted
    <3>3. reach' = Width(form) * len
      BY <3>1 DEF AddLanes, KernelTyped
    <3>4. reach' \in Nat /\ reach' = stored
      BY <1>5, <1>w, <3>3 DEF MaskedTail, KernelTyped, Counted
    <3>5. KernelTyped'
      BY <1>5, <3>4 DEF MaskedTail, KernelTyped
    <3>6. Counted'
      BY <1>5, <3>2, <3>4 DEF MaskedTail, KernelTyped, Counted
    <3> QED
      BY <3>5, <3>6
  <2>3. CASE ~(len - at > 0)
    <3>1. at = len
      BY <2>3 DEF KernelTyped
    <3> QED
      BY <1>5, <2>3, <3>1 DEF MaskedTail, KernelTyped, Counted
  <2> QED
    BY <2>2, <2>3
<1>6. CASE ScalarTail
  <2>1. at < len /\ at' = at + 1 /\ at' \in 0 .. len /\ reach' = Width(form) * (at + 1)
    BY <1>6 DEF ScalarTail, KernelTyped
  <2>2. reach' \in Nat /\ reach' <= Width(form) * len
    BY <1>w, <2>1 DEF KernelTyped
  <2>3. sum' = [e \in 0 .. len - 1 |-> IF e < at + 1 THEN 1 ELSE 0]
    <3>1. sum' = [e \in 0 .. len - 1 |-> IF e = at THEN sum[at] + 1 ELSE sum[e]]
      BY <1>6 DEF ScalarTail, Counted
    <3> QED
      BY <2>1, <3>1 DEF KernelTyped, Counted
  <2>4. KernelTyped'
    BY <1>6, <2>1, <2>2 DEF ScalarTail, KernelTyped
  <2>5. Counted'
    <3>1. sum' = [e \in 0 .. len' - 1 |-> IF e < at' THEN 1 ELSE 0]
      BY <1>6, <2>1, <2>3 DEF ScalarTail
    <3>2. reach' <= stored' /\ stored' = Width(form') * len' /\ kernel' = Dispatch(cpu', form')
      BY <1>6, <2>2 DEF ScalarTail, Counted
    <3> QED
      BY <1>6, <3>1, <3>2 DEF ScalarTail, Counted
  <2> QED
    BY <2>4, <2>5
<1>7. CASE Return
  BY <1>7 DEF Return, KernelTyped, Counted
<1>8. CASE UNCHANGED kernelVars
  BY <1>8 DEF kernelVars, KernelTyped, Counted
<1> QED
  BY <1>1, <1>2, <1>3, <1>4, <1>5, <1>6, <1>7, <1>8 DEF KernelNext

LEMMA KernelInvariant == KernelSpec => []KernelInv
BY KernelInitHolds, KernelStepHolds, PTL DEF KernelSpec

-----------------------------------------------------------------------------

\* For every CPU, form and length, the result of a kernel counts the term of each
\* element of the vectors exactly once.
THEOREM EachOnce == KernelSpec => []SumsEachOnce
<1>1. KernelInv => SumsEachOnce
  BY DEF KernelInv, KernelTyped, Counted, SumsEachOnce
<1> QED
  BY <1>1, KernelInvariant, PTL

\* For every CPU, form and length, no kernel loads a byte beyond the stored vector,
\* the eight-byte load of the four-lane i8 loop on Neon included.
THEOREM InBounds == KernelSpec => []LoadsInBounds
<1>1. KernelInv => LoadsInBounds
  BY DEF KernelInv, Counted, LoadsInBounds
<1> QED
  BY <1>1, KernelInvariant, PTL

\* For every CPU and form, the kernel that is run needs only features that were detected.
THEOREM CpuHasThem == KernelSpec => []OnlyWhatTheCpuHas
<1>1. KernelInv => OnlyWhatTheCpuHas
  <2> SUFFICES ASSUME KernelInv, kernel # "none" PROVE Requires(kernel, form) \subseteq cpu.features
    BY DEF OnlyWhatTheCpuHas
  <2>1. kernel = Dispatch(cpu, form)
    BY DEF KernelInv, KernelTyped, Counted
  <2> QED
    BY <2>1, DispatchFits DEF KernelInv, KernelTyped
<1> QED
  BY <1>1, KernelInvariant, PTL
=============================================================================
