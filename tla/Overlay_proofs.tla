--------------------------- MODULE Overlay_proofs ---------------------------
(***************************************************************************)
(* Proofs about Overlay, for every store, every number and order of edits,   *)
(* and every k: what over-fetching is for.                                  *)
(***************************************************************************)
EXTENDS Overlay, Ranking

Typed == /\ stored \in Seq(Scores) /\ Len(stored) \in Nat
         /\ log \in LogOf(Nat, Scores)
         /\ FirstInsertId(log) = Len(stored)
         /\ IsFiniteSet(log.tombstones)
         /\ k \in Nat

Wanted == IF IsEmptyLog THEN k ELSE OverFetch(k)

\* What a search leaves; nothing changes after it.
Searched == /\ hits \in SUBSET StoredIds
            /\ Cardinality(hits) = Smaller(Wanted, Len(stored))
            /\ answer = IF IsEmptyLog THEN hits ELSE ApplyUpdates(k, hits)

IInv == Typed /\ IF done THEN Searched ELSE answer = {}

Everything == StoredIds \cup BufferedIds(log)

Distance == [id \in Everything |-> Score(id)]

-----------------------------------------------------------------------------

LEMMA InitHolds == Init => IInv
<1> SUFFICES ASSUME Init PROVE IInv
  OBVIOUS
<1>1. PICK n \in StoreLens : stored \in [1 .. n -> Scores]
  BY DEF Init
<1>2. n \in Nat
  BY OverlayAssumption DEF OverlayAssumption
<1>3. stored \in Seq(Scores) /\ Len(stored) = n
  BY <1>1, <1>2
<1>4. log = [tombstones |-> {}, inserts |-> <<>>, nextId |-> n] /\ k = 0
  BY <1>3 DEF Init, NewLog
<1>5. log \in LogOf(Nat, Scores) /\ FirstInsertId(log) = n
  BY <1>2, <1>4 DEF LogOf, FirstInsertId
<1>6. IsFiniteSet(log.tombstones)
  BY <1>4, FS_EmptySet
<1> QED
  BY <1>2, <1>3, <1>4, <1>5, <1>6 DEF Init, IInv, Typed

LEMMA DeleteKeeps ==
  ASSUME IInv, NEW id \in StoredIds \cup BufferedIds(log) \cup ExtraIds, Delete(id)
  PROVE  IInv'
<1>1. id \in Nat
  <2>1. Len(stored) \in Nat /\ FirstInsertId(log) = Len(stored) /\ log.nextId \in Nat
    BY DEF IInv, Typed, LogOf
  <2> QED
    BY <2>1, OverlayAssumption DEF OverlayAssumption, StoredIds, BufferedIds
<1>2. /\ log' \in LogOf(Nat, Scores)
      /\ log'.tombstones = log.tombstones \cup {id}
      /\ log'.inserts = log.inserts /\ log'.nextId = log.nextId
  BY <1>1 DEF IInv, Typed, LogOf, Delete, Deleted
<1>3. IsFiniteSet(log'.tombstones)
  BY <1>2, FS_AddElement DEF IInv, Typed
<1>4. FirstInsertId(log') = FirstInsertId(log)
  BY <1>2 DEF FirstInsertId
<1> QED
  BY <1>2, <1>3, <1>4 DEF IInv, Typed, Delete

LEMMA InsertKeeps == ASSUME IInv, NEW score \in Scores, Insert(score) PROVE IInv'
<1> DEFINE count == Len(log.inserts)
<1>1. log.inserts \in Seq(Scores) /\ log.nextId \in Nat /\ count \in Nat
  BY DEF IInv, Typed, LogOf
<1>2. /\ log' = [log EXCEPT !.inserts = Append(log.inserts, score),
                            !.nextId = log.nextId + 1]
      /\ log' \in LogOf(Nat, Scores)
  <2>1. Append(log.inserts, score) \in Seq(Scores) /\ log.nextId + 1 \in Nat
    BY <1>1
  <2> QED
    BY <2>1 DEF IInv, Typed, LogOf, Insert, Inserted
<1>3. /\ log'.tombstones = log.tombstones
      /\ log'.inserts = Append(log.inserts, score) /\ log'.nextId = log.nextId + 1
  BY <1>2 DEF IInv, Typed, LogOf
<1>4. Len(log'.inserts) = count + 1
  BY <1>1, <1>3
<1>5. \A a, b \in Nat : (a + 1) - (b + 1) = a - b
  OBVIOUS
<1> HIDE DEF count
<1>6. FirstInsertId(log') = log.nextId - count
  BY <1>1, <1>3, <1>4, <1>5 DEF FirstInsertId
<1>7. FirstInsertId(log') = FirstInsertId(log)
  BY <1>6 DEF FirstInsertId, count
<1> QED
  BY <1>2, <1>3, <1>7 DEF IInv, Typed, Insert

LEMMA SearchKeeps == ASSUME IInv, NEW n \in Ks, Search(n) PROVE IInv'
<1>1. n \in Nat
  BY OverlayAssumption DEF OverlayAssumption
<1>2. UNCHANGED <<stored, log>> /\ k' = n /\ done'
  BY DEF Search
<1>3. Typed'
  BY <1>1, <1>2 DEF IInv, Typed
<1>4. /\ IsEmptyLog' = IsEmptyLog /\ StoredIds' = StoredIds
      /\ Wanted' = IF IsEmptyLog THEN n ELSE OverFetch(n)
      /\ ApplyUpdates(k, hits)' = ApplyUpdates(n, hits')
  BY <1>2 DEF IsEmptyLog, StoredIds, Wanted, OverFetch, ApplyUpdates, Best, Before, Score
<1>5. Searched'
  BY <1>2, <1>4 DEF Search, Searched
<1> QED
  BY <1>2, <1>3, <1>5 DEF IInv

LEMMA IInvHolds == Spec => []IInv
<1>1. IInv /\ [Next]_vars => IInv'
  <2> SUFFICES ASSUME IInv, [Next]_vars PROVE IInv'
    OBVIOUS
  <2>1. CASE \E id \in StoredIds \cup BufferedIds(log) \cup ExtraIds : Delete(id)
    BY <2>1, DeleteKeeps
  <2>2. CASE \E s \in Scores : Insert(s)
    BY <2>2, InsertKeeps
  <2>3. CASE \E n \in Ks : Search(n)
    BY <2>3, SearchKeeps
  <2>4. CASE UNCHANGED vars
    BY <2>4 DEF vars, IInv, Typed, Searched, Wanted, OverFetch, IsEmptyLog, StoredIds,
                ApplyUpdates, Best, Before, Score
  <2> QED
    BY <2>1, <2>2, <2>3, <2>4 DEF Next
<1> QED
  BY <1>1, InitHolds, PTL DEF Spec

-----------------------------------------------------------------------------

\* Every id the two sides know has a score, and the two share none.
LEMMA EverythingIsRanked ==
  ASSUME Typed
  PROVE  /\ Ranked(Everything, Distance)
         /\ StoredIds \cap BufferedIds(log) = {}
         /\ IsFiniteSet(StoredIds) /\ Cardinality(StoredIds) = Len(stored)
<1>1. /\ Len(stored) \in Nat /\ log.nextId \in Nat /\ log.inserts \in Seq(Scores)
      /\ FirstInsertId(log) = Len(stored)
  BY DEF Typed, LogOf
<1>2. StoredIds \cap BufferedIds(log) = {} /\ Everything \subseteq Nat
  BY <1>1 DEF StoredIds, BufferedIds, Everything
<1>3. /\ IsFiniteSet(StoredIds) /\ Cardinality(StoredIds) = Len(stored)
      /\ IsFiniteSet(BufferedIds(log))
  <2> DEFINE last == Len(stored) - 1
             highest == log.nextId - 1
             first == Len(stored)
  <2>1. last \in Int /\ highest \in Int /\ first \in Int /\ first = last + 1 /\ first \in Nat
    BY <1>1
  <2>2. StoredIds = 0 .. last /\ BufferedIds(log) = first .. highest
    BY <1>1 DEF StoredIds, BufferedIds
  <2> HIDE DEF last, highest, first
  <2>3. IsFiniteSet(first .. highest)
    BY <2>1, FS_Interval
  <2>4. IsFiniteSet(0 .. last) /\ Cardinality(0 .. last) = first
    BY <2>1, FS_Interval
  <2> QED
    BY <2>2, <2>3, <2>4 DEF first
<1>4. IsFiniteSet(Everything)
  BY <1>3, FS_Union DEF Everything
<1>5. \A id \in StoredIds : Score(id) \in Scores
  BY <1>1 DEF Typed, StoredIds, Score
<1>6. \A id \in BufferedIds(log) : Score(id) \in Scores
  <2> SUFFICES ASSUME NEW id \in BufferedIds(log) PROVE Score(id) \in Scores
    OBVIOUS
  <2>1. id \notin StoredIds
    BY <1>2
  <2>2. /\ log.nextId - Len(log.inserts) = Len(stored)
        /\ id \in Len(stored) .. log.nextId - 1 /\ Len(log.inserts) \in Nat
    BY <1>1 DEF BufferedIds, FirstInsertId
  <2>3. id - Len(stored) + 1 \in 1 .. Len(log.inserts)
    BY <1>1, <2>2
  <2> QED
    BY <1>1, <2>1, <2>3 DEF Score, BufferedAt
<1>7. \A id \in Everything : Distance[id] \in Int
  BY <1>5, <1>6, OverlayAssumption DEF OverlayAssumption, Distance, Everything
<1> QED
  BY <1>2, <1>3, <1>4, <1>7 DEF Ranked

\* The collector takes the first n of a ranked set.
LEMMA BestIsFirst ==
  ASSUME Typed, NEW S \in SUBSET Everything, NEW n \in Nat
  PROVE  Best(n, S) = Foremost(S, n, Distance) /\ Ranked(S, Distance)
<1>1. \A a, b \in S : Before(b, a) <=> Ahead(Distance, b, a)
  BY DEF Before, Ahead, Distance
<1>2. \A a \in S : {b \in S : Before(b, a)} = AllAhead(S, Distance, a)
  BY <1>1 DEF AllAhead
<1>3. Best(n, S) = Foremost(S, n, Distance)
  BY <1>2 DEF Best, Foremost
<1>4. Ranked(S, Distance)
  BY EverythingIsRanked, FS_Subset DEF Ranked
<1> QED
  BY <1>3, <1>4

\* Without edits all that lives is what is stored.
LEMMA NoEdits ==
  ASSUME Typed, IsEmptyLog
  PROVE  Alive = StoredIds /\ BufferedIds(log) = {}
<1>1. /\ log.nextId \in Nat /\ Len(log.inserts) = 0 /\ log.tombstones = {}
      /\ FirstInsertId(log) = log.nextId - 0
  BY DEF Typed, LogOf, IsEmptyLog, FirstInsertId
<1>2. BufferedIds(log) = {}
  BY <1>1 DEF BufferedIds
<1> QED
  BY <1>1, <1>2 DEF Alive

Candidates == (hits \ log.tombstones) \cup (BufferedIds(log) \ log.tombstones)

\* What is deleted is at most as much as over-fetching adds: of n + |tombstones| stored
\* vectors at least n live.
LEMMA OverFetchSuffices ==
  ASSUME Typed, NEW S \in SUBSET StoredIds, NEW n \in Nat,
         n + Cardinality(log.tombstones) <= Cardinality(S)
  PROVE  n <= Cardinality(S \ log.tombstones)
<1>1. IsFiniteSet(S) /\ IsFiniteSet(log.tombstones)
  BY EverythingIsRanked, FS_Subset DEF Typed
<1>2. S \cap log.tombstones \in SUBSET log.tombstones
  OBVIOUS
<1>3. Cardinality(S \cap log.tombstones) <= Cardinality(log.tombstones)
  BY <1>1, <1>2, FS_Subset
<1>4. Cardinality(S \ log.tombstones) = Cardinality(S) - Cardinality(S \cap log.tombstones)
  BY <1>1, FS_Difference
<1>5. /\ Cardinality(S \cap log.tombstones) \in Nat /\ Cardinality(S) \in Nat
      /\ Cardinality(log.tombstones) \in Nat
  BY <1>1, <1>2, FS_Subset, FS_CardinalityType
<1> QED
  BY <1>3, <1>4, <1>5

\* The index returned all it has, or enough that k of it live.
LEMMA EnoughHits ==
  ASSUME Typed, Searched, ~ IsEmptyLog
  PROVE  hits = StoredIds \/ k <= Cardinality(hits \ log.tombstones)
<1>1. /\ Cardinality(hits) = Smaller(k + Cardinality(log.tombstones), Len(stored))
      /\ hits \in SUBSET StoredIds
  BY DEF Searched, Wanted, OverFetch
<1>2. /\ IsFiniteSet(StoredIds) /\ Cardinality(StoredIds) = Len(stored)
      /\ Len(stored) \in Nat /\ k \in Nat /\ Cardinality(log.tombstones) \in Nat
  BY EverythingIsRanked, FS_CardinalityType DEF Typed
<1>3. CASE k + Cardinality(log.tombstones) <= Cardinality(hits)
  BY <1>1, <1>2, <1>3, OverFetchSuffices
<1>4. CASE Cardinality(hits) = Len(stored)
  BY <1>1, <1>2, <1>4, FS_Subset
<1> QED
  BY <1>1, <1>2, <1>3, <1>4 DEF Smaller

\* Bundle::search: a deleted vector is no answer, stored or buffered, whichever is
\* deleted and whenever.
THEOREM DeletedNeverReturn == Spec => []DeletedStaysHidden
<1>1. IInv => DeletedStaysHidden
  BY DEF IInv, Searched, IsEmptyLog, ApplyUpdates, Best, DeletedStaysHidden
<1> QED
  BY <1>1, IInvHolds, PTL

\* Bundle::search, over_fetch: a search comes back with k neighbors, or with all that
\* live, over any index that returns as many as it is asked for.
THEOREM SearchIsFilled == Spec => []AnswerIsFilled
<1>1. IInv => AnswerIsFilled
  <2> SUFFICES ASSUME IInv, done PROVE Cardinality(answer) = Smaller(k, Cardinality(Alive))
    BY DEF AnswerIsFilled
  <2>1. Typed /\ Searched /\ k \in Nat
    BY DEF IInv, Typed
  <2>2. Ranked(Alive, Distance) /\ Ranked(Candidates, Distance)
    <3>1. Alive \in SUBSET Everything /\ Candidates \in SUBSET Everything
      BY <2>1 DEF Alive, Everything, Candidates, Searched
    <3> QED
      BY <2>1, <3>1, BestIsFirst
  <2>3. CASE IsEmptyLog
    <3>1. Alive = StoredIds /\ Cardinality(StoredIds) = Len(stored)
      BY <2>1, <2>3, NoEdits, EverythingIsRanked
    <3> QED
      BY <2>1, <2>3, <3>1 DEF Searched, Wanted
  <2>4. CASE ~ IsEmptyLog
    <3>1. answer = Foremost(Candidates, k, Distance)
      <4>1. Candidates \in SUBSET Everything
        BY <2>1 DEF Everything, Candidates, Searched
      <4> QED
        BY <2>1, <2>4, <4>1, BestIsFirst DEF Searched, ApplyUpdates, Candidates
    <3>2. IsFiniteSet(Candidates) /\ IsFiniteSet(Alive) /\ Candidates \in SUBSET Alive
      BY <2>1, <2>2 DEF Ranked, Candidates, Alive, Searched
    <3>3. /\ Cardinality(Candidates) \in Nat /\ Cardinality(Alive) \in Nat
          /\ Cardinality(Candidates) <= Cardinality(Alive)
      BY <3>2, FS_CardinalityType, FS_Subset
    <3>4. CASE hits = StoredIds
      <4>1. Candidates = Alive
        BY <3>4 DEF Candidates, Alive
      <4> QED
        BY <2>1, <2>2, <3>1, <3>3, <4>1, ForemostAreEnough DEF Smaller
    <3>5. CASE k <= Cardinality(hits \ log.tombstones)
      <4>1. hits \ log.tombstones \in SUBSET Candidates
        BY DEF Candidates
      <4>2. /\ IsFiniteSet(hits \ log.tombstones)
            /\ Cardinality(hits \ log.tombstones) <= Cardinality(Candidates)
        BY <3>2, <4>1, FS_Subset
      <4>3. Cardinality(hits \ log.tombstones) \in Nat
        BY <4>2, FS_CardinalityType
      <4>4. k <= Cardinality(Candidates) /\ k <= Cardinality(Alive)
        BY <2>1, <3>3, <3>5, <4>2, <4>3
      <4> QED
        BY <2>1, <2>2, <3>1, <3>3, <4>4, ForemostAreEnough DEF Smaller
    <3> QED
      BY <2>1, <2>4, <3>4, <3>5, EnoughHits
  <2> QED
    BY <2>3, <2>4
<1> QED
  BY <1>1, IInvHolds, PTL

\* Bundle::search, apply_updates: from the exact first hits of the stored vectors the
\* search makes the exact first k of those that live.
THEOREM OverlayIsExact == Spec => []ExactFromExact
<1>1. IInv => ExactFromExact
  <2> SUFFICES ASSUME IInv, done, hits = Best(Cardinality(hits), StoredIds)
               PROVE  answer = Best(k, Alive)
    BY DEF ExactFromExact
  <2>1. Typed /\ Searched /\ k \in Nat /\ hits \in SUBSET StoredIds
    BY DEF IInv, Typed, Searched
  <2>2. /\ Alive \in SUBSET Everything /\ Candidates \in SUBSET Everything
        /\ StoredIds \in SUBSET Everything /\ Candidates \in SUBSET Alive
    BY <2>1 DEF Alive, Everything, Candidates
  <2>3. IsFiniteSet(hits) /\ Cardinality(hits) \in Nat
    <3>1. IsFiniteSet(StoredIds)
      BY <2>1, EverythingIsRanked
    <3> QED
      BY <2>1, <3>1, FS_Subset, FS_CardinalityType
  <2>4. /\ Best(k, Alive) = Foremost(Alive, k, Distance) /\ Ranked(Alive, Distance)
        /\ Best(k, Candidates) = Foremost(Candidates, k, Distance)
        /\ Ranked(Candidates, Distance)
        /\ hits = Foremost(StoredIds, Cardinality(hits), Distance)
        /\ Ranked(StoredIds, Distance)
    BY <2>1, <2>2, <2>3, BestIsFirst
  <2>5. CASE IsEmptyLog
    <3>1. /\ Alive = StoredIds /\ Cardinality(StoredIds) = Len(stored)
          /\ answer = hits /\ Cardinality(hits) = Smaller(k, Len(stored))
          /\ Len(stored) \in Nat
      BY <2>1, <2>5, NoEdits, EverythingIsRanked DEF Searched, Wanted, Typed
    <3>2. CASE k <= Len(stored)
      BY <2>1, <2>4, <3>1, <3>2 DEF Smaller
    <3>3. CASE Len(stored) < k
      <4>1. Foremost(StoredIds, Cardinality(hits), Distance) = StoredIds
        BY <2>1, <2>3, <2>4, <3>1, <3>3, ForemostAreEnough DEF Smaller
      <4>2. Foremost(StoredIds, k, Distance) = StoredIds
        BY <2>1, <2>4, <3>1, <3>3, ForemostAreEnough
      <4> QED
        BY <2>4, <3>1, <4>1, <4>2
    <3> QED
      BY <2>1, <3>1, <3>2, <3>3
  <2>6. CASE ~ IsEmptyLog
    <3>1. answer = Foremost(Candidates, k, Distance)
      BY <2>1, <2>4, <2>6 DEF Searched, ApplyUpdates, Candidates
    <3>2. ASSUME NEW b \in Alive \ Candidates
          PROVE  k <= Cardinality(AllAhead(Candidates, Distance, b))
      <4>1. b \in StoredIds \ hits
        BY <3>2 DEF Alive, Candidates
      <4>2. k <= Cardinality(hits \ log.tombstones)
        BY <2>1, <2>6, <4>1, EnoughHits
      <4>3. \A a \in hits : Ahead(Distance, a, b)
        BY <2>3, <2>4, <4>1, ForemostAreAhead
      <4>4. hits \ log.tombstones \in SUBSET AllAhead(Candidates, Distance, b)
        BY <4>3 DEF AllAhead, Candidates
      <4>5. IsFiniteSet(AllAhead(Candidates, Distance, b))
        <5>1. AllAhead(Candidates, Distance, b) \in SUBSET Candidates
          BY DEF AllAhead
        <5> QED
          BY <2>4, <5>1, FS_Subset DEF Ranked
      <4>6. /\ IsFiniteSet(hits \ log.tombstones)
            /\ Cardinality(hits \ log.tombstones)
                 <= Cardinality(AllAhead(Candidates, Distance, b))
        BY <4>4, <4>5, FS_Subset
      <4>7. /\ Cardinality(hits \ log.tombstones) \in Nat
            /\ Cardinality(AllAhead(Candidates, Distance, b)) \in Nat
        BY <4>5, <4>6, FS_CardinalityType
      <4> QED
        BY <2>1, <4>2, <4>6, <4>7
    <3> QED
      BY <2>1, <2>2, <2>4, <3>1, <3>2, CandidatesAreEnough
  <2> QED
    BY <2>5, <2>6
<1> QED
  BY <1>1, IInvHolds, PTL
=============================================================================
