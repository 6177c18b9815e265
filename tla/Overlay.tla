------------------------------- MODULE Overlay -------------------------------
(***************************************************************************)
(* Searching through the update log: Bundle::search and search_hybrid in    *)
(* slate-index/src/bundle.rs ask the frozen index for more than k, drop the *)
(* tombstoned hits and merge the buffered inserts.                          *)
(*                                                                         *)
(* A vector is its score under the query.  What the index answers is any    *)
(* set of stored ids of the size asked for.                                 *)
(***************************************************************************)
EXTENDS UpdateLog, FiniteSets

CONSTANTS Scores,        \* scores of vectors under the query
          StoreLens,     \* lengths of the frozen store
          Ks,            \* numbers of neighbors asked for
          ExtraIds,      \* ids of no vector that may be deleted all the same
          MaxEdits       \* bound: deletes and inserts before the search

ASSUME OverlayAssumption ==
  /\ Scores \subseteq Int /\ StoreLens \subseteq Nat /\ Ks \subseteq Nat
  /\ ExtraIds \subseteq Nat /\ MaxEdits \in Nat

VARIABLES stored,        \* scores of the stored vectors: id i is stored[i + 1]
          log,           \* the update log
          k,             \* of the search
          hits,          \* ids the index returned
          answer,        \* ids the search returned
          edits,         \* edits so far
          done

vars == <<stored, log, k, hits, answer, edits, done>>

StoredIds == 0 .. Len(stored) - 1

Score(id) == IF id \in StoredIds THEN stored[id + 1] ELSE BufferedAt(log, id)

\* cmp_ascending
Before(a, b) == Score(a) < Score(b) \/ (Score(a) = Score(b) /\ a < b)

\* TopK keeps the first n of the ids offered.
Best(n, S) == {a \in S : Cardinality({b \in S : Before(b, a)}) < n}

Smaller(a, b) == IF a < b THEN a ELSE b

Init == /\ \E n \in StoreLens : stored \in [1 .. n -> Scores]
        /\ log = NewLog(Len(stored))
        /\ k = 0 /\ hits = {} /\ answer = {} /\ edits = 0 /\ done = FALSE

\* Any id may be deleted: stored, buffered, deleted already, or of no vector.
Delete(id) ==
  /\ ~ done /\ edits < MaxEdits
  /\ log' = Deleted(log, id)
  /\ edits' = edits + 1
  /\ UNCHANGED <<stored, k, hits, answer, done>>

Insert(score) ==
  /\ ~ done /\ edits < MaxEdits
  /\ log' = Inserted(log, score)
  /\ edits' = edits + 1
  /\ UNCHANGED <<stored, k, hits, answer, done>>

IsEmptyLog == log.tombstones = {} /\ log.inserts = <<>>

\* A slip: one tombstone is not made up for.
OverFetchOneShort(n) ==
  n + Cardinality(log.tombstones) - (IF log.tombstones = {} THEN 0 ELSE 1)

\* over_fetch
OverFetch(n) == n + Cardinality(log.tombstones)

\* A slip: only the hits are checked for tombstones.
ApplyUpdatesToHits(n, found) ==
  Best(n, (found \ log.tombstones) \cup BufferedIds(log))

\* apply_updates: hits and buffered inserts that carry no tombstone are ranked.
ApplyUpdates(n, found) ==
  Best(n, (found \ log.tombstones) \cup (BufferedIds(log) \ log.tombstones))

\* search: without edits the answer of the index is the answer.
Search(n) ==
  /\ ~ done
  /\ LET wanted == IF IsEmptyLog THEN n ELSE OverFetch(n)
     IN \E found \in SUBSET StoredIds :
          /\ Cardinality(found) = Smaller(wanted, Len(stored))
          /\ hits' = found
          /\ answer' = IF IsEmptyLog THEN found ELSE ApplyUpdates(n, found)
  /\ k' = n /\ done' = TRUE
  /\ UNCHANGED <<stored, log, edits>>

Next == \/ \E id \in StoredIds \cup BufferedIds(log) \cup ExtraIds : Delete(id)
        \/ \E s \in Scores : Insert(s)
        \/ \E n \in Ks : Search(n)

Spec == Init /\ [][Next]_vars

-----------------------------------------------------------------------------
(* Properties.                                                             *)

Alive == (StoredIds \cup BufferedIds(log)) \ log.tombstones

\* A deleted vector is never an answer, stored or buffered.
DeletedStaysHidden == answer \cap log.tombstones = {}

\* Over-fetching makes up for every hit that is dropped: a search over an index
\* that returns as many as it is asked for comes back with k, or with all that live.
AnswerIsFilled == done => Cardinality(answer) = Smaller(k, Cardinality(Alive))

\* The overlay costs no accuracy: from the exact first hits it makes the exact first
\* k of the vectors that live.
ExactFromExact ==
  done /\ hits = Best(Cardinality(hits), StoredIds) => answer = Best(k, Alive)
=============================================================================
