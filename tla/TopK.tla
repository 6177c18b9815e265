-------------------------------- MODULE TopK --------------------------------
(***************************************************************************)
(* The bounded collector every backend ranks its answer with               *)
(* (slate-core/src/search.rs).  A stream of neighbors is offered one at a   *)
(* time; a max-heap of at most K of them survives; into_sorted_vec returns  *)
(* the survivors best first.                                               *)
(*                                                                         *)
(* The heap is a multiset of neighbors (the same id and score may be        *)
(* offered twice), so it is represented by the positions of its elements    *)
(* in the stream: the shape of the binary heap is abstracted away.          *)
(***************************************************************************)
EXTENDS Integers, Sequences, FiniteSets

CONSTANTS Ids,        \* vector ids
          Scores,     \* distance scores, smaller is closer; NaN is the largest
          Ks,         \* the numbers of neighbors to keep, 0 included
          MaxOffers   \* bound: length of the offered stream

ASSUME TopKAssumption ==
  /\ Ids \subseteq Nat
  /\ Scores \subseteq Int
  /\ Ks \subseteq Nat
  /\ MaxOffers \in Nat

VARIABLES k,          \* the capacity given to TopK::new
          offered,    \* the stream so far
          heap,       \* positions of the retained neighbors
          out,        \* what into_sorted_vec returned
          done        \* the collector was consumed

vars == <<k, offered, heap, out, done>>

Neighbor == [id : Ids, score : Scores]

\* cmp_ascending(a, b) == Less: by score, ties by ascending id.
Less(a, b) == \/ a.score < b.score
              \/ a.score = b.score /\ a.id < b.id

\* A slip used to test the properties: a min-heap in place of the max-heap.
PeekBest(h) == {w \in h : \A i \in h : ~ Less(offered[i], offered[w])}

\* What peek() of the max-heap may return: a neighbor no other one exceeds.
Peek(h) == {w \in h : \A i \in h : ~ Less(offered[w], offered[i])}

\* TopK::new(k).
Init == /\ k \in Ks
        /\ offered = <<>>
        /\ heap = {}
        /\ out = <<>>
        /\ done = FALSE

\* Replace the current worst iff the candidate is strictly better.
Replace(n, i) ==
  \E w \in Peek(heap) :
    heap' = IF Less(n, offered[w]) THEN (heap \ {w}) \cup {i} ELSE heap

\* TopK::offer.
Offer(n) ==
  LET i == Len(offered) + 1
  IN /\ ~ done
     /\ Len(offered) < MaxOffers
     /\ offered' = Append(offered, n)
     /\ \/ k = 0 /\ heap' = heap
        \/ k > 0 /\ Cardinality(heap) < k /\ heap' = heap \cup {i}
        \/ k > 0 /\ Cardinality(heap) >= k /\ Replace(n, i)
     /\ UNCHANGED <<k, out, done>>

\* The arrangements of a set of positions that sort_unstable_by may leave:
\* neighbors that compare equal are equal values, so their order is no matter.
Arrangements(h) ==
  {p \in [1 .. Cardinality(h) -> h] :
     /\ \A a, b \in DOMAIN p : a # b => p[a] # p[b]
     /\ \A a, b \in DOMAIN p : a < b => ~ Less(offered[p[b]], offered[p[a]])}

\* TopK::into_sorted_vec consumes the collector.
IntoSortedVec ==
  /\ ~ done
  /\ done' = TRUE
  /\ \E p \in Arrangements(heap) : out' = [a \in DOMAIN p |-> offered[p[a]]]
  /\ UNCHANGED <<k, offered, heap>>

Next == \/ \E n \in Neighbor : Offer(n)
        \/ IntoSortedVec

Spec == Init /\ [][Next]_vars

-----------------------------------------------------------------------------
(* Properties.                                                             *)

Smaller(a, b) == IF a =< b THEN a ELSE b

\* As many neighbors are retained as there were offers, up to k.
KeepsEnough == Cardinality(heap) = Smaller(k, Len(offered))

NoBetterDropped == \A i \in heap : \A j \in (1 .. Len(offered)) \ heap :
                     ~ Less(offered[j], offered[i])

\* As many as there is room for, and no dropped neighbor ranks before a retained
\* one, whatever the order of the stream: eviction and rejection agree on one total
\* order, and an eviction is always paired with the push that caused it.  Proved in
\* Scan_proofs; a run sees it in the answer, which any stream may stop to ask for.
KeepsBest == KeepsEnough /\ NoBetterDropped

\* The reference: the answer is the first k of the whole stream sorted by
\* (score, id).  It mentions the multiset of offers only, so two searches that
\* visit the same candidates in different orders return the same answer.
Rank(i) == Cardinality({j \in 1 .. Len(offered) :
                          \/ Less(offered[j], offered[i])
                          \/ offered[j] = offered[i] /\ j =< i})

Sorted == [r \in 1 .. Len(offered) |->
             offered[CHOOSE i \in 1 .. Len(offered) : Rank(i) = r]]

ResultIsReference ==
  done => out = [r \in 1 .. Smaller(k, Len(offered)) |-> Sorted[r]]

=============================================================================
