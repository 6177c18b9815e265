---------------------------- MODULE FetchSchedule ----------------------------
(***************************************************************************)
(* A batch of vectors read from a store: FetchSchedule::plan                *)
(* (slate-storage/src/schedule.rs) decides how many sequential runs it      *)
(* takes and what they cost, fetch_scheduled (reader.rs) executes it, one   *)
(* vectored read per run, and PreadBackend (io.rs) loops over short reads.  *)
(*                                                                         *)
(* A byte of the file is named by its offset.  Storage runs this component  *)
(* on the file that StoreFile writes.                                       *)
(***************************************************************************)
EXTENDS BlockLayout, Sequences, SequencesExt

CONSTANTS MaxBatch,      \* bound: indices in a batch
          IovMax         \* buffers one preadv takes (IOV_MAX, 1024 on Linux)

ASSUME FetchAssumption == MaxBatch \in Nat /\ IovMax \in Nat \ {0}

-----------------------------------------------------------------------------
(* The plan.                                                               *)

\* The elements of a finite set, least first.
Ascending(S) ==
  [k \in 1 .. Cardinality(S) |-> CHOOSE x \in S : Cardinality({y \in S : y < x}) = k - 1]

\* The same block or the next one continues a run.
Continues(L, prev, i) == BlockOf(L, i) \in {BlockOf(L, prev), BlockOf(L, prev) + 1}

\* The loop of plan: a run in progress is closed when the next one begins.
PlanOf(L, requested) ==
  LET order == Ascending(ToSet(requested))
      Step(acc, i) ==
        IF acc.runs > 0 /\ Continues(L, acc.last, i)
          THEN [acc EXCEPT !.last = i]
          ELSE [runs |-> acc.runs + 1, first |-> i, last |-> i,
                spanBytes |-> IF acc.runs = 0 THEN 0
                              ELSE acc.spanBytes + RunSpan(L, acc.first, acc.last).len]
      swept == FoldLeft(Step, [runs |-> 0, first |-> 0, last |-> 0, spanBytes |-> 0], order)
  IN [order |-> order,
      runs |-> swept.runs,
      bytes |-> Len(order) * VectorBytes(L),
      spanBytes |-> IF order = <<>> THEN 0
                    ELSE swept.spanBytes + RunSpan(L, swept.first, swept.last).len]

\* A slip: only the same block continues a run.
RunSpansSameBlock(L, order) ==
  LET Step(spans, pos) ==
        IF pos > 1 /\ BlockOf(L, order[pos - 1]) = BlockOf(L, order[pos])
          THEN [spans EXCEPT ![Len(spans)].count = @ + 1]
          ELSE Append(spans, [start |-> pos, count |-> 1])
  IN FoldLeftDomain(Step, <<>>, order)

\* run_spans groups the order into runs with a loop of its own.
RunSpans(L, order) ==
  LET Step(spans, pos) ==
        IF pos > 1 /\ Continues(L, order[pos - 1], order[pos])
          THEN [spans EXCEPT ![Len(spans)].count = @ + 1]
          ELSE Append(spans, [start |-> pos, count |-> 1])
  IN FoldLeftDomain(Step, <<>>, order)

-----------------------------------------------------------------------------
(* scatter_run: where each byte of a run goes, slot n or the sink (0), and  *)
(* what is left of a sink sized by the run's length.                       *)

\* A slip: a gap is counted from the start of the last slot.
ScatterFromSlotStart(L, wanted, span) ==
  LET Step(acc, n) ==
        LET rel == VectorOffset(L, wanted[n]) - span.start
            gap == rel - acc.prevEnd
        IN [prevEnd |-> rel,
            sinkLeft |-> acc.sinkLeft - gap,
            dests |-> acc.dests \o [b \in 1 .. gap |-> 0]
                                \o [b \in 1 .. VectorBytes(L) |-> n]]
  IN FoldLeftDomain(Step, [prevEnd |-> 0, dests |-> <<>>,
                           sinkLeft |-> span.len - Len(wanted) * VectorBytes(L)], wanted)

Scatter(L, wanted, span) ==
  LET Step(acc, n) ==
        LET rel == VectorOffset(L, wanted[n]) - span.start
            gap == rel - acc.prevEnd
        IN [prevEnd |-> rel + VectorBytes(L),
            sinkLeft |-> acc.sinkLeft - gap,
            dests |-> acc.dests \o [b \in 1 .. gap |-> 0]
                                \o [b \in 1 .. VectorBytes(L) |-> n]]
  IN FoldLeftDomain(Step, [prevEnd |-> 0, dests |-> <<>>,
                           sinkLeft |-> span.len - Len(wanted) * VectorBytes(L)], wanted)

\* Buffers in the list: neighbouring ones have different destinations.
Buffers(dests) ==
  IF dests = <<>> THEN 0
  ELSE 1 + Cardinality({b \in 1 .. Len(dests) - 1 : dests[b] # dests[b + 1]})

-----------------------------------------------------------------------------
VARIABLES plan,          \* the schedule
          todo,          \* runs not yet read
          wanted,        \* indices of the run being read
          dests,         \* destination of each byte not yet read
          sinkLeft,      \* of the sink, after the list of buffers is built
          cur,           \* file offset of the next byte
          slots,         \* offsets of the bytes each slot buffer received
          visited,       \* what visit was given: [index, bytes]
          readRuns, readBytes,   \* runs and bytes read so far
          phase

batch == <<plan, todo, wanted, dests, sinkLeft, cur, slots, visited,
           readRuns, readBytes, phase>>

run == <<wanted, dests, sinkLeft, cur, slots>>

NoPlan == [order |-> <<>>, runs |-> 0, bytes |-> 0, spanBytes |-> 0]

Idle ==
  /\ plan = NoPlan /\ todo = <<>>
  /\ wanted = <<>> /\ dests = <<>> /\ sinkLeft = 0 /\ cur = 0 /\ slots = <<>>
  /\ visited = <<>> /\ readRuns = 0 /\ readBytes = 0
  /\ phase = "idle"

\* fetch_scheduled is called with indices in any order, some of them repeated.  A
\* scratch of the wrong dimension is refused before the loop: nothing changes.
Schedule ==
  /\ phase = "idle"
  /\ \E requested \in BoundedSeq(0 .. header.count - 1, MaxBatch) :
       plan' = PlanOf(header, requested)
  /\ todo' = RunSpans(header, plan'.order)
  /\ phase' = "next"
  /\ UNCHANGED <<header, run, visited, readRuns, readBytes>>

\* Take a run and build its list of buffers; a range beyond the file is refused.
StartRun ==
  /\ phase = "next" /\ todo # <<>>
  /\ LET window == Head(todo)
         indices == SubSeq(plan.order, window.start, window.start + window.count - 1)
         span == RunSpan(header, Head(indices), Last(indices))
         list == Scatter(header, indices, span)
     IN /\ wanted' = indices
        /\ dests' = list.dests
        /\ sinkLeft' = list.sinkLeft
        /\ cur' = span.start
        /\ slots' = [n \in 1 .. Len(indices) |-> <<>>]
        /\ phase' = IF span.start + Len(list.dests) > FileSizeFor(header, header.count)
                      THEN "out of bounds" ELSE "reading"
  /\ todo' = Tail(todo)
  /\ readRuns' = readRuns + 1
  /\ UNCHANGED <<header, plan, visited, readBytes>>

\* preadv fills the buffers in order, and may stop short.
Preadv(n) ==
  /\ phase = "reading" /\ n \in 1 .. Len(dests)
  /\ Buffers(dests) <= IovMax
  /\ slots' = [s \in DOMAIN slots |->
                 slots[s] \o Ascending({cur + k - 1 : k \in {b \in 1 .. n : dests[b] = s}})]
  /\ dests' = SubSeq(dests, n + 1, Len(dests))
  /\ cur' = cur + n
  /\ readBytes' = readBytes + n
  /\ phase' = IF n = Len(dests) THEN "read" ELSE "reading"
  /\ UNCHANGED <<header, plan, todo, wanted, sinkLeft, visited, readRuns>>

\* A slip: an error is taken for a short read of nothing, and tried again.
PreadvRetried ==
  /\ phase = "reading"
  /\ Buffers(dests) > IovMax
  /\ UNCHANGED <<header, batch>>

\* More buffers than the kernel takes: EINVAL.
PreadvRefused ==
  /\ phase = "reading"
  /\ Buffers(dests) > IovMax
  /\ phase' = "too many buffers"
  /\ UNCHANGED <<header, plan, todo, run, visited, readRuns, readBytes>>

\* Any other read error, an interrupted call included, ends the batch.
PreadvFails ==
  /\ phase = "reading"
  /\ phase' = "failed"
  /\ UNCHANGED <<header, plan, todo, run, visited, readRuns, readBytes>>

\* visit is called on each vector of the run, in order.  It may refuse one, which
\* would end the batch as a failed read does; no caller's does.
VisitRun ==
  /\ phase = "read"
  /\ visited' = visited \o [n \in 1 .. Len(wanted) |->
                              [index |-> wanted[n], bytes |-> slots[n]]]
  /\ phase' = "next"
  /\ UNCHANGED <<header, plan, todo, run, readRuns, readBytes>>

Finish ==
  /\ phase = "next" /\ todo = <<>>
  /\ phase' = "done"
  /\ UNCHANGED <<header, plan, todo, run, visited, readRuns, readBytes>>

Advance == \/ StartRun \/ \E n \in 1 .. Len(dests) : Preadv(n)
           \/ PreadvRefused \/ VisitRun \/ Finish

-----------------------------------------------------------------------------
(* Properties.                                                             *)

\* What visit has seen is a beginning of the order, each vector once; a batch that is
\* done is visited whole.
VisitsInOrder ==
  /\ [n \in DOMAIN visited |-> visited[n].index] = SubSeq(plan.order, 1, Len(visited))
  /\ phase = "done" => Len(visited) = Len(plan.order)

\* The gaps of a run use the sink up, exactly: it is neither too short, which
\* would panic, nor larger than the read.  And no run reaches beyond the file.
RunsAreExact == /\ phase \in {"reading", "read"} => sinkLeft = 0
                /\ phase # "out of bounds"

\* The counters are charged from the plan: it names the runs and the bytes that
\* the executor, with its own loop, really reads, and never fewer than the payload.
ChargesWhatItReads ==
  phase = "done" => /\ readRuns = plan.runs
                    /\ readBytes = plan.spanBytes
                    /\ plan.spanBytes >= plan.bytes

\* Reads that succeed, however short, deliver the batch: the number of buffers of a
\* run is not what makes it fail.
RunsFitOneCall == phase # "too many buffers"

\* A batch that is scheduled ends.
BatchEnds == (phase = "next") ~> (phase \notin {"next", "reading", "read"})
=============================================================================
