---------------------------- MODULE Bundle_proofs ----------------------------
(***************************************************************************)
(* Proofs about Bundle, for every number of processes, builds, vectors and   *)
(* edits.  What is kept of edits is shown for a directory that one process   *)
(* edits while others build, open and die; the rest for any.                *)
(***************************************************************************)
EXTENDS Bundle, TLAPS

Manifests == [build : Nat, backend : Backends]
Stores    == [build : Nat, len : StoreLens]
Indexes   == [build : Nat, backend : Backends]
Logs      == LogOf(Nat, Nat)
Edits     == [id : Nat, vector : Nat]

\* What a process holds, by how far it has come.
Builders == [phase : Building, build : Nat, backend : Backends, len : StoreLens]
Openers  == [phase : {"opening"}, manifest : Manifests]
Mappers  == [phase : {"mapped"}, manifest : Manifests, store : Stores]
Loaders  == [phase : {"loaded"}, manifest : Manifests, store : Stores, index : Indexes]
Owners   == [phase : {"open", "flushing"}, manifest : Manifests, store : Stores,
             index : Indexes, log : Logs, fresh : SUBSET Edits, freshDeletes : SUBSET Nat]
Handles  == {Idle} \cup Builders \cup Openers \cup Mappers \cup Loaders \cup Owners

Typed == /\ manifest \in Manifests \cup Broken /\ store \in Stores \cup Broken
         /\ index \in Indexes \cup Broken /\ logFile \in Logs \cup Broken
         /\ handle \in [Proc -> Handles]
         /\ builds \in Nat /\ issued \in Nat
         /\ acked \in SUBSET Edits /\ ackedDeletes \in SUBSET Nat

-----------------------------------------------------------------------------

LEMMA MarksAreNoContent ==
  /\ Absent # Empty /\ Absent # Torn /\ Empty # Torn
  /\ Manifests \cap Broken = {} /\ Stores \cap Broken = {} /\ Indexes \cap Broken = {}
  /\ Logs \cap Broken = {}
  /\ StoreLens \subseteq Nat /\ Ids \subseteq Nat
<1>1. \A s \in Stores : s \in [build : Nat, len : Nat]
  BY BundleAssumption DEF BundleAssumption, Stores
<1> QED
  BY <1>1, BundleAssumption DEF BundleAssumption, Broken, Manifests, Indexes, Logs

\* The phase of a handle tells what else it holds.
LEMMA PhaseTells ==
  ASSUME NEW h \in Handles
  PROVE  /\ h.phase = "idle" => h = Idle
         /\ h.phase \in Building => h \in Builders
         /\ h.phase = "opening" => h \in Openers
         /\ h.phase = "mapped" => h \in Mappers
         /\ h.phase = "loaded" => h \in Loaders
         /\ h.phase \in {"open", "flushing"} => h \in Owners
         /\ h.phase \in Building \cup {"idle", "opening", "mapped", "loaded", "open", "flushing"}
BY DEF Handles, Idle, Building, Builders, Openers, Mappers, Loaders, Owners

LEMMA LogsGrow ==
  ASSUME NEW log \in Logs
  PROVE  /\ \A id \in Nat : Deleted(log, id) \in Logs
         /\ \A v \in Nat : Inserted(log, v) \in Logs
<1>1. \A id \in Nat : Deleted(log, id) \in Logs
  BY DEF Logs, LogOf, Deleted
<1>2. \A v \in Nat : Inserted(log, v) \in Logs
  <2> SUFFICES ASSUME NEW v \in Nat PROVE Inserted(log, v) \in Logs
    OBVIOUS
  <2>1. Append(log.inserts, v) \in Seq(Nat) /\ log.nextId + 1 \in Nat
    BY DEF Logs, LogOf
  <2> QED
    BY <2>1 DEF Logs, LogOf, Inserted
<1> QED
  BY <1>1, <1>2

LEMMA NewLogStarts ==
  ASSUME NEW n \in Nat
  PROVE  NewLog(n) \in Logs /\ FirstInsertId(NewLog(n)) = n
<1>1. NewLog(n).nextId = n /\ NewLog(n).inserts = << >> /\ NewLog(n).tombstones = {}
  BY DEF NewLog
<1>2. << >> \in Seq(Nat) /\ Len(<< >>) = 0
  OBVIOUS
<1>3. NewLog(n) \in Logs
  BY <1>2 DEF NewLog, Logs, LogOf
<1> QED
  BY <1>1, <1>2, <1>3 DEF FirstInsertId

\* An insert appends to the log and leaves the ids given before in place.
LEMMA InsertsKeepStart ==
  ASSUME NEW log \in Logs, NEW v \in Nat
  PROVE  /\ FirstInsertId(Inserted(log, v)) = FirstInsertId(log)
         /\ FirstInsertId(log) \in Int
<1> DEFINE count == Len(log.inserts)
<1>1. log.inserts \in Seq(Nat) /\ log.nextId \in Nat /\ count \in Nat
  BY DEF Logs, LogOf
<1>2. Len(Append(log.inserts, v)) = count + 1
  BY <1>1
<1>3. /\ Inserted(log, v).nextId = log.nextId + 1
      /\ Inserted(log, v).inserts = Append(log.inserts, v)
  BY DEF Logs, LogOf, Inserted
<1>4. /\ FirstInsertId(log) = log.nextId - count
      /\ FirstInsertId(Inserted(log, v)) = (log.nextId + 1) - (count + 1)
  BY <1>2, <1>3 DEF FirstInsertId
<1>5. \A a, b \in Int : (a + 1) - (b + 1) = a - b /\ a - b \in Int
  OBVIOUS
<1> HIDE DEF count
<1>6. /\ (log.nextId + 1) - (count + 1) = log.nextId - count
      /\ log.nextId - count \in Int
  BY <1>1, <1>5
<1> QED
  BY <1>4, <1>6

LEMMA TypedHolds == Typed /\ [Next]_vars => Typed'
<1> SUFFICES ASSUME Typed, [Next]_vars PROVE Typed'
  OBVIOUS
<1> USE MarksAreNoContent
<1>1. ASSUME NEW p \in Proc, Build(p) PROVE Typed'
  <2>1. handle[p] \in Handles
    BY DEF Typed
  <2>2. CASE \E b \in Backends, n \in StoreLens : BeginBuild(p, b, n)
    BY <2>2 DEF Typed, BeginBuild, Broken, Handles, Builders, Building
  <2>3. CASE FinishStore(p)
    BY <2>1, <2>3, PhaseTells DEF Typed, FinishStore, Goto, Broken, Handles, Builders, Building,
       Stores, history
  <2>4. CASE CreateIndex(p)
    BY <2>1, <2>4, PhaseTells DEF Typed, CreateIndex, Goto, Broken, Handles, Builders, Building, history
  <2>5. CASE SaveIndex(p)
    BY <2>1, <2>5, PhaseTells DEF Typed, SaveIndex, Goto, Broken, Handles, Builders, Building,
       Indexes, history
  <2>6. CASE TruncateManifest(p)
    BY <2>1, <2>6, PhaseTells DEF Typed, TruncateManifest, Goto, Broken, Handles, Builders, Building, history
  <2>7. CASE WriteManifest(p)
    BY <2>1, <2>7, PhaseTells DEF Typed, WriteManifest, Broken, Handles, Builders, Building,
       Manifests, history
  <2> QED
    BY <1>1, <2>2, <2>3, <2>4, <2>5, <2>6, <2>7 DEF Build
<1>2. ASSUME NEW p \in Proc, Open(p) PROVE Typed'
  <2>1. handle[p] \in Handles
    BY DEF Typed
  <2>2. CASE ReadManifest(p)
    BY <2>2 DEF Typed, ReadManifest, Handles, Openers, files, history
  <2>3. CASE OpenStore(p)
    <3>1. handle[p] \in Openers
      BY <2>1, <2>3, PhaseTells DEF OpenStore
    <3>2. handle'[p] = Idle \/ handle'[p] \in Mappers
      BY <2>3, <3>1 DEF Typed, OpenStore, Openers, Mappers
    <3> QED
      BY <2>3, <3>2 DEF Typed, OpenStore, Handles, files, history
  <2>4. CASE LoadIndex(p)
    <3>1. handle[p] \in Mappers
      BY <2>1, <2>4, PhaseTells DEF LoadIndex
    <3>2. index \notin Broken => [phase |-> "loaded", manifest |-> handle[p].manifest,
                                   store |-> handle[p].store, index |-> index] \in Loaders
      BY <3>1 DEF Typed, Mappers, Loaders
    <3>3. handle'[p] = Idle \/ handle'[p] \in Loaders
      BY <2>4, <3>2 DEF Typed, LoadIndex
    <3> QED
      BY <2>4, <3>3 DEF Typed, LoadIndex, Handles, files, history
  <2>5. CASE LoadLog(p)
    <3>1. handle[p] \in Loaders
      BY <2>1, <2>5, PhaseTells DEF LoadLog
    <3>2. NewLog(handle[p].store.len) \in Logs
      <4>1. handle[p].store.len \in Nat
        BY <3>1 DEF Loaders, Stores
      <4> QED
        BY <4>1, NewLogStarts
    <3>3. \A log \in Logs : Opened(p, log) \in Owners
      BY <3>1 DEF Loaders, Owners, Opened
    <3>4. handle'[p] \in Handles
      <4>1. CASE logFile = Absent
        BY <2>5, <3>2, <3>3, <4>1 DEF LoadLog, Typed, Handles
      <4>2. CASE logFile \in {Empty, Torn}
        BY <2>5, <4>2 DEF LoadLog, Typed, Handles
      <4>3. CASE logFile \in Logs
        BY <2>5, <3>3, <4>3 DEF LoadLog, Typed, Handles, Broken
      <4> QED
        BY <4>1, <4>2, <4>3 DEF Typed, Broken
    <3> QED
      BY <2>5, <3>4 DEF Typed, LoadLog, files, history
  <2> QED
    BY <1>2, <2>2, <2>3, <2>4, <2>5 DEF Open
<1>3. ASSUME NEW p \in Proc, Edit(p) PROVE Typed'
  <2>1. handle[p] \in Owners
    <3>1. handle[p].phase \in {"open", "flushing"}
      BY <1>3 DEF Edit, Delete, Insert, BeginFlush, EndFlush, FailFlush
    <3> QED
      BY <3>1, PhaseTells DEF Typed
  <2>2. CASE \E id \in Ids : Delete(p, id)
    <3>1. PICK id \in Ids : Delete(p, id)
      BY <2>2
    <3>2. Deleted(handle[p].log, id) \in Logs
      BY <2>1, LogsGrow DEF Owners
    <3>3. handle'[p] \in Owners
      BY <2>1, <3>1, <3>2 DEF Owners, Delete, Typed
    <3> QED
      BY <3>1, <3>3 DEF Typed, Delete, Handles, files, history
  <2>3. CASE Insert(p)
    <3>2. Inserted(handle[p].log, issued + 1) \in Logs
      BY <2>1, LogsGrow DEF Owners, Typed
    <3>3. [id |-> handle[p].log.nextId, vector |-> issued + 1] \in Edits
      BY <2>1 DEF Owners, Logs, LogOf, Edits, Typed
    <3>4. handle'[p] \in Owners
      BY <2>1, <2>3, <3>2, <3>3 DEF Owners, Insert, Typed
    <3> QED
      BY <2>3, <3>4 DEF Typed, Insert, Handles, files
  <2>4. CASE BeginFlush(p)
    BY <2>1, <2>4 DEF Typed, BeginFlush, Goto, Owners, Handles, Broken, history
  <2>5. CASE EndFlush(p)
    BY <2>1, <2>5 DEF Typed, EndFlush, Owners, Handles, Broken
  <2>6. CASE FailFlush(p)
    BY <2>1, <2>6 DEF Typed, FailFlush, Goto, Owners, Handles, Broken, history
  <2> QED
    BY <1>3, <2>2, <2>3, <2>4, <2>5, <2>6 DEF Edit
<1>4. ASSUME NEW p \in Proc, Exit(p) PROVE Typed'
  BY <1>4 DEF Typed, Exit, Handles, Broken, history
<1>5. CASE UNCHANGED vars
  BY <1>5 DEF Typed, vars, files, history
<1> QED
  BY <1>1, <1>2, <1>3, <1>4, <1>5 DEF Next

-----------------------------------------------------------------------------
(* What a step does to the logs: nothing that matters, or one of four.      *)

Quiet == /\ logFile' = logFile \/ logFile' \in {Empty, Torn}
         /\ acked' = acked /\ ackedDeletes' = ackedDeletes
         /\ \A q \in Live' : /\ q \in Live
                             /\ handle'[q].log = handle[q].log
                             /\ handle'[q].fresh = handle[q].fresh
                             /\ handle'[q].freshDeletes = handle[q].freshDeletes

LEMMA StepKinds ==
  ASSUME Typed, [Next]_vars
  PROVE  \/ Quiet
         \/ \E p \in Proc : LoadLog(p)
         \/ \E p \in Editors : (\E id \in Ids : Delete(p, id)) \/ Insert(p) \/ EndFlush(p)
<1>1. handle \in [Proc -> Handles] /\ Editors \subseteq Proc
  BY BundleAssumption DEF Typed, BundleAssumption
<1>2. ASSUME NEW p \in Proc, Build(p) PROVE Quiet
  <2>1. /\ \A q \in Proc : q # p => handle'[q] = handle[q]
        /\ handle'[p].phase \in Building \cup {"idle"}
    BY <1>1, <1>2, PhaseTells DEF Build, BeginBuild, FinishStore, CreateIndex, SaveIndex, TruncateManifest,
       WriteManifest, Goto, Building, Builders, Idle
  <2>2. p \notin Live'
    BY <2>1 DEF Live, Building
  <2>3. UNCHANGED <<logFile, acked, ackedDeletes>>
    BY <1>2 DEF Build, BeginBuild, FinishStore, CreateIndex, SaveIndex, TruncateManifest,
       WriteManifest, history
  <2> QED
    BY <2>1, <2>2, <2>3 DEF Quiet, Live
<1>3. ASSUME NEW p \in Proc, ReadManifest(p) \/ OpenStore(p) \/ LoadIndex(p) PROVE Quiet
  <2>1. /\ \A q \in Proc : q # p => handle'[q] = handle[q]
        /\ UNCHANGED <<logFile, acked, ackedDeletes>>
    BY <1>1, <1>3 DEF ReadManifest, OpenStore, LoadIndex, files, history
  <2>2. handle'[p].phase \in {"idle", "opening", "mapped", "loaded"}
    BY <1>1, <1>3 DEF ReadManifest, OpenStore, LoadIndex, Idle
  <2> QED
    BY <2>1, <2>2 DEF Quiet, Live
<1>4. ASSUME NEW p \in Proc, BeginFlush(p) \/ FailFlush(p) PROVE Quiet
  <2>1. handle[p] \in Owners
    BY <1>1, <1>4, PhaseTells DEF BeginFlush, FailFlush
  <2>2. /\ logFile' = logFile \/ logFile' \in {Empty, Torn}
        /\ acked' = acked /\ ackedDeletes' = ackedDeletes
        /\ \A q \in Proc : q # p => handle'[q] = handle[q]
    BY <1>1, <1>4 DEF BeginFlush, FailFlush, Goto, history
  <2>3. /\ handle'[p].log = handle[p].log /\ handle'[p].fresh = handle[p].fresh
        /\ handle'[p].freshDeletes = handle[p].freshDeletes
    BY <1>1, <1>4, <2>1 DEF BeginFlush, FailFlush, Goto, Owners
  <2>4. p \in Live
    BY <2>1 DEF Owners, Live
  <2> QED
    BY <2>2, <2>3, <2>4 DEF Quiet, Live
<1>5. ASSUME NEW p \in Proc, Exit(p) PROVE Quiet
  <2>1. /\ logFile' = logFile \/ logFile' \in {Empty, Torn}
        /\ acked' = acked /\ ackedDeletes' = ackedDeletes
        /\ \A q \in Proc : q # p => handle'[q] = handle[q]
        /\ handle'[p].phase = "idle"
    BY <1>1, <1>5 DEF Exit, Idle, history
  <2> QED
    BY <2>1 DEF Quiet, Live
<1>6. CASE UNCHANGED vars
  BY <1>6 DEF Quiet, Live, vars, files, history
<1> QED
  BY <1>1, <1>2, <1>3, <1>4, <1>5, <1>6 DEF Next, Open, Edit

-----------------------------------------------------------------------------
(* With one editor, the log on disk and the editor's own have every edit    *)
(* that was acknowledged, and the latter those that are to be.              *)

SingleEditor == \A p, q \in Editors : p = q

Has(log, a) == a.id \in BufferedIds(log) /\ BufferedAt(log, a.id) = a.vector

Covers(log, inserts, deletes) == /\ \A a \in inserts : Has(log, a)
                                 /\ deletes \subseteq log.tombstones

LogKeeps == /\ logFile \notin Broken => Covers(logFile, acked, ackedDeletes)
            /\ logFile = Absent => acked = {} /\ ackedDeletes = {}
            /\ \A p \in Live \cap Editors :
                 Covers(handle[p].log, acked \cup handle[p].fresh,
                        ackedDeletes \cup handle[p].freshDeletes)

\* An insert leaves what the log has where it is, and puts the vector under the next id.
LEMMA InsertsKeep ==
  ASSUME NEW log \in Logs, NEW v \in Nat
  PROVE  /\ \A a \in Edits : Has(log, a) => Has(Inserted(log, v), a)
         /\ Has(Inserted(log, v), [id |-> log.nextId, vector |-> v])
         /\ Inserted(log, v).tombstones = log.tombstones
<1> DEFINE count == Len(log.inserts)
           first == log.nextId - count
<1>1. log.inserts \in Seq(Nat) /\ log.nextId \in Nat /\ count \in Nat
  BY DEF Logs, LogOf
<1>2. /\ Inserted(log, v).nextId = log.nextId + 1
      /\ Inserted(log, v).inserts = Append(log.inserts, v)
      /\ Inserted(log, v).tombstones = log.tombstones
  BY DEF Logs, LogOf, Inserted
<1>3. /\ \A n \in 1 .. count : Append(log.inserts, v)[n] = log.inserts[n]
      /\ Append(log.inserts, v)[count + 1] = v
  BY <1>1
<1>4. FirstInsertId(log) = first /\ FirstInsertId(Inserted(log, v)) = first /\ first \in Int
  <2>1. FirstInsertId(log) = first
    BY DEF FirstInsertId
  <2> QED
    BY <2>1, InsertsKeepStart
<1>5. /\ BufferedIds(log) = first .. log.nextId - 1
      /\ BufferedIds(Inserted(log, v)) = first .. log.nextId
  <2>1. /\ BufferedIds(log) = FirstInsertId(log) .. log.nextId - 1
        /\ BufferedIds(Inserted(log, v)) =
             FirstInsertId(Inserted(log, v)) .. Inserted(log, v).nextId - 1
    BY DEF BufferedIds
  <2>2. Inserted(log, v).nextId - 1 = log.nextId
    BY <1>1, <1>2
  <2> HIDE DEF first
  <2> QED
    BY <1>2, <1>4, <2>1, <2>2
<1>6. \A id : /\ BufferedAt(log, id) = log.inserts[id - first + 1]
              /\ BufferedAt(Inserted(log, v), id) = Append(log.inserts, v)[id - first + 1]
  BY <1>2, <1>4 DEF BufferedAt
<1>7. ASSUME NEW a \in Edits, Has(log, a) PROVE Has(Inserted(log, v), a)
  <2>1. a.id \in first .. log.nextId - 1
    BY <1>5, <1>7 DEF Has
  <2>2. a.id - first + 1 \in 1 .. count /\ a.id \in first .. log.nextId
    BY <1>1, <2>1
  <2> HIDE DEF first, count
  <2> QED
    BY <1>3, <1>5, <1>6, <1>7, <2>2 DEF Has
<1>8. Has(Inserted(log, v), [id |-> log.nextId, vector |-> v])
  <2>1. log.nextId \in first .. log.nextId /\ log.nextId - first + 1 = count + 1
    BY <1>1
  <2> HIDE DEF first, count
  <2> QED
    BY <1>3, <1>5, <1>6, <2>1 DEF Has
<1> QED
  BY <1>2, <1>7, <1>8

LEMMA LogKeepsHolds ==
  ASSUME SingleEditor
  PROVE  Typed /\ LogKeeps /\ [Next]_vars => LogKeeps'
<1> SUFFICES ASSUME Typed, LogKeeps, [Next]_vars PROVE LogKeeps'
  OBVIOUS
<1>1. /\ handle \in [Proc -> Handles] /\ Editors \subseteq Proc
      /\ acked \in SUBSET Edits
  BY BundleAssumption DEF Typed, BundleAssumption
<1>2. CASE Quiet
  BY <1>2, MarksAreNoContent DEF Quiet, LogKeeps, Live, Broken
<1>3. ASSUME NEW p \in Proc, LoadLog(p) PROVE LogKeeps'
  <2>1. /\ UNCHANGED <<logFile, acked, ackedDeletes>>
        /\ \A q \in Proc : q # p => handle'[q] = handle[q]
    BY <1>1, <1>3 DEF LoadLog, files, history
  <2>2. p \in Live' => Covers(handle'[p].log, acked \cup handle'[p].fresh,
                              ackedDeletes \cup handle'[p].freshDeletes)
    <3>1. CASE logFile = Absent
      <4>1. /\ handle'[p].fresh = {} /\ handle'[p].freshDeletes = {}
        BY <1>1, <1>3, <3>1, MarksAreNoContent DEF LoadLog, Opened
      <4> QED
        BY <3>1, <4>1 DEF LogKeeps, Covers
    <3>2. CASE logFile \in {Empty, Torn}
      BY <1>1, <1>3, <3>2, MarksAreNoContent DEF LoadLog, Live, Idle
    <3>3. CASE logFile \notin Broken
      <4>1. /\ handle'[p].log = logFile
            /\ handle'[p].fresh = {} /\ handle'[p].freshDeletes = {}
        BY <1>1, <1>3, <3>3 DEF LoadLog, Opened, Broken
      <4> QED
        BY <3>3, <4>1 DEF LogKeeps
    <3> QED
      BY <3>1, <3>2, <3>3 DEF Broken
  <2> QED
    BY <2>1, <2>2 DEF LogKeeps, Live
<1>4. ASSUME NEW p \in Editors, NEW id \in Ids, Delete(p, id) PROVE LogKeeps'
  <2>1. handle[p] \in Owners
    BY <1>1, <1>4, PhaseTells DEF Delete
  <2>2. /\ handle'[p].log = Deleted(handle[p].log, id) /\ handle'[p].fresh = handle[p].fresh
        /\ handle'[p].freshDeletes = handle[p].freshDeletes \cup {id}
    BY <1>1, <1>4, <2>1 DEF Delete, Owners
  <2>3. /\ handle'[p].log.tombstones = handle[p].log.tombstones \cup {id}
        /\ handle'[p].log.inserts = handle[p].log.inserts
        /\ handle'[p].log.nextId = handle[p].log.nextId
    BY <2>1, <2>2 DEF Deleted, Owners, Logs, LogOf
  <2>4. \A a : Has(handle'[p].log, a) <=> Has(handle[p].log, a)
    BY <2>3 DEF Has, BufferedIds, BufferedAt, FirstInsertId
  <2>5. /\ p \in Live /\ UNCHANGED <<logFile, acked, ackedDeletes>>
        /\ \A q \in Proc : q # p => handle'[q] = handle[q]
    BY <1>1, <1>4 DEF Delete, Live, files, history
  <2>6. Covers(handle'[p].log, acked \cup handle'[p].fresh,
               ackedDeletes \cup handle'[p].freshDeletes)
    BY <2>2, <2>3, <2>4, <2>5 DEF LogKeeps, Covers
  <2> QED
    BY <2>5, <2>6 DEF LogKeeps, Live
<1>5. ASSUME NEW p \in Editors, Insert(p) PROVE LogKeeps'
  <2> DEFINE new == [id |-> handle[p].log.nextId, vector |-> issued + 1]
  <2>1. handle[p] \in Owners /\ issued + 1 \in Nat /\ handle[p].log \in Logs
    BY <1>1, <1>5, PhaseTells DEF Insert, Typed, Owners
  <2>2. /\ handle'[p].log = Inserted(handle[p].log, issued + 1)
        /\ handle'[p].fresh = handle[p].fresh \cup {new}
        /\ handle'[p].freshDeletes = handle[p].freshDeletes
    BY <1>1, <1>5, <2>1 DEF Insert, Owners
  <2>3. /\ p \in Live /\ UNCHANGED <<logFile, acked, ackedDeletes>>
        /\ \A q \in Proc : q # p => handle'[q] = handle[q]
    BY <1>1, <1>5 DEF Insert, Live, files
  <2>4. acked \cup handle[p].fresh \subseteq Edits
    BY <1>1, <2>1 DEF Owners
  <2>5. Covers(handle'[p].log, acked \cup handle'[p].fresh,
               ackedDeletes \cup handle'[p].freshDeletes)
    <3>1. /\ \A a \in acked \cup handle[p].fresh : Has(handle[p].log, a)
          /\ ackedDeletes \cup handle[p].freshDeletes \subseteq handle[p].log.tombstones
      BY <1>5, <2>3 DEF LogKeeps, Covers
    <3>2. /\ \A a \in acked \cup handle[p].fresh : Has(handle'[p].log, a)
          /\ Has(handle'[p].log, new)
          /\ handle'[p].log.tombstones = handle[p].log.tombstones
      BY <2>1, <2>2, <2>4, <3>1, InsertsKeep
    <3> HIDE DEF new
    <3> QED
      BY <2>2, <2>3, <3>1, <3>2 DEF Covers
  <2> QED
    BY <2>3, <2>5 DEF LogKeeps, Live
<1>6. ASSUME NEW p \in Editors, EndFlush(p) PROVE LogKeeps'
  <2>1. handle[p] \in Owners /\ p \in Live /\ p \in Proc
    BY <1>1, <1>6, PhaseTells DEF EndFlush, Live
  <2>2. /\ handle'[p].log = handle[p].log
        /\ handle'[p].fresh = {} /\ handle'[p].freshDeletes = {}
        /\ \A q \in Proc : q # p => handle'[q] = handle[q]
    BY <1>1, <1>6, <2>1 DEF EndFlush, Owners
  <2>3. /\ logFile' \in {handle[p].log, Torn}
        /\ acked' = acked \cup handle[p].fresh
        /\ ackedDeletes' = ackedDeletes \cup handle[p].freshDeletes
    BY <1>6 DEF EndFlush
  <2>4. Covers(handle[p].log, acked', ackedDeletes')
    BY <2>1, <2>3 DEF LogKeeps
  <2>5. logFile' # Absent
    BY <2>1, <2>3, MarksAreNoContent DEF Owners, Broken
  <2>6. \A q \in Live' \cap Editors : q = p
    BY DEF SingleEditor
  <2> QED
    BY <2>2, <2>3, <2>4, <2>5, <2>6 DEF LogKeeps, Broken, Covers
<1> QED
  BY <1>2, <1>3, <1>4, <1>5, <1>6, StepKinds

-----------------------------------------------------------------------------
(* What the manifest of the last build begun stands for comes before it.    *)

\* Store and index are those of the last build begun.
Written == /\ store \notin Broken /\ store.build = builds
           /\ index \notin {Absent, Empty} /\ (index # Torn => index.build = builds)

\* Nobody is to write them again before the next build begins.
Settled == Written /\ \A p \in Proc : handle[p].phase \notin {"storing", "indexing", "saving", "stamping"}

\* The builder in a phase has written this much.
Builds(h) == /\ h.build = builds
             /\ h.phase # "storing" => store \notin Broken /\ store.build = builds
             /\ h.phase \in {"stamping", "stamped"} => Written

Committing ==
  /\ \A p, q \in Proc : handle[p].phase \in Building /\ handle[q].phase \in Building => p = q
  /\ \A p \in Proc : handle[p].phase \in Building => Builds(handle[p])
  /\ manifest \notin Broken => manifest.build <= builds /\ (manifest.build = builds => Settled)

Readers == {"opening", "mapped", "loaded", "open", "flushing"}

\* What a process has read since it read the manifest of the last build begun.
Holds(h) == /\ h.manifest.build <= builds
            /\ h.manifest.build = builds =>
                 /\ Settled
                 /\ h.phase # "opening" => h.store.build = builds
                 /\ h.phase \in {"loaded", "open", "flushing"} => h.index.build = builds

HandlesFit == \A p \in Proc : handle[p].phase \in Readers => Holds(handle[p])

\* A step of a process that leaves the files of the index alone and does not begin to
\* build, or stops building.
LEMMA OthersKeep ==
  ASSUME Typed, Committing, NEW p \in Proc, UNCHANGED <<store, index, builds>>,
         manifest' = manifest \/ manifest' \in Broken,
         \A q \in Proc : q # p => handle'[q] = handle[q],
         handle'[p].phase \notin Building
  PROVE  Committing' /\ (Settled => Settled')
<1>1. \A q \in Proc : handle'[q].phase \in Building => handle'[q] = handle[q] /\ q # p
  OBVIOUS
<1>2. Written' = Written /\ (Settled => Settled')
  <2>1. Written' = Written
    BY DEF Written, Broken
  <2> QED
    BY <1>1, <2>1 DEF Settled, Building
<1>3. \A p1, q1 \in Proc : handle'[p1].phase \in Building /\ handle'[q1].phase \in Building => p1 = q1
  BY <1>1 DEF Committing
<1>4. \A q \in Proc : handle'[q].phase \in Building => Builds(handle[q])'
  <2> SUFFICES ASSUME NEW q \in Proc, handle'[q].phase \in Building PROVE Builds(handle[q])'
    OBVIOUS
  <2>1. handle'[q] = handle[q] /\ Builds(handle[q])
    BY <1>1 DEF Committing
  <2> QED
    BY <1>2, <2>1 DEF Builds, Broken
<1>5. manifest' \notin Broken => manifest'.build <= builds' /\ (manifest'.build = builds' => Settled')
  BY <1>2 DEF Committing, Broken
<1> QED
  BY <1>2, <1>3, <1>4, <1>5 DEF Committing, Broken

\* A step of the one builder.
LEMMA BuilderKeeps ==
  ASSUME Typed, Committing, NEW p \in Proc, handle[p].phase \in Building,
         builds' = builds, manifest' = manifest, handle'[p].build = handle[p].build,
         \A q \in Proc : q # p => handle'[q] = handle[q],
         handle'[p].phase \in Building, Builds(handle[p])',
         handle[p].phase \in {"storing", "indexing", "saving", "stamping"}
  PROVE  Committing'
<1>1. \A q \in Proc : handle'[q].phase \in Building => q = p
  BY DEF Committing
<1>2. ~ Settled
  BY DEF Settled
<1>3. manifest' \notin Broken => manifest'.build <= builds' /\ manifest'.build # builds'
  BY <1>2 DEF Committing, Broken
<1> QED
  BY <1>1, <1>3 DEF Committing, Broken

LEMMA CommittingHolds ==
  ASSUME Typed, Committing, [Next]_vars
  PROVE  Committing' /\ (builds' = builds /\ Settled => Settled') /\ builds' \in {builds, builds + 1}
<1>1. handle \in [Proc -> Handles] /\ Editors \subseteq Proc /\ builds \in Nat
  BY BundleAssumption DEF Typed, BundleAssumption
<1>0. ASSUME NEW p \in Proc, handle[p].phase \in {"storing", "indexing", "saving", "stamping"}
      PROVE  ~ Settled
  BY <1>0 DEF Settled
<1>2. ASSUME NEW p \in Proc, NEW b \in Backends, NEW n \in StoreLens, BeginBuild(p, b, n)
      PROVE  Committing' /\ builds' = builds + 1
  <2>1. /\ handle'[p].phase = "storing" /\ handle'[p].build = builds'
        /\ \A q \in Proc : q # p => handle'[q] = handle[q]
        /\ manifest' = manifest /\ builds' = builds + 1
        /\ \A q \in Proc : handle[q].phase \notin Building
    BY <1>1, <1>2 DEF BeginBuild
  <2>2. \A q \in Proc : handle'[q].phase \in Building => q = p
    BY <2>1
  <2>3. Builds(handle[p])'
    BY <2>1 DEF Builds
  <2>4. manifest' \notin Broken => manifest'.build <= builds' /\ manifest'.build # builds'
    <3>1. manifest \notin Broken => manifest.build \in Nat /\ manifest.build <= builds
      BY DEF Typed, Manifests, Committing
    <3> QED
      BY <1>1, <2>1, <3>1 DEF Broken
  <2> QED
    BY <2>1, <2>2, <2>3, <2>4 DEF Committing, Broken
<1>3. ASSUME NEW p \in Proc, FinishStore(p) PROVE Committing' /\ builds' = builds /\ ~ Settled
  <2>1. /\ handle[p].phase = "storing" /\ handle[p] \in Builders
        /\ \A q \in Proc : q # p => handle'[q] = handle[q]
        /\ UNCHANGED <<manifest, index, builds>>
    BY <1>1, <1>3, PhaseTells DEF FinishStore, Goto, history, Building
  <2>2. handle'[p].phase = "indexing" /\ handle'[p].build = handle[p].build
    BY <1>1, <1>3, <2>1 DEF FinishStore, Goto, Builders
  <2>3. store' \in Stores /\ store'.build = handle[p].build
    BY <1>3, <2>1 DEF FinishStore, Builders, Stores
  <2>4. store' \notin Broken
    BY <2>3, MarksAreNoContent
  <2>5. handle[p].build = builds
    BY <2>1 DEF Committing, Builds, Building
  <2>6. Builds(handle[p])'
    BY <2>1, <2>2, <2>3, <2>4, <2>5 DEF Builds, Broken
  <2> QED
    BY <1>0, <2>1, <2>2, <2>6, BuilderKeeps DEF Building
<1>4. ASSUME NEW p \in Proc, CreateIndex(p) PROVE Committing' /\ builds' = builds /\ ~ Settled
  <2>1. /\ handle[p].phase = "indexing" /\ handle[p] \in Builders
        /\ \A q \in Proc : q # p => handle'[q] = handle[q]
        /\ UNCHANGED <<manifest, store, builds>>
    BY <1>1, <1>4, PhaseTells DEF CreateIndex, Goto, history, Building
  <2>2. handle'[p].phase = "saving" /\ handle'[p].build = handle[p].build
    BY <1>1, <1>4, <2>1 DEF CreateIndex, Goto, Builders
  <2>3. handle[p].build = builds /\ store \notin Broken /\ store.build = builds
    BY <2>1 DEF Committing, Builds, Building
  <2>4. Builds(handle[p])'
    BY <2>1, <2>2, <2>3 DEF Builds, Broken
  <2> QED
    BY <1>0, <2>1, <2>2, <2>4, BuilderKeeps DEF Building
<1>5. ASSUME NEW p \in Proc, SaveIndex(p) PROVE Committing' /\ builds' = builds /\ ~ Settled
  <2>1. /\ handle[p].phase = "saving" /\ handle[p] \in Builders
        /\ \A q \in Proc : q # p => handle'[q] = handle[q]
        /\ UNCHANGED <<manifest, store, builds>>
    BY <1>1, <1>5, PhaseTells DEF SaveIndex, Goto, history, Building
  <2>2. handle'[p].phase = "stamping" /\ handle'[p].build = handle[p].build
    BY <1>1, <1>5, <2>1 DEF SaveIndex, Goto, Builders
  <2>3. handle[p].build = builds /\ store \notin Broken /\ store.build = builds
    BY <2>1 DEF Committing, Builds, Building
  <2>4. index' = Torn \/ (index' \in Indexes /\ index'.build = builds)
    BY <1>5, <2>1, <2>3 DEF SaveIndex, Builders, Indexes
  <2>5. index' \notin {Absent, Empty}
    BY <2>4, MarksAreNoContent DEF Broken
  <2>6. Builds(handle[p])'
    BY <2>1, <2>2, <2>3, <2>4, <2>5 DEF Builds, Written, Broken
  <2> QED
    BY <1>0, <2>1, <2>2, <2>6, BuilderKeeps DEF Building
<1>6. ASSUME NEW p \in Proc, TruncateManifest(p) PROVE Committing' /\ builds' = builds /\ ~ Settled
  <2>1. /\ handle[p].phase = "stamping" /\ handle[p] \in Builders
        /\ \A q \in Proc : q # p => handle'[q] = handle[q]
        /\ manifest' = Empty /\ UNCHANGED <<index, store, builds>>
    BY <1>1, <1>6, PhaseTells DEF TruncateManifest, Goto, history, Building
  <2>2. handle'[p].phase = "stamped" /\ handle'[p].build = handle[p].build
    BY <1>1, <1>6, <2>1 DEF TruncateManifest, Goto, Builders
  <2>3. Builds(handle[p])'
    <3>1. Builds(handle[p])
      BY <2>1 DEF Committing, Building
    <3> QED
      BY <2>1, <2>2, <3>1 DEF Builds, Written, Broken
  <2>4. \A q \in Proc : handle'[q].phase \in Building => q = p
    BY <2>1 DEF Committing, Building
  <2>5. manifest' \in Broken
    BY <2>1 DEF Broken
  <2> QED
    BY <1>0, <2>1, <2>3, <2>4, <2>5 DEF Committing, Broken
<1>7. ASSUME NEW p \in Proc, WriteManifest(p)
      PROVE  Committing' /\ builds' = builds /\ (Settled => Settled')
  <2>1. /\ handle[p].phase = "stamped" /\ handle[p] \in Builders
        /\ handle'[p].phase = "idle"
        /\ \A q \in Proc : q # p => handle'[q] = handle[q]
        /\ UNCHANGED <<index, store, builds>>
        /\ manifest' = [build |-> handle[p].build, backend |-> handle[p].backend]
    BY <1>1, <1>7, PhaseTells DEF WriteManifest, history, Idle, Building
  <2>2. \A q \in Proc : handle'[q].phase \notin Building
    BY <2>1 DEF Committing, Building
  <2>3. handle[p].build = builds /\ Written
    BY <2>1 DEF Committing, Builds, Building
  <2>4. Settled'
    BY <2>1, <2>2, <2>3 DEF Settled, Written, Building, Broken
  <2>5. manifest'.build = builds'
    BY <2>1, <2>3
  <2> QED
    BY <1>1, <2>1, <2>2, <2>4, <2>5 DEF Committing
<1>8. ASSUME NEW p \in Proc, Exit(p)
      PROVE  Committing' /\ builds' = builds /\ (Settled => Settled')
  <2>1. /\ handle'[p].phase = "idle"
        /\ \A q \in Proc : q # p => handle'[q] = handle[q]
        /\ UNCHANGED <<store, builds>>
        /\ manifest' = manifest \/ manifest' \in Broken
    BY <1>1, <1>8 DEF Exit, history, Idle, Broken
  <2>2. CASE index' = index
    BY <2>1, <2>2, OthersKeep DEF Building
  <2>3. CASE index' # index
    <3>1. handle[p].phase = "saving" /\ index' = Torn /\ manifest' = manifest
      BY <1>8, <2>3 DEF Exit
    <3>2. \A q \in Proc : handle'[q].phase \notin Building
      BY <2>1, <3>1 DEF Committing, Building
    <3>3. manifest' \notin Broken => manifest'.build <= builds' /\ manifest'.build # builds'
      BY <1>0, <2>1, <3>1 DEF Committing, Broken
    <3> QED
      BY <1>0, <2>1, <3>1, <3>2, <3>3 DEF Committing, Broken
  <2> QED
    BY <2>1, <2>2, <2>3
<1>9. ASSUME NEW p \in Proc, Open(p) \/ Edit(p)
      PROVE  Committing' /\ builds' = builds /\ (Settled => Settled')
  <2>1. /\ handle[p].phase \notin Building
        /\ \A q \in Proc : q # p => handle'[q] = handle[q]
        /\ UNCHANGED <<manifest, store, index, builds>>
    <3>1. CASE Open(p)
      BY <1>1, <3>1 DEF Open, ReadManifest, OpenStore, LoadIndex, LoadLog, files, history,
         Building, Idle
    <3>2. CASE Edit(p)
      BY <1>1, <3>2 DEF Edit, Delete, Insert, BeginFlush, EndFlush, FailFlush, Goto, files,
         history, Building
    <3> QED
      BY <1>9, <3>1, <3>2
  <2>2. handle'[p].phase \notin Building
    <3>1. CASE Open(p)
      BY <1>1, <3>1 DEF Open, ReadManifest, OpenStore, LoadIndex, LoadLog, Opened, Building, Idle
    <3>2. CASE Edit(p)
      <4>1. handle[p] \in Owners
        BY <1>1, <3>2, PhaseTells DEF Edit, Delete, Insert, BeginFlush, EndFlush, FailFlush
      <4>2. CASE Insert(p) \/ \E id \in Ids : Delete(p, id)
        <5>1. PICK h \in Owners : h = handle[p] /\ h.phase = "open"
          BY <4>1, <4>2 DEF Insert, Delete
        <5>2. p \in DOMAIN handle
          BY <1>1
        <5>3. \E log, fresh, dels : handle'[p] = [h EXCEPT !.log = log, !.fresh = fresh,
                                                           !.freshDeletes = dels]
          <6>1. CASE Insert(p)
            <7>1. handle'[p] = [h EXCEPT !.log = Inserted(h.log, issued + 1),
                    !.fresh = @ \cup {[id |-> h.log.nextId, vector |-> issued + 1]},
                    !.freshDeletes = h.freshDeletes]
              BY <5>1, <5>2, <6>1 DEF Insert, Owners
            <7> QED
              BY <7>1
          <6>2. ASSUME NEW id \in Ids, Delete(p, id)
                PROVE  \E log, fresh, dels :
                         handle'[p] = [h EXCEPT !.log = log, !.fresh = fresh,
                                                !.freshDeletes = dels]
            <7>1. handle'[p] = [h EXCEPT !.log = Deleted(h.log, id), !.fresh = h.fresh,
                                         !.freshDeletes = @ \cup {id}]
              BY <5>1, <5>2, <6>2 DEF Delete, Owners
            <7> QED
              BY <7>1
          <6> QED
            BY <4>2, <6>1, <6>2
        <5> QED
          BY <5>1, <5>3 DEF Owners, Building
      <4>3. CASE BeginFlush(p) \/ EndFlush(p) \/ FailFlush(p)
        BY <1>1, <4>1, <4>3 DEF BeginFlush, EndFlush, FailFlush, Goto, Owners, Building
      <4> QED
        BY <3>2, <4>2, <4>3 DEF Edit
    <3> QED
      BY <1>9, <3>1, <3>2
  <2> QED
    BY <2>1, <2>2, OthersKeep
<1>10. CASE UNCHANGED vars
  <2>1. UNCHANGED <<manifest, store, index, handle, builds>>
    BY <1>10 DEF vars, files, history
  <2> QED
    BY <2>1 DEF Committing, Builds, Settled, Written, Broken
<1> QED
  BY <1>1, <1>2, <1>3, <1>4, <1>5, <1>6, <1>7, <1>8, <1>9, <1>10 DEF Next, Build

\* The parts of the directory that a handle has read it keeps.
Same(q) == /\ handle[q].phase \in Readers
           /\ handle'[q].manifest = handle[q].manifest
           /\ handle'[q].phase \in {"opening"} <=> handle[q].phase \in {"opening"}
           /\ handle[q].phase # "opening" => handle'[q].store = handle[q].store
           /\ handle'[q].phase \in {"loaded", "open", "flushing"} =>
                /\ handle[q].phase \in {"loaded", "open", "flushing"}
                /\ handle'[q].index = handle[q].index

LEMMA HandlesHold == Typed /\ Committing /\ HandlesFit /\ [Next]_vars => HandlesFit'
<1> SUFFICES ASSUME Typed, Committing, HandlesFit, [Next]_vars, NEW q \in Proc,
                    handle'[q].phase \in Readers
             PROVE  Holds(handle[q])'
  BY DEF HandlesFit
<1>1. /\ handle \in [Proc -> Handles] /\ builds \in Nat
      /\ builds' \in {builds, builds + 1} /\ (builds' = builds /\ Settled => Settled')
  BY CommittingHolds DEF Typed
<1>2. ASSUME Same(q) PROVE Holds(handle[q])'
  <2>1. Holds(handle[q]) /\ handle[q].manifest.build \in Nat
    <3>1. handle[q].phase \in Readers /\ handle[q] \in Handles
      BY <1>1, <1>2 DEF Same
    <3>2. handle[q].manifest \in Manifests
      BY <3>1, PhaseTells DEF Readers, Openers, Mappers, Loaders, Owners
    <3> QED
      BY <3>1, <3>2 DEF HandlesFit, Manifests
  <2>2. CASE builds' = builds
    BY <1>1, <1>2, <2>1, <2>2 DEF Holds, Same
  <2>3. CASE builds' = builds + 1
    <3>1. handle'[q].manifest.build <= builds' /\ handle'[q].manifest.build # builds'
      BY <1>1, <1>2, <2>1, <2>3 DEF Holds, Same
    <3> QED
      BY <3>1 DEF Holds
  <2> QED
    BY <1>1, <2>2, <2>3
<1>3. ASSUME handle'[q] = handle[q] PROVE Holds(handle[q])'
  BY <1>2, <1>3 DEF Same
<1>4. ASSUME NEW p \in Proc, Build(p) PROVE Holds(handle[q])'
  <2>1. handle'[p].phase \in Building \cup {"idle"} /\ (p # q => handle'[q] = handle[q])
    BY <1>1, <1>4, PhaseTells DEF Build, BeginBuild, FinishStore, CreateIndex, SaveIndex, TruncateManifest,
       WriteManifest, Goto, Building, Builders, Idle
  <2>2. p # q
    BY <2>1 DEF Building, Readers
  <2> QED
    BY <1>3, <2>1, <2>2
<1>5. ASSUME NEW p \in Proc, Open(p) PROVE Holds(handle[q])'
  <2>1. CASE p # q
    <3>1. handle'[q] = handle[q]
      BY <1>1, <1>5, <2>1 DEF Open, ReadManifest, OpenStore, LoadIndex, LoadLog
    <3> QED
      BY <1>3, <3>1
  <2>2. UNCHANGED <<manifest, store, index, builds>>
    BY <1>5 DEF Open, ReadManifest, OpenStore, LoadIndex, LoadLog, files, history
  <2>3. CASE p = q /\ ReadManifest(p)
    <3>1. handle'[q].phase = "opening" /\ handle'[q].manifest = manifest /\ manifest \notin Broken
      BY <1>1, <2>3 DEF ReadManifest
    <3>2. manifest.build <= builds /\ (manifest.build = builds => Settled)
      BY <3>1 DEF Committing
    <3> QED
      BY <1>1, <2>2, <3>1, <3>2 DEF Holds
  <2>4. CASE p = q /\ OpenStore(p)
    <3>1. /\ handle[q].phase = "opening"
          /\ handle'[q].phase = "mapped" /\ handle'[q].manifest = handle[q].manifest
          /\ handle'[q].store = store
      BY <1>1, <2>4 DEF OpenStore, Idle, Readers
    <3>2. Holds(handle[q])
      BY <3>1 DEF HandlesFit, Readers
    <3> QED
      BY <1>1, <2>2, <3>1, <3>2 DEF Holds, Settled, Written
  <2>5. CASE p = q /\ LoadIndex(p)
    <3>1. /\ handle[q].phase = "mapped" /\ index \notin Broken
          /\ handle'[q].phase = "loaded" /\ handle'[q].manifest = handle[q].manifest
          /\ handle'[q].store = handle[q].store /\ handle'[q].index = index
      BY <1>1, <2>5 DEF LoadIndex, Idle, Readers
    <3>2. Holds(handle[q])
      BY <3>1 DEF HandlesFit, Readers
    <3>3. Settled => index.build = builds
      BY <3>1 DEF Settled, Written, Broken
    <3> QED
      BY <1>1, <2>2, <3>1, <3>2, <3>3 DEF Holds
  <2>6. CASE p = q /\ LoadLog(p)
    <3>1. handle[q].phase = "loaded" /\ \E log : handle'[q] = Opened(q, log)
      BY <1>1, <2>6 DEF LoadLog, Idle, Readers
    <3>2. PICK log : handle'[q] = Opened(q, log)
      BY <3>1
    <3>3. /\ handle'[q].phase = "open" /\ handle'[q].manifest = handle[q].manifest
          /\ handle'[q].store = handle[q].store /\ handle'[q].index = handle[q].index
      BY <3>2 DEF Opened
    <3>4. Same(q)
      BY <3>1, <3>3 DEF Same, Readers
    <3> QED
      BY <1>2, <3>4
  <2> QED
    BY <1>5, <2>1, <2>3, <2>4, <2>5, <2>6 DEF Open
<1>6. ASSUME NEW p \in Proc, Edit(p) PROVE Holds(handle[q])'
  <2>1. handle[p] \in Owners /\ handle[p].phase \in {"open", "flushing"}
    <3>1. handle[p].phase \in {"open", "flushing"}
      BY <1>6 DEF Edit, Delete, Insert, BeginFlush, EndFlush, FailFlush
    <3> QED
      BY <1>1, <3>1, PhaseTells
  <2>2. p # q => handle'[q] = handle[q]
    BY <1>1, <1>6 DEF Edit, Delete, Insert, BeginFlush, EndFlush, FailFlush, Goto
  <2>3. /\ handle'[p].index = handle[p].index /\ handle'[p].manifest = handle[p].manifest
        /\ handle'[p].store = handle[p].store /\ handle'[p].phase \in {"open", "flushing"}
    <3>1. CASE Insert(p)
      BY <1>1, <2>1, <3>1 DEF Insert, Owners
    <3>2. CASE \E id \in Ids : Delete(p, id)
      BY <1>1, <2>1, <3>2 DEF Delete, Owners
    <3>3. CASE BeginFlush(p)
      BY <1>1, <2>1, <3>3 DEF BeginFlush, Goto, Owners
    <3>4. CASE EndFlush(p)
      BY <1>1, <2>1, <3>4 DEF EndFlush, Owners
    <3>5. CASE FailFlush(p)
      BY <1>1, <2>1, <3>5 DEF FailFlush, Goto, Owners
    <3> QED
      BY <1>6, <3>1, <3>2, <3>3, <3>4, <3>5 DEF Edit
  <2>4. p = q => Same(q)
    BY <2>1, <2>3 DEF Same, Readers
  <2> QED
    BY <1>2, <1>3, <2>2, <2>4
<1>7. ASSUME NEW p \in Proc, Exit(p) PROVE Holds(handle[q])'
  <2>1. handle'[q] = handle[q]
    BY <1>1, <1>7 DEF Exit, Idle, Readers
  <2> QED
    BY <1>3, <2>1
<1>8. CASE UNCHANGED vars
  BY <1>3, <1>8 DEF vars
<1> QED
  BY <1>4, <1>5, <1>6, <1>7, <1>8 DEF Next

-----------------------------------------------------------------------------

LEMMA InitHolds == Init => Typed /\ LogKeeps /\ Committing /\ HandlesFit
<1> SUFFICES ASSUME Init PROVE Typed /\ LogKeeps /\ Committing /\ HandlesFit
  OBVIOUS
<1>1. Typed
  BY DEF Init, Typed, Handles, Broken
<1>2. \A p \in Proc : handle[p].phase = "idle"
  BY DEF Init, Idle
<1>3. Live = {}
  BY <1>2 DEF Live
<1> QED
  BY <1>1, <1>2, <1>3, MarksAreNoContent
  DEF Init, LogKeeps, Committing, HandlesFit, Readers, Broken, Building

LEMMA BundleTyped == Spec => []Typed
<1> QED
  BY InitHolds, TypedHolds, PTL DEF Spec

LEMMA Commits == Spec => []Committing
<1>1. Typed /\ Committing /\ [Next]_vars => Committing'
  BY CommittingHolds
<1> QED
  BY <1>1, InitHolds, BundleTyped, PTL DEF Spec

\* build_bundle, open_bundle: whatever builds and deaths come between the reads of an open,
\* and between them and the end of the handle, a handle on the manifest of the last build
\* begun has the store and the index of that build.
THEOREM LatestHandlesAreWhole == Spec => []LatestManifestMixesNothing
<1>1. HandlesFit => LatestManifestMixesNothing
  BY DEF HandlesFit, Holds, Readers, LatestManifestMixesNothing, Live
<1> QED
  BY <1>1, InitHolds, HandlesHold, Commits, BundleTyped, PTL DEF Spec

\* Bundle::flush: with one editor, a flushed insert keeps its id and its vector, through
\* failed flushes, crashes, rebuilds and reopens, in every log that can be read.
THEOREM FlushedInsertsStay == ASSUME SingleEditor PROVE Spec => []StableIds
<1>1. LogKeeps => StableIds
  BY DEF LogKeeps, Covers, Has, StableIds
<1>2. Typed /\ LogKeeps /\ [Next]_vars => LogKeeps'
  BY LogKeepsHolds
<1> QED
  BY <1>1, <1>2, InitHolds, BundleTyped, PTL DEF Spec

\* Bundle::flush: with one editor, a flushed delete is in every log that can be read.
THEOREM FlushedDeletesStay == ASSUME SingleEditor PROVE Spec => []DeletesStay
<1>1. LogKeeps => DeletesStay
  BY DEF LogKeeps, Covers, DeletesStay
<1>2. Typed /\ LogKeeps /\ [Next]_vars => LogKeeps'
  BY LogKeepsHolds
<1> QED
  BY <1>1, <1>2, InitHolds, BundleTyped, PTL DEF Spec

\* build_bundle: wherever builds die, the manifest of the last one begun can be read only
\* when the store and the index that it stands for have been written, and no others.
THEOREM ManifestCommits == Spec => []ManifestIsCommitPoint
<1>1. Committing => ManifestIsCommitPoint
  BY DEF Committing, Settled, Written, ManifestIsCommitPoint
<1> QED
  BY <1>1, Commits, PTL
=============================================================================
