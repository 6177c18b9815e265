------------------------------- MODULE Bundle -------------------------------
(***************************************************************************)
(* The life of a bundle directory: `slate build` (build_bundle), handles    *)
(* opened on it (open_bundle), deletes and inserts in a handle's log, and   *)
(* the flush that rewrites updates.json.  Nothing locks the directory, so   *)
(* any number of processes may do this at once, and each may die between    *)
(* any two steps.                                                          *)
(*                                                                         *)
(* A file is abstracted to what a reader can tell about it.  Each build has *)
(* a number; the store and the index of one build carry it, although        *)
(* neither file does.                                                      *)
(***************************************************************************)
EXTENDS UpdateLog, FiniteSets

CONSTANTS Proc,          \* processes, each with at most one handle
          Editors,       \* those that delete and insert; the others build and read
          Backends,      \* index backends a build may choose
          StoreLens,     \* numbers of vectors a build may store
          Ids,           \* ids that may be deleted
          MaxBuilds,     \* bound: builds begun
          MaxInserts,    \* bound: vectors inserted, all processes together
          Absent,        \* a file that does not exist
          Empty,         \* a file created or truncated, nothing written yet
          Torn           \* a file that holds what no writer meant: none is accepted

ASSUME BundleAssumption ==
  /\ Editors \subseteq Proc
  /\ StoreLens \subseteq Nat /\ Ids \subseteq Nat
  /\ MaxBuilds \in Nat /\ MaxInserts \in Nat
  \* Three states of a file that differ, and none of which is what a writer writes.
  /\ Absent # Empty /\ Absent # Torn /\ Empty # Torn
  /\ \A mark \in {Absent, Empty, Torn} :
       /\ mark \notin [build : Nat, backend : Backends]
       /\ mark \notin [build : Nat, len : Nat]
       /\ mark \notin LogOf(Nat, Nat)

Broken == {Absent, Empty, Torn}

VARIABLES manifest,      \* manifest.json: [build, backend]
          store,         \* vectors.svec: [build, len]
          index,         \* index.sidx: [build, backend]
          logFile,       \* updates.json: a log
          handle,        \* what a process holds
          builds,        \* builds begun so far
          issued,        \* vectors inserted so far: vector n is the n-th
          acked,         \* [id, vector] of the inserts flushed with success
          ackedDeletes   \* ids whose delete was flushed with success

files == <<manifest, store, index, logFile>>
history == <<builds, issued, acked, ackedDeletes>>
vars == <<files, handle, history>>

Idle == [phase |-> "idle"]

Init == /\ manifest = Absent /\ store = Absent /\ index = Absent /\ logFile = Absent
        /\ handle = [p \in Proc |-> Idle]
        /\ builds = 0 /\ issued = 0 /\ acked = {} /\ ackedDeletes = {}

Goto(p, phase) == handle' = [handle EXCEPT ![p].phase = phase]

-----------------------------------------------------------------------------
(* build_bundle: store, index, manifest, in this order.  updates.json is    *)
(* left as it is.                                                          *)

Building == {"storing", "indexing", "saving", "stamping", "stamped"}

\* A slip: the manifest is written first.
BeginBuildStamped(p, backend, len) ==
  /\ handle[p] = Idle
  /\ \A q \in Proc : handle[q].phase \notin Building
  /\ builds < MaxBuilds
  /\ builds' = builds + 1
  /\ store' = Empty /\ manifest' = [build |-> builds + 1, backend |-> backend]
  /\ handle' = [handle EXCEPT ![p] = [phase |-> "storing", build |-> builds + 1,
                                      backend |-> backend, len |-> len]]
  /\ UNCHANGED <<index, logFile, issued, acked, ackedDeletes>>

\* StoreWriter::create truncates the store and writes a zero header.  Two builds
\* into one directory at once are not modelled.
BeginBuild(p, backend, len) ==
  /\ handle[p] = Idle
  /\ \A q \in Proc : handle[q].phase \notin Building
  /\ builds < MaxBuilds
  /\ builds' = builds + 1
  /\ store' = Empty
  /\ handle' = [handle EXCEPT ![p] = [phase |-> "storing", build |-> builds + 1,
                                      backend |-> backend, len |-> len]]
  /\ UNCHANGED <<manifest, index, logFile, issued, acked, ackedDeletes>>

\* writer.finish() puts the real header in place; then the index is built.
FinishStore(p) ==
  /\ handle[p].phase = "storing"
  /\ store' = [build |-> handle[p].build, len |-> handle[p].len]
  /\ Goto(p, "indexing")
  /\ UNCHANGED <<manifest, index, logFile, history>>

\* A slip: the manifest is written before the index.
StampThenCreateIndex(p) ==
  /\ handle[p].phase = "indexing"
  /\ manifest' = [build |-> handle[p].build, backend |-> handle[p].backend]
  /\ index' = Empty
  /\ Goto(p, "saving")
  /\ UNCHANGED <<store, logFile, history>>

\* save_index creates index.sidx.
CreateIndex(p) ==
  /\ handle[p].phase = "indexing"
  /\ index' = Empty
  /\ Goto(p, "saving")
  /\ UNCHANGED <<manifest, store, logFile, history>>

\* The frame goes through a BufWriter that is dropped, not flushed: if the last
\* write fails nobody hears of it, and the file is left torn.
SaveIndex(p) ==
  /\ handle[p].phase = "saving"
  /\ index' \in {[build |-> handle[p].build, backend |-> handle[p].backend], Torn}
  /\ Goto(p, "stamping")
  /\ UNCHANGED <<manifest, store, logFile, history>>

\* write_manifest: std::fs::write truncates, then writes.
TruncateManifest(p) ==
  /\ handle[p].phase = "stamping"
  /\ manifest' = Empty
  /\ Goto(p, "stamped")
  /\ UNCHANGED <<store, index, logFile, history>>

WriteManifest(p) ==
  /\ handle[p].phase = "stamped"
  /\ manifest' = [build |-> handle[p].build, backend |-> handle[p].backend]
  /\ handle' = [handle EXCEPT ![p] = Idle]
  /\ UNCHANGED <<store, index, logFile, history>>

-----------------------------------------------------------------------------
(* open_bundle reads four files one after the other.  Any of them missing,  *)
(* torn or of the wrong backend makes it return an error.                  *)

ReadManifest(p) ==
  /\ handle[p] = Idle
  /\ manifest \notin Broken
  /\ handle' = [handle EXCEPT ![p] = [phase |-> "opening", manifest |-> manifest]]
  /\ UNCHANGED <<files, history>>

OpenStore(p) ==
  /\ handle[p].phase = "opening"
  /\ IF store \in Broken
       THEN handle' = [handle EXCEPT ![p] = Idle]
       ELSE handle' = [handle EXCEPT ![p] = [phase |-> "mapped",
                         manifest |-> handle[p].manifest, store |-> store]]
  /\ UNCHANGED <<files, history>>

LoadIndex(p) ==
  /\ handle[p].phase = "mapped"
  /\ IF index \in Broken \/ index.backend # handle[p].manifest.backend
       THEN handle' = [handle EXCEPT ![p] = Idle]
       ELSE handle' = [handle EXCEPT ![p] = [phase |-> "loaded",
                         manifest |-> handle[p].manifest, store |-> handle[p].store,
                         index |-> index]]
  /\ UNCHANGED <<files, history>>

Opened(p, log) ==
  [phase |-> "open", manifest |-> handle[p].manifest, store |-> handle[p].store,
   index |-> handle[p].index, log |-> log, fresh |-> {}, freshDeletes |-> {}]

\* A slip: a log that cannot be read is replaced by a fresh one.
LoadLogOrNew(p) ==
  /\ handle[p].phase = "loaded"
  /\ handle' = [handle EXCEPT ![p] =
       IF logFile \in Broken THEN Opened(p, NewLog(handle[p].store.len))
                             ELSE Opened(p, logFile)]
  /\ UNCHANGED <<files, history>>

\* UpdateLog::load: a fresh log only if the file is absent.
LoadLog(p) ==
  /\ handle[p].phase = "loaded"
  /\ handle' = [handle EXCEPT ![p] =
       CASE logFile = Absent -> Opened(p, NewLog(handle[p].store.len))
         [] logFile \in {Empty, Torn} -> Idle
         [] OTHER -> Opened(p, logFile)]
  /\ UNCHANGED <<files, history>>

-----------------------------------------------------------------------------
(* Edits in memory, and the flush that makes them durable.                  *)

Delete(p, id) ==
  /\ handle[p].phase = "open"
  /\ handle' = [handle EXCEPT ![p].log = Deleted(@, id),
                              ![p].freshDeletes = @ \cup {id}]
  /\ UNCHANGED <<files, history>>

\* Bundle::insert.  A vector of the wrong dimension is refused, and changes nothing.
Insert(p) ==
  /\ handle[p].phase = "open"
  /\ issued < MaxInserts
  /\ issued' = issued + 1
  /\ handle' = [handle EXCEPT
       ![p].log = Inserted(@, issued + 1),
       ![p].fresh = @ \cup {[id |-> handle[p].log.nextId, vector |-> issued + 1]}]
  /\ UNCHANGED <<files, builds, acked, ackedDeletes>>

\* Bundle::flush: std::fs::write truncates updates.json ...
BeginFlush(p) ==
  /\ handle[p].phase = "open"
  /\ logFile' = Empty
  /\ Goto(p, "flushing")
  /\ UNCHANGED <<manifest, store, index, history>>

\* ... and writes from its start.  If another process wrote in between, the
\* longer of the two texts sticks out and the file may be malformed.
EndFlush(p) ==
  /\ handle[p].phase = "flushing"
  /\ logFile' \in IF logFile = Empty THEN {handle[p].log} ELSE {handle[p].log, Torn}
  /\ handle' = [handle EXCEPT ![p].phase = "open", ![p].fresh = {}, ![p].freshDeletes = {}]
  /\ acked' = acked \cup handle[p].fresh
  /\ ackedDeletes' = ackedDeletes \cup handle[p].freshDeletes
  /\ UNCHANGED <<manifest, store, index, builds, issued>>

\* The write fails: flush returns the error and the handle lives on.
FailFlush(p) ==
  /\ handle[p].phase = "flushing"
  /\ logFile' \in {logFile, Torn}
  /\ Goto(p, "open")
  /\ UNCHANGED <<manifest, store, index, history>>

\* The handle is dropped, the command fails, or the process dies.
Exit(p) ==
  /\ handle[p] # Idle
  /\ handle' = [handle EXCEPT ![p] = Idle]
  /\ logFile' \in IF handle[p].phase = "flushing" THEN {logFile, Torn} ELSE {logFile}
  /\ index' \in IF handle[p].phase = "saving" THEN {index, Torn} ELSE {index}
  /\ manifest' \in IF handle[p].phase = "stamped" THEN {manifest, Torn} ELSE {manifest}
  /\ UNCHANGED <<store, history>>

Build(p) == \/ \E b \in Backends, n \in StoreLens : BeginBuild(p, b, n)
            \/ FinishStore(p) \/ CreateIndex(p) \/ SaveIndex(p)
            \/ TruncateManifest(p) \/ WriteManifest(p)

Open(p) == ReadManifest(p) \/ OpenStore(p) \/ LoadIndex(p) \/ LoadLog(p)

Edit(p) == \/ \E id \in Ids : Delete(p, id)
           \/ Insert(p) \/ BeginFlush(p) \/ EndFlush(p) \/ FailFlush(p)

Next == \E p \in Proc : \/ Build(p) \/ Open(p) \/ Exit(p)
                        \/ p \in Editors /\ Edit(p)

Spec == Init /\ [][Next]_vars

-----------------------------------------------------------------------------
(* Properties.  A broken updates.json is refused by open_bundle, so what is *)
(* asked of the log is asked of a log that can be read.                     *)

Live == {p \in Proc : handle[p].phase \in {"open", "flushing"}}

\* A vector whose insert was flushed stays under the id it was given, across
\* every later edit, flush, failed flush, crash and reopen.
StableIds ==
  logFile \notin Broken =>
    \A a \in acked : /\ a.id \in BufferedIds(logFile)
                     /\ BufferedAt(logFile, a.id) = a.vector

\* A flushed delete stays: no later flush brings the vector back.
DeletesStay == logFile \notin Broken => ackedDeletes \subseteq logFile.tombstones

\* The manifest is the commit point of a build: once that of the last build begun can
\* be read, store and index are those of the same build, and what a lost write may
\* have left of the index is not accepted.
ManifestIsCommitPoint ==
  manifest \notin Broken /\ manifest.build = builds =>
    /\ store \notin Broken /\ store.build = builds
    /\ index \notin {Absent, Empty} /\ (index # Torn => index.build = builds)

\* However the reads of open_bundle interleave with builds and their deaths, a handle
\* on the manifest of the last build begun has the store and the index of that build.
LatestManifestMixesNothing ==
  \A p \in Live : handle[p].manifest.build = builds =>
    handle[p].store.build = builds /\ handle[p].index.build = builds
=============================================================================
