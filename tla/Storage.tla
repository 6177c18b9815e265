------------------------------- MODULE Storage -------------------------------
(***************************************************************************)
(* The write and the read path of slate-storage together: a StoreWriter     *)
(* writes a file, possibly dying on the way; a VectorStore opens what is on *)
(* disk once it is accepted, and fetches a batch from it, with nothing to   *)
(* go by but the header.                                                    *)
(***************************************************************************)
EXTENDS StoreFile, FetchSchedule

storageVars == <<vars, batch>>

StorageInit == Init /\ Idle

Write == Next /\ UNCHANGED batch

\* VectorStore::open, then fetch_scheduled on the store it gives.
OpenAndFetch == Opens /\ Schedule /\ UNCHANGED vars

Fetching == Advance /\ UNCHANGED vars

ReadFails == PreadvFails /\ UNCHANGED vars

StorageNext == Write \/ OpenAndFetch \/ Fetching \/ ReadFails

StorageSpec == StorageInit /\ [][StorageNext]_storageVars

\* A writer that neither fails nor dies and is finished by its caller; one thread
\* runs the loop of a batch, and a call to the kernel returns.
FairStorageSpec ==
  /\ StorageSpec
  /\ WF_storageVars(Drain /\ UNCHANGED batch)
  /\ WF_storageVars(FinishBlocks /\ UNCHANGED batch)
  /\ WF_storageVars(WriteHeader /\ UNCHANGED batch)
  /\ WF_storageVars(Fetching)

-----------------------------------------------------------------------------
(* Properties.                                                             *)

\* The bytes of the file at a list of offsets.
BytesAt(offsets) == [b \in DOMAIN offsets |-> body[offsets[b] - HeaderSize + 1]]

\* A batch gives visit the vectors asked for, each once and in ascending order, and
\* with each the bytes that were pushed as that vector: however they were padded
\* into blocks by the writer, however they were cut into runs, gaps and short reads
\* by the reader.  No run panics on its sink or leaves the file.
DeliversWhatWasPushed ==
  /\ VisitsInOrder
  /\ RunsAreExact
  /\ \A n \in DOMAIN visited :
       BytesAt(visited[n].bytes) = BytesOf(layout, visited[n].index)
=============================================================================
