------------------------------ MODULE UpdateLog ------------------------------
(***************************************************************************)
(* The incremental update log of a bundle (slate-index/src/update.rs) as a  *)
(* value: tombstoned ids, buffered inserts in id order, and the next id.    *)
(* A vector is a number standing for its contents.                         *)
(***************************************************************************)
EXTENDS Integers, Sequences

LogOf(Ids, Vectors) ==
  [tombstones : SUBSET Ids, inserts : Seq(Vectors), nextId : Nat]

\* UpdateLog::new
NewLog(baseLen) == [tombstones |-> {}, inserts |-> <<>>, nextId |-> baseLen]

\* UpdateLog::delete: idempotent, and any id is taken.
Deleted(log, id) == [log EXCEPT !.tombstones = @ \cup {id}]

\* A slip: ids are handed out again from the length of the buffer.
InsertedFromLength(log, v) ==
  [log EXCEPT !.inserts = Append(@, v), !.nextId = Len(log.inserts) + 1]

\* UpdateLog::insert: the vector takes the id log.nextId.
Inserted(log, v) ==
  [log EXCEPT !.inserts = Append(@, v), !.nextId = @ + 1]

\* UpdateLog::first_insert_id
FirstInsertId(log) == log.nextId - Len(log.inserts)

\* The vector a query finds under a buffered id.
BufferedIds(log) == FirstInsertId(log) .. log.nextId - 1
BufferedAt(log, id) == log.inserts[id - FirstInsertId(log) + 1]
=============================================================================
