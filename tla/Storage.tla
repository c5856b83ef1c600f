------------------------------ MODULE Storage ------------------------------
(***************************************************************************)
(* The storage a Game works on, as operators on two kinds of records.      *)
(*                                                                         *)
(* A database has the current block (or NoBlock), the game state for it    *)
(* and the table of undo data.                                             *)
(*                                                                         *)
(* A store is a storage backend with the layers Game puts around it: what  *)
(* is durable (disk), what the open batch of transactions shows (view),    *)
(* the TransactionManager's counters, and the height cache of              *)
(* StorageWithCachedHeight.  Game holds its lock for the whole of a        *)
(* transaction, so a transaction is one operator: Commit(s, v) opens it,   *)
(* replaces the view by v and commits it, and Rollback(s) is what is left  *)
(* of it when the backend throws RetryWithNewTransaction.                  *)
(***************************************************************************)
EXTENDS Blockchain

UndoRow == [block : Seq(Labels), height : Nat, data : Seq(Labels)]

Database == [block : Seq(Labels) \cup {NoBlock},
             state : Seq(Labels),
             undo  : SUBSET UndoRow]

Store == [disk : Database, view : Database,
          batchSize : Nat \ {0}, batched : Nat,
          hasHeight : BOOLEAN, cachedHeight : Nat]

EmptyDatabase == [block |-> NoBlock, state |-> <<>>, undo |-> {}]

NewStore(db) == [disk |-> db, view |-> db, batchSize |-> 1, batched |-> 0,
                 hasHeight |-> FALSE, cachedHeight |-> 0]

HasState(db) == db.block # NoBlock

-----------------------------------------------------------------------------
(***************************************************************************)
(* Operations on the database.                                             *)
(***************************************************************************)
SetCurrentGameState(db, b, st) == [db EXCEPT !.block = b, !.state = st]

AddUndoData(db, b, data) ==
    [db EXCEPT !.undo = {r \in @ : r.block # b}
                    \cup {[block |-> b, height |-> Height(b), data |-> data]}]

ReleaseUndoData(db, bs) == [db EXCEPT !.undo = {r \in @ : r.block \notin bs}]

PruneUndoData(db, h) == [db EXCEPT !.undo = {r \in @ : r.height > h}]

UndoDataOf(db, b) == {r \in db.undo : r.block = b}

-----------------------------------------------------------------------------
(***************************************************************************)
(* TransactionManager and StorageWithCachedHeight.                         *)
(***************************************************************************)
Flush(s) == [s EXCEPT !.disk = IF s.batched > 0 THEN s.view ELSE @,
                      !.batched = 0]

Commit(s, v) ==
    LET t == [s EXCEPT !.view = v, !.batched = @ + 1]
    IN  IF t.batched >= t.batchSize THEN Flush(t) ELSE t

\* Mutant: the cached height survives the rollback.
RollbackKeepsHeight(s) == [s EXCEPT !.view = s.disk, !.batched = 0]

Rollback(s) == [s EXCEPT !.view = s.disk, !.batched = 0, !.hasHeight = FALSE]

TryAbortTransaction(s) == IF s.batched > 0 THEN Rollback(s) ELSE s

\* Mutant: a batch that is too large for the new size stays open.
SetBatchSizeOnly(s, n) == [s EXCEPT !.batchSize = n]

SetBatchSize(s, n) ==
    LET t == [s EXCEPT !.batchSize = n]
    IN  IF t.batched >= t.batchSize THEN Flush(t) ELSE t

\* Only called with no transaction open: the backend drops all its data.
Clear(s) == [s EXCEPT !.view = EmptyDatabase, !.disk = EmptyDatabase,
                      !.hasHeight = FALSE]

\* A commit of a new current game state, which also sets the cached height.
CommitState(s, v) == [Commit(s, v) EXCEPT !.hasHeight = TRUE,
                                          !.cachedHeight = Height(v.block)]

\* GetCurrentBlockHashWithHeight fills the cache from the daemon if needed.
FillHeight(s) ==
    IF HasState(s.view) /\ ~s.hasHeight
    THEN [s EXCEPT !.hasHeight = TRUE, !.cachedHeight = Height(s.view.block)]
    ELSE s
=============================================================================
