---------------------------- MODULE LMDBStorage ----------------------------
(***************************************************************************)
(* LMDBStorage: an environment with a memory map of limited size.          *)
(*                                                                         *)
(* An image needs a page for each entry and one for the root.  Writing     *)
(* fails with MDB_MAP_FULL when the map is too small for it, and so does   *)
(* the commit, which needs a page more for the list of free pages.  A      *)
(* failure throws RetryWithNewTransaction: needsResize is set from the     *)
(* throw until RollbackTransaction resized the map.                        *)
(***************************************************************************)
EXTENDS Naturals, FiniteSets

Pages(db) == 1 + Cardinality(db.undo)
               + Cardinality({k \in DOMAIN db.rows : db.rows[k] # 0})

\* CheckOk of what a write returns.
CheckOk(s, t, pages) == IF pages <= s.map THEN t
                        ELSE [s EXCEPT !.needsResize = TRUE]

BeginTransaction(s) == [s EXCEPT !.started = TRUE]

Put(s, db) == CheckOk(s, [s EXCEPT !.view = db], Pages(db))

\* ReadTransaction: the open transaction if there is one, or else a read-only
\* one of what is committed.
Read(s) == IF s.started THEN s.view ELSE s.disk

\* The cursor goes through the undo data in the order of the hashes, so it
\* has to look at every entry.
PruneUndoData(db, h) ==
    [db EXCEPT !.undo = @ \ {r \in @ : r.height <= h}]

\* The handle is gone whether or not mdb_txn_commit succeeds.
CommitTransaction(s) ==
    LET t == [s EXCEPT !.started = FALSE]
    IN  CheckOk(t, [t EXCEPT !.disk = s.view], Pages(s.view) + 1)

\* Mutant: the size of the map is not changed.
ResizeKeepsSize(s) == [s EXCEPT !.needsResize = FALSE]

\* Doubles the map; the counter that is committed makes the size durable.
Resize(s) == [s EXCEPT !.needsResize = FALSE, !.map = 2 * s.map]

RollbackTransaction(s) ==
    LET t == [s EXCEPT !.view = s.disk, !.started = FALSE]
    IN  IF s.needsResize THEN Resize(t) ELSE t

\* mdb_env_open: the map has the size made durable last.
Initialise(s) == [s EXCEPT !.view = s.disk, !.started = FALSE,
                           !.needsResize = FALSE]

\* mdb_drop in a transaction of its own; the empty image always fits.
Clear(s, empty) ==
    CommitTransaction(Put(BeginTransaction(s), empty))
=============================================================================
