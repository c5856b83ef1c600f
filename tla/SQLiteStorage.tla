--------------------------- MODULE SQLiteStorage ---------------------------
(***************************************************************************)
(* SQLiteStorage: one connection to a database file.                       *)
(*                                                                         *)
(* A connection has the image it shows (view) and the stack of its open    *)
(* savepoints, each with the image it returns to.  Without a savepoint     *)
(* SQLite is in autocommit mode: a change is on disk at once.  RELEASE of  *)
(* the outermost savepoint commits; ROLLBACK TO restores the image and     *)
(* leaves the savepoint open.                                              *)
(***************************************************************************)
EXTENDS SequencesExt

Savepoint(s) == [s EXCEPT !.saves = Append(@, s.view)]

Release(s) ==
    [s EXCEPT !.saves = Front(@),
              !.disk = IF Len(s.saves) = 1 THEN s.view ELSE @]

RollbackTo(s) == [s EXCEPT !.view = Last(s.saves)]

\* A statement that changes the database to db.
Execute(s, db) == [s EXCEPT !.view = db,
                            !.disk = IF s.saves = <<>> THEN db ELSE @]

\* Statements on the connection see what it changed itself.
Read(s) == s.view

PruneUndoData(db, h) == [db EXCEPT !.undo = {r \in @ : r.height > h}]

\* What was not committed is lost with the connection.
OpenDatabase(s) == [s EXCEPT !.view = s.disk, !.saves = <<>>,
                             !.started = FALSE]

BeginTransaction(s) == [Savepoint(s) EXCEPT !.started = TRUE]

CommitTransaction(s) == [Release(s) EXCEPT !.started = FALSE]

RollbackTransaction(s) == [RollbackTo(s) EXCEPT !.started = FALSE]

\* Mutant: the tables are emptied, the connection stays.
ClearKeepsConnection(s, empty) == Execute(s, empty)

\* CloseDatabase, removal of the file, OpenDatabase with a new one.
Clear(s, empty) == OpenDatabase([s EXCEPT !.disk = empty])
=============================================================================
