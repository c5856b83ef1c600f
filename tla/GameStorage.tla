---------------------------- MODULE GameStorage ----------------------------
(***************************************************************************)
(* A game daemon on a storage that survives it: SQLite with SQLiteGame, or *)
(* LMDB with a game that keeps its state in the storage.  Game drives the  *)
(* storage through the TransactionManager; RPC threads read custom state   *)
(* data from snapshots; the process may be killed at any moment, between   *)
(* the steps of a reinitialisation too.                                    *)
(*                                                                         *)
(* The notifications Game handles are the subject of module Game.  Here    *)
(* the blocks on the way to the tip are attached and detached in order,    *)
(* and the daemon answers the calls of one reinitialisation for one tip    *)
(* (module Game has what happens if it does not).                          *)
(***************************************************************************)
EXTENDS SQLiteGame

CONSTANTS
    Readers,        \* RPC threads that call GetCustomStateData
    BatchSize,      \* transactionBatchSize, used while catching up
    KeepBlocks,     \* blocks the pruning queue keeps
    InitialMap,     \* pages of a new LMDB map
    MaxTips,        \* bound on the changes of the tip
    MaxStops        \* bound on how often the process is stopped or killed

ASSUME StorageAssumption ==
    /\ BatchSize \in Nat \ {0} /\ KeepBlocks \in Nat
    /\ InitialMap \in Nat /\ InitialMap >= 2
    /\ MaxTips \in Nat /\ MaxStops \in Nat

VARIABLES
    backend,    \* "sqlite", "sqlite no WAL" or "lmdb"
    store,      \* the storage and the TransactionManager
    phase,      \* where the thread that holds the lock of Game is
    mode, target,   \* CATCHING_UP (to the target block) or UP_TO_DATE
    genesisKnown,   \* Game::genesisHash is not null
    reader,     \* per thread: the block it was told, and where it reads
    tip, tips, stops

vars == <<backend, store, phase, mode, target, genesisKnown, reader,
          tip, tips, stops>>

SQLite == INSTANCE SQLiteStorage
LMDB == INSTANCE LMDBStorage

Lmdb == backend = "lmdb"

Idle == [busy |-> FALSE, block |-> NoBlock, rows |-> NoRows, valid |-> TRUE]

Snapshots == {r \in Readers : reader[r].busy /\ ~Lmdb}

-----------------------------------------------------------------------------
(***************************************************************************)
(* TransactionManager.  An operation that leaves needsResize set has       *)
(* thrown RetryWithNewTransaction.                                         *)
(***************************************************************************)
Write(s, db) == IF Lmdb THEN LMDB!Put(s, db) ELSE SQLite!Execute(s, db)

Current(s) == IF Lmdb THEN LMDB!Read(s) ELSE SQLite!Read(s)

PruneUndoData(db, h) ==
    IF Lmdb THEN LMDB!PruneUndoData(db, h) ELSE SQLite!PruneUndoData(db, h)

Flush(s) ==
    IF s.batched = 0 THEN s
    ELSE LET t == IF Lmdb THEN LMDB!CommitTransaction(s)
                  ELSE SQLite!CommitTransaction(s)
         IN  IF t.needsResize THEN t ELSE [t EXCEPT !.batched = 0]

SetBatchSize(s, n) ==
    LET t == [s EXCEPT !.batchSize = n]
    IN  IF t.batched >= n THEN Flush(t) ELSE t

BeginTransaction(s) ==
    IF s.batched > 0 THEN s
    ELSE IF Lmdb THEN LMDB!BeginTransaction(s) ELSE SQLite!BeginTransaction(s)

CommitTransaction(s) ==
    LET t == [s EXCEPT !.batched = @ + 1]
    IN  IF t.batched >= t.batchSize THEN Flush(t) ELSE t

RollbackTransaction(s) ==
    LET t == IF Lmdb THEN LMDB!RollbackTransaction(s)
             ELSE SQLite!RollbackTransaction(s)
    IN  [t EXCEPT !.batched = 0]

TryAbortTransaction(s) == IF s.batched > 0 THEN RollbackTransaction(s) ELSE s

\* An ActiveTransaction that changes the storage to db: what the store is
\* before it is either committed or, having thrown, rolled back.
Attempt(s, db) ==
    LET t == Write(BeginTransaction(s), db)
    IN  IF t.needsResize THEN t ELSE CommitTransaction(t)

Throws(s, db) == Attempt(s, db).needsResize

InTransaction(s, db) ==
    IF Throws(s, db) THEN RollbackTransaction(Attempt(s, db))
    ELSE Attempt(s, db)

-----------------------------------------------------------------------------
(***************************************************************************)
(* Game::ReinitialiseState, step by step.  The lock of Game is held in all *)
(* phases but "run".                                                       *)
(***************************************************************************)
EndHandler ==
    phase' = IF mode = "CATCHING_UP" /\ Current(store').block = target
             THEN "reinit" ELSE "run"

\* There is a state: sync from it.  A commit that fails in SetBatchSize is
\* not caught by anyone.
SyncFromCurrentState ==
    /\ phase = "reinit"
    /\ Current(store).block # NoBlock
    /\ IF Current(store).block = tip
       THEN /\ mode' = "UP_TO_DATE"
            /\ target' = NoBlock
            /\ store' = SetBatchSize(store, 1)
            /\ phase' = IF store'.needsResize THEN "terminated" ELSE "run"
       ELSE /\ mode' = "CATCHING_UP"
            /\ target' = tip
            /\ store' = SetBatchSize(store, BatchSize)
            /\ phase' = IF store'.needsResize THEN "terminated" ELSE "run"
    /\ UNCHANGED <<backend, genesisKnown, reader, tip, tips, stops>>

\* The rules of a game on SQLite put its initial state into the database,
\* outside of any transaction of the TransactionManager.
GetInitialState(s) ==
    IF Lmdb THEN s
    ELSE SQLite!Release(SQLite!Execute(SQLite!Savepoint(s),
                                       InitialiseGame(SQLite!Read(s))))

LearnGenesis ==
    /\ phase = "reinit"
    /\ Current(store).block = NoBlock
    /\ ~genesisKnown
    /\ store' = GetInitialState(store)
    /\ genesisKnown' = TRUE
    /\ UNCHANGED <<backend, phase, mode, target, reader, tip, tips,
                   stops>>

\* The state is stored from scratch.
StartOver ==
    /\ phase = "reinit"
    /\ Current(store).block = NoBlock
    /\ genesisKnown
    /\ store' = TryAbortTransaction(store)
    /\ phase' = "clearing"
    /\ UNCHANGED <<backend, mode, target, genesisKnown, reader, tip,
                   tips, stops>>

\* CloseDatabase waits until the last snapshot is gone.
CloseDatabase == Snapshots = {}

ClearStorage ==
    /\ phase \in {"dropping", "clearing"}
    /\ Lmdb \/ CloseDatabase
    /\ store' = IF Lmdb THEN LMDB!Clear(store, SetupSchema)
                ELSE SQLite!Clear(store, SetupSchema)
    /\ reader' = [r \in Readers |->
                    IF r \in Snapshots THEN [reader[r] EXCEPT !.valid = FALSE]
                    ELSE reader[r]]
    /\ phase' = IF phase = "clearing" THEN "cleared" ELSE "reinit"
    /\ UNCHANGED <<backend, mode, target, genesisKnown, tip, tips, stops>>

PrepareGenesis ==
    /\ phase = "cleared"
    /\ store' = GetInitialState(store)
    /\ phase' = "initial"
    /\ UNCHANGED <<backend, mode, target, genesisKnown, reader, tip,
                   tips, stops>>

\* Stores the initial state; this is tried until it works.  A plain game's
\* initial state is the value that is stored here.
StoreGenesis ==
    /\ phase = "initial"
    /\ LET db == [Current(store) EXCEPT
                    !.block = Genesis, !.state = INITIAL_STATE,
                    !.rows = IF Lmdb THEN InitialRows ELSE @,
                    !.initialised = Lmdb \/ @]
       IN  /\ store' = InTransaction(store, db)
           /\ phase' = IF Throws(store, db) THEN "initial" ELSE "reinit"
    /\ UNCHANGED <<backend, mode, target, genesisKnown, reader, tip,
                   tips, stops>>

-----------------------------------------------------------------------------
(***************************************************************************)
(* BlockAttach and BlockDetach.                                            *)
(***************************************************************************)
Goal == IF mode = "CATCHING_UP" THEN target ELSE tip

NextUpdate == Updates(Current(store).block, Goal)[1]

CurrentStateOk == Lmdb \/ CheckCurrentState(Current(store), Current(store).state)

\* UpdateStateForAttach.
Attach ==
    /\ phase = "run"
    /\ Current(store).block # Goal
    /\ NextUpdate.type = "attach"
    /\ IF ~CurrentStateOk
       THEN phase' = "aborted" /\ UNCHANGED store
       ELSE LET db == Forward(Current(store), NextUpdate.block)
            IN  /\ store' = InTransaction(store, db)
                /\ phase' = IF Throws(store, db) THEN "reinit" ELSE "pruning"
    /\ UNCHANGED <<backend, mode, target, genesisKnown, reader, tip, tips,
                   stops>>

\* PruningQueue::AttachBlock, still in the same handler: a transaction of
\* its own when the queue has grown beyond its size, which it may or may not
\* have since it was last reset.
Prune ==
    /\ phase = "pruning"
    /\ \/ /\ Height(Current(store).block) >= KeepBlocks
          /\ LET db == PruneUndoData(Current(store),
                                 Height(Current(store).block) - KeepBlocks)
             IN  /\ store' = InTransaction(store, db)
                 /\ IF Throws(store, db) THEN phase' = "reinit"
                    ELSE EndHandler
       \/ /\ UNCHANGED store
          /\ EndHandler
    /\ UNCHANGED <<backend, mode, target, genesisKnown, reader, tip, tips,
                   stops>>

\* UpdateStateForDetach.
Detach ==
    /\ phase = "run"
    /\ Current(store).block # Goal
    /\ NextUpdate.type = "detach"
    /\ LET b == NextUpdate.block
           undo == UndoOf(Current(store), b)
       IN  IF undo = {}
           THEN /\ store' = TryAbortTransaction(store)
                /\ phase' = "dropping"
           ELSE LET data == (CHOOSE r \in undo : TRUE).data
                    db == Backwards(Current(store), b, data)
                IN  IF ~CurrentStateOk \/ ~NoConflict(Current(store).rows, data)
                    THEN phase' = "aborted" /\ UNCHANGED store
                    ELSE /\ store' = InTransaction(store, db)
                         /\ IF Throws(store, db) THEN phase' = "reinit"
                            ELSE EndHandler
    /\ UNCHANGED <<backend, mode, target, genesisKnown, reader, tip, tips,
                   stops>>

-----------------------------------------------------------------------------
(***************************************************************************)
(* RPC threads.                                                            *)
(***************************************************************************)
\* Mutant: a snapshot is used whatever block it is for.
SnapshotUsableAlways == backend = "sqlite"

\* GetSnapshot needs WAL mode and shows what is committed, which has to be
\* the current state.  (The CHECK in CheckCurrentState holds whenever there is
\* a block: see Consistent.)
SnapshotUsable ==
    backend = "sqlite" /\ CheckCurrentState(store.disk, Current(store).state)

\* GetCustomStateData up to where the lock is released: SQLiteGame goes on
\* with a snapshot if it can use one (otherwise it keeps the lock until it is
\* done, which changes nothing); a plain game has its own copy of the state.
StartRead(r) ==
    /\ phase = "run"
    /\ ~reader[r].busy
    /\ Current(store).block # NoBlock
    /\ Lmdb \/ SnapshotUsable
    /\ reader' = [reader EXCEPT ![r] =
            [busy |-> TRUE, block |-> Current(store).block,
             rows |-> IF Lmdb THEN Current(store).rows ELSE store.disk.rows,
             valid |-> TRUE]]
    /\ UNCHANGED <<backend, store, phase, mode, target, genesisKnown,
                   tip, tips, stops>>

FinishRead(r) ==
    /\ reader[r].busy
    /\ reader' = [reader EXCEPT ![r] = Idle]
    /\ UNCHANGED <<backend, store, phase, mode, target, genesisKnown,
                   tip, tips, stops>>

-----------------------------------------------------------------------------
(***************************************************************************)
(* The chain and the process.                                              *)
(***************************************************************************)
TipChange ==
    /\ tips < MaxTips
    /\ \E b \in Blocks \ {tip} : OnChain(Genesis, b) /\ tip' = b
    /\ tips' = tips + 1
    /\ UNCHANGED <<backend, store, phase, mode, target, genesisKnown,
                   reader, stops>>

\* Everything in memory is gone.
Down(s) == [s EXCEPT !.view = s.disk, !.saves = <<>>, !.started = FALSE,
                     !.needsResize = FALSE, !.batched = 0, !.batchSize = 1]

EndProcess(s) ==
    /\ store' = Down(s)
    /\ phase' = "down"
    /\ mode' = "UP_TO_DATE"
    /\ target' = NoBlock
    /\ genesisKnown' = FALSE
    /\ reader' = [r \in Readers |-> Idle]
    /\ UNCHANGED <<backend, tip, tips>>

Kill ==
    /\ phase \notin {"down", "terminated", "aborted"}
    /\ stops < MaxStops
    /\ EndProcess(store)
    /\ stops' = stops + 1

\* Game::Stop and the destructors: the server is stopped, ~TransactionManager
\* flushes what is batched (a failure there ends the process as well), and
\* ~SQLiteStorage waits for the snapshots.
Stop ==
    /\ phase = "run"
    /\ stops < MaxStops
    /\ \A r \in Readers : ~reader[r].busy
    /\ EndProcess(Flush(store))
    /\ stops' = stops + 1

\* The end of a process that did not catch RetryWithNewTransaction.
Terminate ==
    /\ phase = "terminated"
    /\ EndProcess(store)
    /\ UNCHANGED stops

\* The process is started again: Initialise, then Game::Start.
Start ==
    /\ phase = "down"
    /\ store' = IF Lmdb THEN LMDB!Initialise(store)
                ELSE SQLite!OpenDatabase(store)
    /\ phase' = "reinit"
    /\ UNCHANGED <<backend, mode, target, genesisKnown, reader, tip, tips,
                   stops>>

-----------------------------------------------------------------------------
Init ==
    /\ backend \in {"sqlite", "sqlite no WAL", "lmdb"}
    /\ store = [disk |-> SetupSchema, view |-> SetupSchema, saves |-> <<>>,
                started |-> FALSE, map |-> InitialMap, needsResize |-> FALSE,
                batched |-> 0, batchSize |-> 1]
    /\ phase = "down"
    /\ mode = "UP_TO_DATE"
    /\ target = NoBlock
    /\ genesisKnown = FALSE
    /\ reader = [r \in Readers |-> Idle]
    /\ tip \in {b \in Blocks : OnChain(Genesis, b)}
    /\ tips = 0
    /\ stops = 0

GameStep ==
    \/ Start \/ SyncFromCurrentState \/ LearnGenesis \/ StartOver
    \/ ClearStorage \/ PrepareGenesis \/ StoreGenesis
    \/ Attach \/ Prune \/ Detach \/ Terminate

Next ==
    \/ GameStep
    \/ \E r \in Readers : StartRead(r) \/ FinishRead(r)
    \/ TipChange \/ Kill \/ Stop

\* The thread of Game can go on, and is not waiting for anything.
GameCanStep ==
    CASE phase = "run" -> Current(store).block # Goal
      [] phase \in {"dropping", "clearing"} -> Lmdb \/ CloseDatabase
      [] OTHER -> phase # "aborted"

\* It goes on when it can (weak fairness of GameStep, with its enabling
\* condition written out: every step of it changes one of these variables,
\* and of the other steps only the boundedly many Kill and Stop do), and a
\* callback that extracts data from the state comes to an end.
Fairness ==
    /\ []<>(~GameCanStep) \/ []<><<TRUE>>_<<store, phase, genesisKnown>>
    /\ \A r \in Readers : WF_reader(FinishRead(r))

Spec == Init /\ [][Next]_vars /\ Fairness

-----------------------------------------------------------------------------
(***************************************************************************)
(* Properties.                                                             *)
(***************************************************************************)
Synced == phase = "run" /\ mode = "UP_TO_DATE" /\ store.view.block = tip

Consistent(db) ==
    db.block # NoBlock => /\ db.rows = RowsFor(db.block)
                          /\ CheckCurrentState(db, db.state)

\* The tables of the game are those of the block that is recorded as current,
\* in the open transaction and on disk: what is killed, rolled back or undone
\* never leaves rows of one block with the hash of another (SQLiteGame keeps
\* its state beside the storage, as SetCurrentGameState and UpdateState are
\* separate statements).
ContentMatchesBlock ==
    /\ Consistent(store.view)
    /\ Consistent(store.disk)

\* All undo data that is stored takes the state back: for the chain of the
\* current block, applying the changesets one after the other meets no
\* conflict and gives the rows of each parent, AutoIds included.
UndoRestoresParent ==
    \A db \in {store.view, store.disk} : \A r \in db.undo :
        (db.block # NoBlock /\ OnChain(r.block, db.block)) =>
            /\ NoConflict(RowsFor(r.block), r.data)
            /\ ApplyInverted(RowsFor(r.block), r.data)
                    = RowsFor(Parent(r.block))

\* Once Game is up to date, every block it processed is on disk: a savepoint
\* that ROLLBACK TO left open is never carried into later transactions.
CommittedIsDurable ==
    (phase = "run" /\ mode = "UP_TO_DATE") => store.disk = store.view

\* What an RPC call returns is the state of the block it reports, although
\* Game goes on to other blocks, batches commits or clears the storage while
\* the call reads.
ReadersSeeTheirBlock ==
    \A r \in Readers : reader[r].busy =>
        reader[r].valid /\ reader[r].rows = RowsFor(reader[r].block)

\* The storage follows the chain in the end, whatever was killed and however
\* often the map was too small, or the process ends again and again in the
\* commit that SetBatchSize makes (nobody catches that exception, and with
\* it the request to resize the map is lost).  In particular no CHECK of
\* SQLiteGame aborts it: that of EnsureCurrentState, and the one on a
\* changeset that meets a conflict.
FollowsOrKeepsTerminating ==
    <>[]Synced \/ (backend = "lmdb" /\ []<>(phase = "terminated"))
=============================================================================
