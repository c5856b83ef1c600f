# A TLA+ model of libxayagame

libxayagame follows the blockchain of a Xaya Core daemon and keeps the state of
a game that is a function of the chain.  This directory models its core in TLA+,
checks it with TLC and proves its main safety properties with TLAPS.  Paths
below are relative to the repository.

## 1. Inventory

| Component | State | Operations | Talks to |
|---|---|---|---|
| Game engine, `xayagame/game.cpp` | sync state, target block, request token, genesis | `BlockAttach`, `BlockDetach`, `PendingMove` (ZMQ worker thread), `ReinitialiseState`, `SyncFromCurrentState`, `Start`, `Stop`, `EnablePruning`, state queries and waiting calls (RPC threads) | daemon by RPC, storage, pruning queue, pending moves; everything under the lock `mut` |
| Rules interface, `gamelogic.cpp` | – | `GetInitialState`, `ProcessForward`, `ProcessBackwards` | called by Game inside a transaction |
| Storage, `storage.cpp`, `sqlitestorage.cpp`, `lmdbstorage.cpp` | current block and state, undo data by block | set, add, release, prune, clear, begin, commit, rollback | – |
| `TransactionManager` | batch size, batched commits | batches many transactions into one of the backend | storage |
| Height cache, `heightcache.cpp` | height of the current block | set with the state, filled lazily by reads, dropped by rollback and clear | storage, daemon |
| Pruning queue, `pruningqueue.cpp` | hashes of the last attached blocks | attach, detach, reset, resize | storage, in transactions of its own |
| Pending moves, `pendingmoves.cpp` | known moves, last attached blocks | attached, detached, move, reset from the mempool | daemon (mempool) |
| ZMQ subscriber, `zmqsubscriber.cpp` | last sequence number per topic, worker thread | start, stop, poll, hand over | calls Game's handlers |
| Main loop, `mainloop.cpp` | running and stop flags | run, stop, signal handler | starts and stops Game |
| SQLite game, `sqlitegame.cpp` | game state in tables, changesets as undo data, AutoIds | state as a reference to the current block, undo by inverted changeset, custom state data from snapshots | SQLite storage; RPC threads |
| State proofs, board rules, `gamechannel/stateproof.cpp`, `boardrules.hpp` | – | verify a proof, extend one by a move | used on chain and off chain |
| Rolling state, channel manager, `rollingstate.cpp`, `channelmanager.cpp` | best known state per reinitialisation, open dispute, transactions sent | on-chain updates, broadcasts, local moves, automoves, disputes, resolutions | feeder, broadcast and RPC threads, all under one mutex; wallet |
| Channels on chain, `channelgame.cpp`, `database.cpp` | the channels table, pending state proofs | disputes, resolutions, creation, reinitialisation | SQLite game |
| Channel daemon, broadcast, chain feed, `daemon.cpp`, `broadcast.cpp`, `chaintochannel.cpp` | last block seen, sequence of messages | read the channel from the GSP, feed the manager | GSP, other players |
| Xayaships, `ships/` | board, the daemon's position and seed; channels, statistics | moves of the game, automoves, RPC calls; on-chain moves, expiry of disputes, timeouts | channel framework |
| Mover, `mover/` | players with position, direction and steps left; the last pending move of each | a block forward and backwards with undo data of its own, pending moves | rules interface |
| Non-fungible assets, `nonfungible/` | assets and balances in the database; pending ones as an overlay | mint, transfer, burn, in blocks and as pending moves | SQLite game |
| Utilities, servers, default main | – | encodings, I/O | – |

What is hard here: the daemon moves on between two RPC calls of one handler;
notifications are lost, and a gap only shows with the next message of the *same*
topic; updates requested earlier arrive mixed with later ones; a storage failure
rolls back a batch whose blocks were reported as done; the process crashes
between two transactions; RPC threads read, cache and wait at any time; the main
loop is stopped by other threads and by signals.  In a channel, two daemons learn
of states by broadcast, from the chain and from their own users in any order,
the chain takes disputes and resolutions back, transactions get lost, and the
opponent in a game may send anything the rules let through.  Each such point, with its
line, is listed under `hazards` in `PROJECT.json`, with the properties aimed at
it or the reason why there is none yet.

What makes the parts correct:

* storage: the state stored for a block is the one the rules define for it, and
  its undo data leads back, on disk as well as in an open batch;
* Game: `UP_TO_DATE` is true, no handler meets a state it aborts on, catching up
  ends, and a loss is made good for;
* pruning: only undo data deep enough is dropped;
* pending moves: built on the current state, each move added once;
* subscriber: the mismatch flag is exact; stopping terminates;
* waiting calls: no change and no stop is slept over;
* main loop: a request to stop ends it;
* storages: the rows, the block hash and the undo data in a file belong together
  whenever the process is killed; a reader sees the block it was told; a map
  that is too small is grown and the chain followed;
* channels: every proof a daemon keeps verifies, the players agree on what was
  played, nobody is behind the chain, and a dispute is answered by who can;
* example games: undo data lead back to the state before, and the pending state
  shown is what the moves will do;
* Xayaships: who plays by the rules loses only when sunk, who lies does not
  win, every match ends and is counted once, in its time.

## 2. Modules

`Game` extends `PruningQueue` and `PendingMoves`, which extend `Storage`, which
extends `Blockchain`.  The lower modules are operators on records (the state of
one C++ object), so that a handler of `Game` is one action that composes the
calls it makes, in their order.

* **Blockchain** – blocks as the sequences of labels from the root (a block *is*
  its chain, so equal hashes mean equal chains), the detach and attach steps the
  daemon sends between two blocks (external), and the rules as the code of
  `CachingGame` sees them: the state after a block is a value that tells it apart
  from the state after any other block.
* **Storage** – `store.disk` is what survives a crash, `store.view` what the open
  batch sees, `batched` and `batchSize` are `TransactionManager`'s, `height` is
  the cached height.  One transaction is one `Commit`; a failed one is a
  `Rollback` of the whole batch.
* **PruningQueue**, **PendingMoves** – the two objects, with their checks.
* **Game** – the state machine.  `tip` and `queue` are the daemon and the ZMQ
  channel (external).  A handler is one action because it runs under `mut`;
  `ReinitialiseState` is cut in two, between `getblockchaininfo` and
  `game_sendupdates` (`SendUpdates`), as the daemon is not stopped by our lock.
  `BlockAttachRetry` and `BlockDetachRetry` are the handlers in which some
  transaction, of the state or of the pruning queue, throws
  `RetryWithNewTransaction`.  `Crash` drops everything but `store.disk`,
  `CrashInPruning` ends the process between the state's transaction and the
  pruning queue's.  `link[t]` is what the sequence numbers of topic `t` tell;
  `ZmqSubscriber` shows that they tell exactly this.
* **NotificationLink** – abstract: a session hands over messages in order and
  flags the first one and each one after a gap.
* **ZmqSubscriber** – the worker thread with sequence numbers modulo
  `SeqModulus` (2^32 in the code), two sockets served in order, foreign topics
  that ZMQ's prefix matching lets in, start and stop.  It implements
  `NotificationLink` (`Link == INSTANCE NotificationLink WITH ...`); `first` maps
  to "`lastSeq` has no entry".
* **StateWaiters** – `WaitForChange` and `WaitForPendingChange` cut at every point
  where `Stop`, which notifies without the lock, can come in between; handlers
  are reduced to what they change and whether they notify, and the worker thread
  holds Game's lock from `HandlerEnter` to `HandlerReturn`.
* **MainLoop** – `Run`, `Stop` and the signal handler with their two locks.  A
  handler occupies the thread it runs on, whatever lock that thread holds; the
  sections of `Run` under `instanceForSignalsMutex` are cut (`SetInstance`,
  `Install`, `EnterLoop`; `ResetInstance`, `Uninstall`), so that a signal comes
  inside them, too, and one handler may interrupt another.
* **GameRun** – `Game::Run`, the composition of the two: it extends `StateWaiters`
  and takes `MainLoop` as an instance (`Loop`); the steps of `Start` and `Stop`
  are those of the main thread while it is in the start and the stop action.
  `Awaits` says which thread waits for which one to release one of the three
  locks or to end, `Deadlocked` that some wait for one another.
* The theorems: **GameProofs**, **NotificationProofs** (the subscriber and the
  waiting calls), **StorageProofs**, **StateProofTheorems**, **ChannelProofs**,
  **ShipsLogicProofs**, **ShipsChannelProofs**, and **BlockchainLemmas** with what
  the proofs about Game and the storages need of blocks and update steps.  The
  modules **MC...** hold values for TLC.

The storages in detail:

* **SQLiteStorage**, **LMDBStorage** – the two backends as operators: a stack of
  savepoints with the image each returns to (`ROLLBACK TO` leaves its savepoint
  open, autocommit without one), and a map of limited size with the pending
  resize.
* **SQLiteGame** – the image of a file: the current block, the keyword state, the
  undo data and the rows of the game with the counter of an AutoId; a changeset
  is the old and new value of each row that changed.
* **GameStorage** – Game on one of three backends (SQLite with and without WAL,
  LMDB) through `TransactionManager`.  `phase` is where the thread that holds
  Game's lock is: a reinitialisation is cut into what a kill can come between
  (`CloseDatabase`, `ClearStorage`, `PrepareGenesis`, `StoreGenesis`).  `reader`
  is an RPC thread between taking a snapshot and its callback's end.  `Kill`,
  `Stop` and `Terminate` (an exception nobody catches) end the process and leave
  `disk`; `Start` opens it again.

Game channels:

* **StateProof** – `VerifyStateProof`, `ExtendStateProof` and what they use, over
  any board rules.  A signature is who signed which message.
* **RollingState**, **ChannelManager** – a method of the class is an operator from
  the object's state to the next one.  `out` and `txs` collect what is broadcast
  and sent, `check` names a `CHECK` that fails; `wallet` says whether the wallet
  sends moves during the method, and how many automoves it signs.
* **ChannelGame** – a row of the channels table, `ProcessDispute`,
  `ProcessResolution`.
* **Channel** – the composition: `chain` (the blocks that change the channel, with
  their moves), `mempool`, and per player a manager, what the feeder has read
  and not handed on (`Fetch`, `Feed`) and the broadcasts to come (`Receive`).
  Faults are reorgs, dropped transactions, moves the wallet does not send,
  automoves it does not sign, and restarts.
* **TestGame** – the board rules of the unit tests, as the instance to check.

Xayaships:

* **ShipsGrid**, **ShipsBoard** – placing ships; phases, turn count and every move of
  the board game, with a field of the protocol buffer per field and a grid as
  the set of its cells.
* **ShipsChannel** – players with a daemon (position, salt and seed kept in
  memory, automoves that the wallet signs or not) against players who may send
  any move the rules accept; the chain may switch to another reinitialisation
  and back.  A `setposition` call is cut where the RPC server's mutex is taken
  (`SetPositionCall`) and between its writes of position (`SetPosition`) and salt
  (`DrawSalt`), as automoves run under another mutex, the channel manager's.
* **ShipsLogic** – blocks on chain, move by move, with `EndBlock` for disputes that
  expire and channels nobody joins; pending moves in between.  It extends
  `ChannelGame`.

The example games:

* **Mover** – `ProcessForward` with the undo data it writes, `ProcessBackwards`,
  parsing and the pending state.  `ok` is FALSE if a `CHECK` fails.
* **NonFungible** – `MoveParser`'s decisions, taken from the existence of the asset
  and the balance; `MoveProcessor` on the database and `PendingStateUpdater` on
  the overlay.
* **ExampleGames** – one of the two games under the engine: `MoveArrives`, `Attach`
  of a block with some moves of the mempool, `Detach`, each with the replay of
  the pending moves.

Operators commented as mutants are deliberately wrong variants of the definition
that follows them; `PROJECT.json` names the property that each of them breaks.

## 3. Runs

| Run | Bounds | Shows |
|---|---|---|
| `game_sync` | two labels, height 4, genesis at height 1, 3 moves of the daemon, 1 loss, 1 stop or crash, no batches, pruning switched on or resized twice (sizes 1 and 2) | `StateCorrect`, `UpToDateMeansTip`, `NoUnexpectedState`, `CatchUpBacked`, `PruneKeepsBlocks` |
| `game_retry` | invalidated blocks, 1 failed transaction, batches of 3, pruning, 1 stop or crash | `HeightCacheCorrect`, `UpToDateIsDurable` |
| `game_live` | fairness, pending moves at any time, 3 moves, 1 loss, the daemon only moves to longer chains | `PendingOnCurrentState`, `AddedAtMostOnce`, `EventuallyInSync`, `LossRepaired` |
| `zmq_link` | modulus 3, 2 losses in a row, 5 + 2 + 1 messages, 2 sessions | `LinkImplemented`, `StopReturns` |
| `game_run` | fairness, 1 waiting call at a time, 2 blocks, 2 pending versions, 2 requests to stop in all (at most 1 by RPC; signals on the main, the RPC or the worker thread), 2 runs | `StopWakesWaiters`, `NoMissedChange`, `StopHonoured` |
| `channel_dispute` | fairness, game up to 2, 1 reinitialisation, 1 request by a user, 1 fault of any kind | `LatestNotBehindChain`, `ChecksFailAsKnown`, `DisputeNeedsFresherState`, `DisputeAnswered`, `ChainReachesDaemons` |
| `channel_reinit` | 2 reinitialisations, player 2's automoves wait for input, 1 fault | `ProofsVerify`, `AgreeOnMoves` |
| `ships_channel` | 2×2 board with one ship of size 2, 2 RPC threads, 2 seeds, 2 faults; positions on boards of 3×3 | `BoardStaysValid`, `LosesOnlyIfSunk`, `WinnerDidNotLie`, `AbortsOnlyWithoutSecrets`, `MovesRaiseTurnCount`, `PositionsAreFleets` |
| `ships_logic` | 3 transactions that create or join, 2 names, heights 1 to 7, 2 moves per block, disputes of 2 and timeouts of 3 blocks, integers modulo 256 | `EveryMatchCountsOnce`, `NothingOverdue`, `PendingIsCurrent`, `DisputeGetsItsTime` |
| `storage` | fairness, height 3, 1 reader, batches of 2, 1 block kept, a map of 4 pages, 1 new tip, 2 stops or kills | `ContentMatchesBlock`, `UndoRestoresParent`, `CommittedIsDurable`, `ReadersSeeTheirBlock`, `FollowsOrKeepsTerminating` |
| `example_games` | 3 blocks, 5 moves, empty blocks and blocks with several moves of a player; 2 players, walks of 1 and 2 steps; 1 asset with amounts up to 2, too large, zero, invalid and in arrays | `UndoRestoresState`, `PendingForetellsBlock` |
| `game_prune_check` | expects a violation, see below | `PruningCheckHolds` |

Why these bounds are enough to be interesting: two labels give two branches at
every height, so three moves of the daemon make reorgs of depth two that go back
and forth; in `game_retry` and `game_live`, a batch of three or two is open when a
handler fails or the process ends; one loss, failure or stop can hit any message, transaction or moment, and
everything after it is explored.  In `zmq_link`, the numbers of one topic wrap
around within a session, and gaps are as long as the modulus allows.  What a
second loss or a deeper reorg could add is covered, for the safety properties of
section 4, by the proofs.

A channel's game up to 2 has states with either player's turn, an automove, and
an end; one fault at any moment, with every interleaving of feeder, broadcast,
users and blocks after it, is where the turn counts on chain and off chain come
apart and meet again.  A 2×2 board has fleets that do and do not fit the answers
given and cells in either half of the integer (`setposition` is called before the
seeds are known, and has set position and salt, a racing call aborted, before the
first shot; what a restarted daemon would do with a position set later, the other
player does, who may answer anything; moves of the other player while the daemon
is down are those after its restart).  3×3 boards have ships in both
directions and ships that touch.  In `ships_logic`, a match can be open while
another channel waits for its second player, and one block can join, dispute and
close.  A map of 4 pages is full in the middle of
a batch and, with the page a commit needs more, in a commit.  In `game_run`, one
waiter meets every point of `Start`, `Stop`, the loop and the signal handler, and
a second run follows; more waiters are covered by the proofs.  Two requests to
stop (`MaxTold`) are a signal that races with `Stop` or with another signal.  A
waiting call that is interrupted under Game's lock does to the main thread what
the interrupted worker does, so its thread gets no signal.  Three blocks are
what it takes in `example_games` for a player to be created, to come to rest and
to move again.

`CHECK_DEADLOCK FALSE` where the system may come to rest: the daemon falls
silent, the subscriber or the main loop is not started again, the game is over.

### Disagreements

`game_prune_check` expects a violation of what a comment of the sources says: a
rolled-back batch leaves its blocks in the pruning queue; attached again, the
queue is longer than the chain and its `CHECK_GE` aborts.

The other properties hold with the exceptions that are part of their
statements.  Each exception is a case the code does not handle:

* `EventuallyInSync`, `CatchUpBacked`, stated up to an unnoticed loss and checked
  without invalidated blocks: a detach lost while catching up by detaching
  only is never noticed, as attached blocks have other sequence numbers and are
  ignored without the request token; and if an invalidation takes the daemon
  back to Game's block before `game_sendupdates` is called, there are no steps and the target is never
  "reached".  Game stays `CATCHING_UP` in both cases.
* `PruneKeepsBlocks`, stated while no notification is lost and checked without
  invalidated blocks: `BlockAttach` tells the pruning queue of a block that the
  state update refused.
* `StopHonoured` excludes threads that are deadlocked (`Deadlocked`) by a signal at
  a bad moment (`BadMoment`).  The handler waits for locks, so it hangs on a
  thread that holds one it needs: on the main thread in the start or stop
  action, or inside the sections under `instanceForSignalsMutex`
  (`mainloop.cpp:86-97` and `110-119`), on a thread in `MainLoop::Stop`, or in
  another handler.  On a thread with Game's lock, or on the worker that `Stop`
  joins, it keeps the main thread from going on.  And `Run` takes
  `instanceForSignalsMutex` while it holds `mut`, the handler in the opposite order.
* `ChecksFailAsKnown`: a broadcast makes an automove possible after the channel was
  closed on chain, and `ApplyLocalMove` aborts on `CHECK (exists)`
  (`channelmanager.cpp:312`); and if the wallet refuses to sign an automove,
  `ExtendStateProof` returns false and `CHECK (ApplyLocalMove (mv))` aborts
  (`channelmanager.cpp:150`).
* `FollowsOrKeepsTerminating`: the commit in `SetBatchSize` may find the LMDB map
  full; nobody catches the exception, and the request to resize the map is lost
  with the process, which then ends in the same place after every restart.
* `MovesRaiseTurnCount`: revealed positions are read into an `int` in
  `board.cpp:320`, so one whose ships are all in the upper half is not counted.
* `DisputeGetsItsTime`: below height `DISPUTE_BLOCKS` the unsigned difference in
  `ships/logic.cpp:534` wraps, and a dispute expires at once.
* `UndoRestoresState`: the undo data of Mover remember one change per player.  If a
  player that was there before moves twice in one block (several updates of a
  name in a block are what `mover/gametest/pending.py` mines, for a new player),
  undoing the block leaves it with the direction and steps of its first move;
  undoing further blocks can then fail the `CHECK` at `mover/logic.cpp:168`.  The
  position is right in any case.
* `AbortsOnlyWithoutSecrets`: the seed is drawn again when a reorg leads to the
  first commitment a second time, and a restart loses position and seed.
  `SetPosition` writes the position before the salt (`ships/channel.cpp:47-48`),
  and an automove in between, under the channel manager's mutex, commits to the
  position with the salt from before (`CommittedEarly`).  In each case a `CHECK`
  ends the daemon when the secrets are needed.  Two other aborts have a `fate` of
  their own: `setposition` looks for a position before it takes the lock, so the
  second of two calls fails the `CHECK` in `SetPosition`, and a refused signature
  ends the daemon as above.

### Fairness

* `Game`: weak fairness of the ZMQ worker taking the next notification, of the
  answer to `game_sendupdates`, and of `Start` reaching its `ReinitialiseState`:
  the threads are scheduled and RPC calls are answered (a failing call throws
  and ends the process).  No fairness of the daemon, of losses or of stops.
* `ZmqSubscriber`: the worker thread, whose poll times out every 100 ms, and the
  thread that waits in `join`.
* `GameRun`: strong fairness of the main thread and of each thread in
  `MainLoop::Stop` or in the signal handler, which get a lock that is free again
  and again; weak fairness of a waiting call once it holds Game's lock or was
  woken, and of the end of a handler that holds Game's lock.  No fairness of
  notifications, users or signals, and none of the timeout of
  a waiting call.
* `Channel`: the feeder of each player goes on reading and handing on, and moves
  in the mempool are mined; no fairness of users, broadcasts or faults.
* `GameStorage`: the thread of Game goes on whenever it does not wait for a reader
  (written out, as ENABLED of so large an action is costly), and a reader's
  callback ends.  Stops, kills and tips are bounded and need no fairness.
* None in the runs of Xayaships and of the example games.

## 4. Proofs

Everything below is proved for every value of the constants that their named
assumptions allow.  None of the properties is inductive by itself; for each
module the invariant is given that is.

**Game** (`GameProofs`), for every set of labels, height, batch size, and number
of moves, losses, failures, stops and resizes:

* `InvariantTheorem`: `Spec => []IInv`, `IInv == TypeOK /\ GoodStore(store) /\ SyncInv`;
  from it `TypeTheorem`, `StateTheorem` (`StateCorrect`), `HeightTheorem`
  (`HeightCacheCorrect`), `DurableTheorem` (`UpToDateIsDurable`) and
  `ExpectedStateTheorem` (`NoUnexpectedState`).  `StateCorrect` speaks of the view
  and the disk; a rollback makes the disk the view, so both must be right at
  once, together with their undo data, from which the next detach computes a
  state.  The height cache is right after a rollback only because it is dropped,
  and after a flush only if no batch means that disk and view agree.
  `NoUnexpectedState` needs that, while `state` is still `UNKNOWN` during `Start`,
  every topic's next message comes with a mismatch, and that a storage without a
  state is never left in a state that follows the chain.
* `AddedOnceTheorem` (`AddedAtMostOnce`), from `PendingInv`: what was added since
  `Clear` is among the known moves.
* `UpToDateTheorem` (`UpToDateMeansTip`), from `FollowInv`, an invariant on the
  contents of the channel: the last message on it without a token leads to the
  tip, so that handling it brings an up-to-date Game there (a message that does
  not attach to the current block is an error that ends in catching up); and a
  Game before genesis has the genesis block's announcement still before it.
* `CatchUpTheorem` (`CatchUpBacked`) has the hypothesis `~AllowInvalidate`: with
  invalidated blocks the property is false (section 3).  `CatchInv` adds to the
  above that nothing stored or announced is higher than the tip: a tip that
  arrives between the two calls of `ReinitialiseState` is then not the current
  block, and the answer to `game_sendupdates` is never empty.
* `PruneTheorem` (the action property `PruneKeepsBlocks`) has the same hypothesis,
  for the reason given in section 3.  `PruneInv` has three parts.  The messages
  without a token are a `Route`: each starts from the block the one before led to,
  and they reach the tip only with the last.  What the storage holds (`Held`) is
  on the genesis block's chain and below the tip unless the route is at its end,
  and a row of undo data that is only in the batch is of no block on the durable
  chain, so a crash drops none that is needed.  And while nothing was lost or
  failed (`Kept`), the i-th of n hashes in the queue is at least n - i lower than
  the current block (`Below`; when up to date or before genesis, than the start of
  the route), the undo data of the last n blocks is there (`UndoKept`), an
  up-to-date Game is at the start of the route, and the messages of the current
  request are a walk from the current block.  `Below` alone does not do: a detach
  whose undo data is missing clears the storage and takes only one hash from the
  queue, and only `UndoKept` shows that the queue was empty then.
* `PendingTheorem` (`PendingOnCurrentState`) has the same hypothesis and a second
  one, that the daemon has reached the genesis height when Game is first started
  (section 5 says what happens otherwise).  `ShownInv`: what an up-to-date Game has
  added moves to, and the last block the processor knows of, are the current
  block (`ShownOn`), and the blocks it remembers are a chain, so that a detach
  leads to the parent.  `ReinitialiseState` does not tell the processor anything;
  it must not make Game up to date unless it was before, has just started, or is
  in the handler of the tip.  So while Game catches up, neither the block it
  shows nor the durable one, to which a failed transaction goes back, is the
  tip, and of the blocks the current request attaches only the target can be as
  high as the tip (`FreshQueue`).  That an up-to-date Game which acts on a message
  is below the tip is what the `Route` of `PruneInv` says.

**Waiting calls** (`NotificationProofs`): `WaitInv`, and from it `StopWakesWaiters` and
`NoMissedChange`, for every set of waiters and blocks.  It is about
`StateWaiters` by itself, with `Start` and `Stop` at any time.  The heart is
`PhaseInv`: once `UntrackGame` has had the lock, no waiter is between its look at
`IsRunning` and its wait; `TrackGame` does the same for a version that `Stop`
raised without the lock.

**Subscriber** (`NotificationProofs`): `SubscriberTypeCorrect`, and
`SubscriberImplementsLink`, the refinement `Spec => LinkImplemented`, for any
modulus larger than the longest gap.  The invariant ties three numbers of a
topic together: the next one the daemon sends, the one the subscriber saw last,
and the numbers of the messages in between, consecutive up to the gaps.  A
message is in sequence exactly if nothing was lost because a gap is shorter than
the modulus.  Every step is a step of the abstract link or a stutter.

**Storages** (`StorageProofs`): `RowsMatchBlock` (`ContentMatchesBlock`),
`UndoDataRestores` (`UndoRestoresParent`), `UpToDateIsDurable`
(`CommittedIsDurable`), `ReadersAreConsistent` (`ReadersSeeTheirBlock`) and
`ChecksOfSQLiteGameHold`, for each of the three backends.  `StoreInv` says that
the image on disk and the one in the open batch are both good, each row of undo
data being the changeset of its block, and that the batch is exactly one
savepoint, with the image on disk to go back to (or one LMDB transaction); the
window after an aborted transaction, in which a savepoint may be left over, has
an invariant of its own.  `PhaseInv` says what is in the storage between the
steps of a reinitialisation.

**Channels** (`StateProofTheorems`, `ChannelProofs`), for any board rules that
satisfy `RulesAssumption` (a valid move leads to a state with a higher turn
count), any players, reinitialisations, faults and requests:

* `ExtendedProofVerifies`: what `ExtendStateProof` makes of a verifying proof
  verifies, its trimming included.
* `ChannelTypeCorrect`, `StateProofsVerify` (`ProofsVerify`), `ChainNotAhead`
  (`LatestNotBehindChain`), `ChecksHold` (`ChecksFailAsKnown`) and
  `DisputesEndFresher` (`DisputeNeedsFresherState`), from `ChannelInv`: every
  channel in a block, in what a feeder has fetched, in a broadcast on its way
  and in a manager has a proof that verifies for its reinitialisation, and the
  turn count seen on chain is at most that of the entry it belongs to.  For
  `ChecksHold`, a manager looks for automoves only if its channel exists or right
  after a message has brought a state fresher than what was on chain (`Ready`),
  so that only such a message can lead to `CHECK (exists)`.
* `PlayersAgree` (`AgreeOnMoves`), from `HistoryInv`: there is one state per
  reinitialisation and turn count that everything signed so far goes through.  A
  signature outlives the state it was given for, so the invariant is about
  every signed state in every proof that exists.

**Xayaships on chain** (`ShipsLogicProofs`), for any board game of two that has a
winner exactly when it is nobody's turn, any names, heights and moves:
`MatchesCountOnce` (`EveryMatchCountsOnce`), `NothingStaysOverdue`
(`NothingOverdue`), `PendingMovesAreCurrent` (`PendingIsCurrent`) and
`DisputesGetTheirTime` (`DisputeGetsItsTime`), from `LogicInv`: the two tables have
the same rows, each either a channel that waits for its second player or a match
with a turn, neither overdue at the height, and the stats sum up to the matches
that are not open.  The sum is a fold over the names; that it grows by the
number of matches closed (`TotalGrows`) is shown by induction on the size of a
set (`SubsetInduction`).  The heights are assumed to stay below `UIntMod`, without
which even the difference of heights above `DISPUTE_BLOCKS` would wrap.

**Xayaships in the channel** (`ShipsChannelProofs`), for every size of board,
every fleet, any positions, seeds, threads and faults, with the bounds of section
3 on when `setposition` is called and which boards are followed:

* `ValidPositionsAreFleets`: `VerifyPositionOfShips`, which follows each ship from
  its first cell and looks at the cells around it, accepts exactly the fleets of
  straight ships of which no two touch.  The ships it follows are the maximal
  lines in the grid, one for each start (`FoundInside`); the run's
  `PositionsAreFleets` is this on two boards of side 3.  With it comes `FleetSize`:
  a valid position has no more cells than `TotalShipCells`.
* `ShipsInvariant`, and from it `BoardsAreValid` (`BoardStaysValid`),
  `TurnCountsRise` (`MovesRaiseTurnCount`), `WinnersAreHonest` (`WinnerDidNotLie`),
  `HonestPlayersLoseOnlyIfSunk` (`LosesOnlyIfSunk`) and `DaemonChecksHold`
  (`AbortsOnlyWithoutSecrets`).  `GoodBoard` gives the form of a board in each
  phase; one lemma per move shows that it is kept and that the turn count rises.
  `Honest` ties a board to the secrets of a daemon: its hash is that of the
  position it keeps with its salt, or with the value the salt had before it was
  drawn, its seed hash is that of the seed it keeps, and the hits on the
  board are its ships among the cells guessed, except for a shot that still
  waits for an answer.  This must hold of the board that a switch of the chain
  has put aside, too, and is why a seed drawn again (`forgot`) ends it.
  `AbortsExplained` is what is inductive of `AbortsOnlyWithoutSecrets`: a daemon
  that has aborted on an early commitment leaves the board as it is (`Stuck`).
  A player
  who revealed first must have called `revealposition` or won; that and
  `FleetSize` make a lost game one in which every ship was hit.

The cells that `TurnCount` can see are the constant `LowCells`;
`LowCellsAssumption` (every valid position has one of them) is true of the board
of the code, as its comment explains, and is what makes the reveal of a daemon
raise the turn count.

The assumptions are those of the constants: their types, sizes and, for sets
that are joined with a value of their own, that the value is not in the set
(`BlockchainAssumption`, `PendingAssumption`, `GameAssumption`,
`WaitersAssumption`, `StorageAssumption`, `KeyAssumption`, `RollingAssumption`,
`AutoMoveAssumption`, `RulesAssumption`, `ChannelAssumption`, `LogicAssumption`,
`GridAssumption`, `BoardAssumption`, ...); TLC evaluates them in the runs.

Only model-checked:

* the liveness properties (`EventuallyInSync`, `LossRepaired`, `StopReturns`,
  `StopHonoured`, `DisputeAnswered`, `ChainReachesDaemons`,
  `FollowsOrKeepsTerminating`), which are out of the proof system's reach;
* the example games, whose blocks are folds of an operation over their moves.

`TypeOK` of `MainLoop` documents the variables and holds in the instance of the
run; the configuration leaves it out in favour of the properties above.

## 5. What is left out

* A handler that is interrupted by a crash leaves what a crash before or after it
  leaves, or, with pruning, what lies between its transactions.  The steps
  between `Clear` and the stored initial state are in `GameStorage`, not in `Game`.
* `GameStorage` takes the daemon to answer the calls of one reinitialisation for
  one tip; `Game` does not.
* A request token is used again only when the queue holds none of its messages.
* A restart enables pruning with the size it had.  A failing flush in
  `SetBatchSize` ends the process and is a `Crash`.
* `MemoryStorage` neither survives a restart nor rolls back; `Storage` is what
  the transaction manager expects of SQLite and LMDB.
* `PendingOnCurrentState` is checked with the genesis block at height 0 and proved
  for a daemon that has reached the genesis height, both without invalidated
  blocks.  With them it does not hold (a block that does not fit is handled when
  the daemon is back at Game's block: `ReinitialiseState` finds Game up to date,
  and `ProcessAttachedBlock` is told of the block that was refused), nor with a
  genesis height of 3 when the chain reaches it while Game starts: notifications
  of blocks below it are still queued when the genesis state is stored, and
  `ProcessAttachedBlock` is told of them.  Pending moves are documented as best
  effort.
* A restart of the daemon, which starts its sequence numbers over.
* Channels: `ChannelManager::WaitForChange` (built as Game's, see `StateWaiters`),
  protocol versions of proofs, the sequence numbers of the RPC broadcast, the
  sockets.  A broadcast is lost only with a restart of its receiver.
* Storages: `LMDBStorage.Clear` takes the empty image to fit into the map; the
  modelled game hands out no ids in `InitialiseState`, which the code would write
  after the savepoint is released (`sqlitegame.cpp:234-241`).
* SQLite: the cache of prepared statements, schema versions, conversions of
  column values.
* The JSON results, RPC and REST servers, configuration.  Of the parsing of moves,
  what is refused is modelled, not the shapes of JSON it is refused for.
* `ExampleGames` does not follow a chain on which Mover has undone a block with two
  moves of a player (`spoiled`), and mines the moves of a name in their order.

### Not modelled

The utilities (encodings, hashing, compression: pure functions on
bytes) and the integration test framework.

## 6. Plan

Done: the models of Game, the storages, the channels, Xayaships and the example
games, and the proofs of section 4.  Next, in this order:

1. An abstract specification of Game ("the shown state is that of some block,
   moves along the chain and reaches the tip") that `Game` implements, and one of
   the storage that `GameStorage` implements.
2. The sequence numbers of the RPC broadcast; `ChannelManager::WaitForChange`.

## 7. Running

    tlc -config MCGame_sync.cfg MCGame
    tlc -config MCChannel_dispute.cfg MCChannel
    tlapm GameProofs.tla

`PROJECT.json` lists every run with its module and configuration, the source
lines of every definition, the findings, the hazards and the theorems.
