-------------------------------- MODULE Game --------------------------------
(***************************************************************************)
(* The Game engine: it follows the daemon's best chain through ZMQ         *)
(* notifications, applies the game's rules block by block to the state in  *)
(* its storage, and resynchronises whenever something was missed.          *)
(*                                                                         *)
(* The handlers run under the lock `mut', so a handler is one action; the  *)
(* exception is ReinitialiseState, which asks the daemon twice             *)
(* (getblockchaininfo, then game_sendupdates) and so is cut between the    *)
(* two: the daemon moves on while Game holds its lock.                     *)
(*                                                                         *)
(* The daemon and the ZMQ channel are external.  A channel delivers in     *)
(* order and may lose messages; sequence numbers per topic, as             *)
(* ZmqSubscriber compares them, are reduced to what the comparison tells:  *)
(* whether the topic has a gap before its next message.                    *)
(***************************************************************************)
EXTENDS PruningQueue, PendingMoves

CONSTANTS
    InitTips,          \* the daemon's tip at the start
    BatchSize,         \* transactionBatchSize
    PruneSizes,        \* the sizes EnablePruning is called with
    PendingEnabled,    \* is there a PendingMoveProcessor?
    AllowInvalidate,   \* may the daemon leave its chain for a shorter one?
    MaxMoves, MaxLosses, MaxFails, MaxStops, MaxEnables     \* bounds

ASSUME GameAssumption ==
    /\ InitTips \subseteq Blocks
    /\ BatchSize \in Nat \ {0}
    /\ PruneSizes \subseteq Nat
    /\ {PendingEnabled, AllowInvalidate} \subseteq BOOLEAN
    /\ {MaxMoves, MaxLosses, MaxFails, MaxStops, MaxEnables} \subseteq Nat
    /\ NoPruning \notin Queue

VARIABLES
    tip,        \* the daemon's best block
    queue,      \* ZMQ messages on their way to the game
    link,       \* per topic: what is known of the sequence number
    phase,      \* the process: "stopped", "starting" or "running"
    state,      \* Game::state
    target,     \* targetBlockHash
    reqToken,   \* reqToken
    lastToken,  \* the last request token the daemon handed out
    rpc,        \* "sendupdates" while ReinitialiseState is about to call it
    store,      \* storage, with TransactionManager and height cache
    pruning,    \* pruningQueue
    pending,    \* pending
    used        \* how much of each bound is used up

daemonVars == <<tip, queue, link, lastToken>>
syncVars   == <<phase, state, target, reqToken, rpc>>
vars == <<daemonVars, syncVars, store, pruning, pending, used>>

-----------------------------------------------------------------------------
Topics == {"attach", "detach"}
NoToken == 0
Message == [type : Topics, block : Seq(Labels) \ {<<>>}, token : Nat]

(***************************************************************************)
(* What a topic's sequence numbers say: "first" before any message of the  *)
(* topic arrived (lastSeq has no entry), "ok" while there is no gap,       *)
(* "lost" once a message was lost, "stale" when messages of the other      *)
(* topic, which do not reveal the gap, have arrived since.                 *)
(***************************************************************************)
LinkState == {"first", "ok", "lost", "stale"}
States == {"UNKNOWN", "PREGENESIS", "OUT_OF_SYNC", "CATCHING_UP", "UP_TO_DATE"}
Bounds == {"moves", "losses", "fails", "stops", "enables"}

TypeOK ==
    /\ tip \in Seq(Labels)
    /\ queue \in Seq(Message)
    /\ link \in [Topics -> LinkState]
    /\ phase \in {"stopped", "starting", "running"}
    /\ state \in States
    /\ target \in Seq(Labels) \cup {NoBlock}
    /\ reqToken \in Nat /\ lastToken \in Nat
    /\ rpc \in {"none", "sendupdates"}
    /\ store \in Store
    /\ pruning \in Queue \cup {NoPruning}
    /\ pending \in Processor
    /\ used \in [Bounds -> Nat]

Init ==
    /\ tip \in InitTips
    /\ queue = <<>>
    /\ link = [t \in Topics |-> "first"]
    /\ phase = "stopped"
    /\ state = "UNKNOWN"
    /\ target = NoBlock
    /\ reqToken = NoToken /\ lastToken = NoToken
    /\ rpc = "none"
    /\ store = NewStore(EmptyDatabase)
    /\ pruning = NoPruning
    /\ pending = NewProcessor
    /\ used = [b \in Bounds |-> 0]

Use(b, max) == used[b] < max /\ used' = [used EXCEPT ![b] = @ + 1]

-----------------------------------------------------------------------------
(***************************************************************************)
(* The daemon and the channel.                                             *)
(***************************************************************************)
WithToken(steps, t) ==
    [i \in 1..Len(steps) |->
        [type |-> steps[i].type, block |-> steps[i].block, token |-> t]]

\* The daemon switches to block b and announces each step to subscribers.
DaemonMove(b) ==
    /\ Use("moves", MaxMoves)
    /\ b # tip
    /\ AllowInvalidate \/ Height(b) > Height(tip)
    /\ tip' = b
    /\ queue' = IF phase = "stopped" THEN queue
                ELSE queue \o WithToken(Updates(tip, b), NoToken)
    /\ UNCHANGED <<link, lastToken, syncVars, store, pruning, pending>>

Lose ==
    /\ queue # <<>>
    /\ Use("losses", MaxLosses)
    /\ link' = [link EXCEPT ![Head(queue).type] = "lost"]
    /\ queue' = Tail(queue)
    /\ UNCHANGED <<tip, lastToken, syncVars, store, pruning, pending>>

-----------------------------------------------------------------------------
(***************************************************************************)
(* Resynchronisation.                                                      *)
(***************************************************************************)

\* SyncFromCurrentState up to the call of game_sendupdates.
SyncFromCurrentState(s) ==
    IF s.view.block = tip
    THEN /\ state' = "UP_TO_DATE"
         /\ store' = SetBatchSize(s, 1)
         /\ rpc' = "none"
    ELSE /\ state' = "OUT_OF_SYNC"
         /\ store' = s
         /\ rpc' = "sendupdates"

\* Abort what is open, drop all data and store the initial state.
StoreInitialState(s) ==
    LET c == Clear(TryAbortTransaction(s))
    IN  CommitState(c, SetCurrentGameState(c.view, Genesis, InitialState))

ReinitialiseState(s) ==
    \/ /\ HasState(s.view)
       /\ SyncFromCurrentState(s)
       /\ UNCHANGED target
    \/ /\ ~HasState(s.view)
       /\ Height(tip) < Height(Genesis)
       /\ state' = "PREGENESIS"
       /\ target' = Genesis
       /\ store' = s
       /\ rpc' = "none"
    \/ /\ ~HasState(s.view)
       /\ Height(tip) >= Height(Genesis)
       /\ SyncFromCurrentState(StoreInitialState(s))
       /\ UNCHANGED target

\* game_sendupdates: the daemon sends the steps from the current block to its
\* tip, marked with a new token (a token is free again once no message has it).
SendUpdates ==
    /\ rpc = "sendupdates"
    /\ LET t == IF queue = <<>> THEN 1 ELSE lastToken + 1 IN
         /\ queue' = queue \o WithToken(Updates(store.view.block, tip), t)
         /\ lastToken' = t
         /\ reqToken' = t
    /\ target' = tip
    /\ state' = "CATCHING_UP"
    /\ store' = SetBatchSize(store, BatchSize)
    /\ rpc' = "none"
    /\ UNCHANGED <<tip, link, phase, pruning, pending, used>>

-----------------------------------------------------------------------------
(***************************************************************************)
(* Notifications.                                                          *)
(***************************************************************************)

\* Nobody holds the lock.
Unlocked == phase # "stopped" /\ rpc = "none"

\* The ZMQ thread takes the next message, of the given topic.
Receive(type) ==
    /\ Unlocked
    /\ queue # <<>>
    /\ Head(queue).type = type
    /\ queue' = Tail(queue)
    /\ link' = [t \in Topics |-> IF t = type THEN "ok"
                                 ELSE IF link[t] = "lost" THEN "stale"
                                 ELSE link[t]]
    /\ UNCHANGED <<tip, lastToken, phase, reqToken>>

\* Mutant: gaps in the sequence numbers are ignored.
SeqMismatchNever(type) == FALSE

\* Mutant: a topic's first message is taken for the successor of nothing lost.
SeqMismatchKnown(type) == link[type] \in {"lost", "stale"}

SeqMismatch(type) == link[type] # "ok"

IsReqtokenRelevant(m) ==
    m.token = IF state = "CATCHING_UP" THEN reqToken ELSE NoToken

\* A gap in the topic's numbers: whatever the message is, start over.
MissedNotifications(type) ==
    /\ Receive(type)
    /\ SeqMismatch(type)
    /\ ReinitialiseState(store)
    /\ pruning' = IF pruning = NoPruning THEN pruning ELSE Reset(pruning)
    /\ UNCHANGED <<pending, used>>

IgnoreNotification(type) ==
    /\ Receive(type)
    /\ ~SeqMismatch(type)
    /\ ~IsReqtokenRelevant(Head(queue))
    /\ UNCHANGED <<state, target, rpc, store, pruning, pending, used>>

\* The states in which a notification is applied to the game state.
Following == state \in {"CATCHING_UP", "UP_TO_DATE"}

\* The end of a handler: start over if needed.
Finish(needReinit, s) ==
    IF needReinit THEN ReinitialiseState(s)
    ELSE store' = s /\ UNCHANGED <<state, target, rpc>>

\* ... and tell the pending-move processor if the game is up to date then.
UpdatePending(type, b) ==
    IF PendingEnabled /\ state' = "UP_TO_DATE"
    THEN \E mempool \in SUBSET Moves :
            pending' = IF type = "attach"
                THEN ProcessAttachedBlock(pending, store'.view.state, b, mempool)
                ELSE ProcessDetachedBlock(pending, store'.view.state, b, mempool)
    ELSE UNCHANGED pending

-----------------------------------------------------------------------------
(***************************************************************************)
(* BlockAttach.                                                            *)
(***************************************************************************)
\* Mutant: the attached block's parent is not compared with the current block.
MatchesAny(b) == TRUE

Matches(b) == store.view.block = Parent(b)

\* UpdateStateForAttach: new state and undo data in one transaction.
AttachToState(s, b) ==
    LET old == s.view.state
    IN  CommitState(s, SetCurrentGameState(
                            AddUndoData(s.view, b, UndoFor(old, b)),
                            b, ProcessForward(old, b)))

UpdateStateForAttach(b) ==
    IF Following /\ Matches(b) THEN AttachToState(store, b) ELSE store

\* Mutant: reaching the target of catching up is not noticed.
AttachNeedsReinitNoTarget(b) == Following /\ ~Matches(b)

\* Mutant: a block that does not fit is only skipped.
AttachNeedsReinitNoMismatch(b) ==
    state \in {"PREGENESIS", "CATCHING_UP"} /\ b = target

AttachNeedsReinit(b) ==
    \/ Following /\ ~Matches(b)
    \/ state \in {"PREGENESIS", "CATCHING_UP"} /\ b = target

\* The CHECKs and LOG (FATAL) of a handler up to the update of the state.
StateChecks ==
    /\ state \in {"PREGENESIS", "CATCHING_UP", "UP_TO_DATE"}
    /\ Following => HasState(store.view)

PruningChecks(b) == pruning # NoPruning => FrontHeightCheck(Push(pruning, b), b)

BlockAttach ==
    /\ Receive("attach")
    /\ ~SeqMismatch("attach")
    /\ LET b == Head(queue).block
           s == UpdateStateForAttach(b) IN
         /\ IsReqtokenRelevant(Head(queue))
         /\ StateChecks /\ PruningChecks(b)
         /\ Finish(AttachNeedsReinit(b),
                   IF pruning = NoPruning THEN s
                   ELSE AttachBlockStore(pruning, b, s))
         /\ pruning' = IF pruning = NoPruning THEN pruning
                       ELSE AttachBlock(pruning, b)
         /\ UpdatePending("attach", b)
    /\ UNCHANGED used

\* What RetryWithNewTransaction can leave behind: it is thrown either in the
\* update of the state, and then the pruning queue does not learn of the
\* block, or later while pruning.
AttachFailures(b) ==
    (IF Following /\ Matches(b)
     THEN {[queue |-> pruning, store |-> Rollback(store)]} ELSE {})
    \cup (IF pruning = NoPruning THEN {}
          ELSE AttachBlockFailures(pruning, b, UpdateStateForAttach(b)))

BlockAttachRetry ==
    /\ Receive("attach")
    /\ ~SeqMismatch("attach")
    /\ Use("fails", MaxFails)
    /\ LET b == Head(queue).block IN
         /\ IsReqtokenRelevant(Head(queue))
         /\ StateChecks /\ PruningChecks(b)
         /\ \E f \in AttachFailures(b) :
              /\ ReinitialiseState(f.store)
              /\ pruning' = f.queue
         /\ UpdatePending("attach", b)

-----------------------------------------------------------------------------
(***************************************************************************)
(* BlockDetach.                                                            *)
(***************************************************************************)
IsCurrent(b) == store.view.block = b

DetachFromState(s, b, data) ==
    CommitState(s, ReleaseUndoData(
        SetCurrentGameState(s.view, Parent(b),
                            ProcessBackwards(s.view.state, b, data)),
        {b}))

\* UpdateStateForDetach: without undo data, give the whole state up.
UpdateStateForDetach(b) ==
    IF ~Following \/ ~IsCurrent(b) THEN store
    ELSE IF UndoDataOf(store.view, b) = {} THEN Clear(TryAbortTransaction(store))
    ELSE LET r == CHOOSE r \in UndoDataOf(store.view, b) : TRUE
         IN  DetachFromState(store, b, r.data)

DetachNeedsReinit(b) ==
    \/ Following /\ (~IsCurrent(b) \/ UndoDataOf(store.view, b) = {})
    \/ state = "CATCHING_UP" /\ Parent(b) = target

BlockDetach ==
    /\ Receive("detach")
    /\ ~SeqMismatch("detach")
    /\ LET b == Head(queue).block IN
         /\ IsReqtokenRelevant(Head(queue))
         /\ StateChecks
         /\ Finish(DetachNeedsReinit(b), UpdateStateForDetach(b))
         /\ UpdatePending("detach", b)
    /\ pruning' = IF pruning = NoPruning THEN pruning ELSE DetachBlock(pruning)
    /\ UNCHANGED used

BlockDetachRetry ==
    /\ Receive("detach")
    /\ ~SeqMismatch("detach")
    /\ Use("fails", MaxFails)
    /\ LET b == Head(queue).block IN
         /\ IsReqtokenRelevant(Head(queue))
         /\ StateChecks
         /\ Following /\ IsCurrent(b) /\ UndoDataOf(store.view, b) # {}
         /\ ReinitialiseState(Rollback(store))
         /\ UpdatePending("detach", b)
    /\ UNCHANGED pruning

-----------------------------------------------------------------------------
(***************************************************************************)
(* The other users of the lock: pending moves, RPC calls that read the     *)
(* state, and EnablePruning.                                               *)
(***************************************************************************)
PendingMove(m) ==
    /\ PendingEnabled
    /\ Unlocked
    /\ state = "UP_TO_DATE"
    /\ pending' = ProcessMove(pending, store.view.state, m)
    /\ UNCHANGED <<daemonVars, syncVars, store, pruning, used>>

GetCustomStateData ==
    /\ Unlocked
    /\ store' = FillHeight(store)
    /\ UNCHANGED <<daemonVars, syncVars, pruning, pending, used>>

EnablePruning(n) ==
    /\ rpc = "none"
    /\ Use("enables", MaxEnables)
    /\ IF pruning = NoPruning
       THEN pruning' = NewQueue(n) /\ UNCHANGED store
       ELSE /\ pruning' = SetDesiredSize(pruning, n)
            /\ store' = SetDesiredSizeStore(pruning, n, store)
    /\ UNCHANGED <<daemonVars, syncVars, pending>>

-----------------------------------------------------------------------------
(***************************************************************************)
(* The process.                                                            *)
(***************************************************************************)

\* Start subscribes first and then takes the lock: notifications may be
\* handled in between.
Start ==
    /\ phase = "stopped"
    /\ phase' = "starting"
    /\ link' = [t \in Topics |-> "first"]
    /\ UNCHANGED <<tip, queue, lastToken, state, target, reqToken, rpc, store,
                   pruning, pending, used>>

StartReinitialise ==
    /\ phase = "starting" /\ rpc = "none"
    /\ phase' = "running"
    /\ ReinitialiseState(store)
    /\ UNCHANGED <<daemonVars, reqToken, pruning, pending, used>>

\* The process is gone, with what it had in memory.
Terminated(db) ==
    /\ phase' = "stopped"
    /\ state' = "UNKNOWN"
    /\ target' = NoBlock
    /\ reqToken' = NoToken
    /\ rpc' = "none"
    /\ store' = NewStore(db)
    /\ pruning' = IF pruning = NoPruning THEN pruning
                  ELSE NewQueue(pruning.nBlocks)
    /\ pending' = NewProcessor
    /\ queue' = <<>>
    /\ UNCHANGED <<tip, link, lastToken>>

\* Stop, after which the TransactionManager's destructor flushes the batch.
Stop ==
    /\ phase = "running" /\ rpc = "none"
    /\ Use("stops", MaxStops)
    /\ Terminated(Flush(store).disk)

Crash ==
    /\ phase # "stopped"
    /\ Use("stops", MaxStops)
    /\ Terminated(store.disk)

\* The process ends inside BlockAttach, between the transaction that updates
\* the state and those that prune: a crash, or the CHECK in the pruning queue.
CrashInPruning ==
    /\ Unlocked /\ queue # <<>> /\ pruning # NoPruning
    /\ LET m == Head(queue)
           s == UpdateStateForAttach(m.block)
           p == InitialPruneStore(Push(pruning, m.block), m.block, s) IN
         /\ m.type = "attach" /\ ~SeqMismatch("attach")
         /\ IsReqtokenRelevant(m)
         /\ StateChecks
         /\ \/ ~PruningChecks(m.block) /\ Terminated(s.disk) /\ UNCHANGED used
            \/ /\ PruningChecks(m.block) /\ Use("stops", MaxStops)
               /\ \E t \in {s, p} : Terminated(t.disk)

-----------------------------------------------------------------------------
Notification ==
    \/ \E type \in Topics : MissedNotifications(type) \/ IgnoreNotification(type)
    \/ BlockAttach
    \/ BlockDetach

Next ==
    \/ \E b \in Blocks : DaemonMove(b)
    \/ Lose
    \/ Notification
    \/ BlockAttachRetry
    \/ BlockDetachRetry
    \/ SendUpdates
    \/ \E m \in Moves : PendingMove(m)
    \/ GetCustomStateData
    \/ \E n \in PruneSizes : EnablePruning(n)
    \/ Start
    \/ StartReinitialise
    \/ Stop
    \/ Crash
    \/ CrashInPruning

Spec == Init /\ [][Next]_vars

\* The threads of the process run: the ZMQ thread takes what is there, and a
\* started initialisation and a daemon call get to their end.
Fairness == WF_vars(Notification) /\ WF_vars(SendUpdates) /\ WF_vars(StartReinitialise)

FairSpec == Spec /\ Fairness

-----------------------------------------------------------------------------
(***************************************************************************)
(* Properties.                                                             *)
(***************************************************************************)
DatabaseCorrect(db) ==
    /\ HasState(db) => /\ db.state = StateOf(db.block)
                       /\ Height(db.block) >= Height(Genesis)
    /\ \A r \in db.undo : /\ Height(r.block) > Height(Genesis)
                          /\ r.height = Height(r.block)
                          /\ r.data = StateOf(Parent(r.block))

\* Whatever is lost, reordered by a reorg, rolled back or cut off by a crash:
\* the state Game shows (and the one it would restart from) is the one the
\* rules define for the block it is stored for, and undo data leads back to
\* the state of the block's parent.
StateCorrect == DatabaseCorrect(store.view) /\ DatabaseCorrect(store.disk)

HeightCached(s) ==
    s.hasHeight => /\ HasState(s.view)
                   /\ s.cachedHeight = Height(s.view.block)

\* The height StorageWithCachedHeight serves with the current block is that
\* block's height, across batches that are rolled back and storage that is
\* cleared ("Cached height is wrong").
HeightCacheCorrect == HeightCached(store)

\* Once Game says it is up to date, what it shows is durable: no batch of
\* transactions from catching up is left open.
UpToDateIsDurable ==
    state = "UP_TO_DATE" => store.batched = 0 /\ store.disk = store.view

(***************************************************************************)
(* The inductive invariant behind the four safety properties that hold     *)
(* unconditionally (StateCorrect, HeightCacheCorrect, UpToDateIsDurable    *)
(* and NoUnexpectedState).                                                 *)
(***************************************************************************)
GoodStore(s) ==
    /\ s \in Store
    /\ DatabaseCorrect(s.view) /\ DatabaseCorrect(s.disk)
    /\ HeightCached(s)
    /\ s.batched = 0 => s.disk = s.view

SyncInv ==
    /\ Following \/ rpc = "sendupdates" => HasState(store.view)
    /\ state = "UP_TO_DATE" => store.batchSize = 1 /\ store.batched = 0
    /\ rpc = "sendupdates" <=> state = "OUT_OF_SYNC"
    /\ phase = "stopped" => state = "UNKNOWN"
    /\ phase # "stopped" /\ state = "UNKNOWN" => \A t \in Topics : link[t] # "ok"

IInv == TypeOK /\ GoodStore(store) /\ SyncInv

Missing == \E t \in Topics : link[t] \in {"lost", "stale"}

\* UP_TO_DATE is true: if no message was lost and no ordinary notification is
\* on its way, the current block is the daemon's tip, and before the genesis
\* height the daemon really is below it.
UpToDateMeansTip ==
    /\ ~Missing
    /\ \A i \in 1..Len(queue) : queue[i].token # NoToken
    => /\ state = "UP_TO_DATE" => store.view.block = tip
       /\ state = "PREGENESIS" => Height(tip) < Height(Genesis)

\* A handler never finds a state it does not expect (LOG (FATAL)), nor a
\* storage without a game state where it needs one (CHECK): not in the window
\* in which Start has subscribed and not yet initialised, and not after the
\* storage was cleared.
NoUnexpectedState ==
    (Unlocked /\ queue # <<>>) =>
        (~SeqMismatch(Head(queue).type) /\ IsReqtokenRelevant(Head(queue))
            => StateChecks)

\* While catching up, the updates that lead to the target are on their way
\* ("We are not at the daemon's current tip, and have requested updates").
CatchUpBacked ==
    (state = "CATCHING_UP" /\ ~Missing) =>
        \E i \in 1..Len(queue) :
            /\ queue[i].token = reqToken
            /\ \/ queue[i].type = "attach" /\ queue[i].block = target
               \/ queue[i].type = "detach" /\ Parent(queue[i].block) = target

\* Every notification so far arrived and every transaction was committed.
Undisturbed == used["losses"] = 0 /\ used["fails"] = 0

\* Undo data of a block that stays on the current chain is only dropped when
\* the block is at least nBlocks deep ("the given number of blocks to keep"),
\* as long as the pruning queue was told of exactly the blocks that were
\* attached: BlockAttach also hands it a block that the state refused, and a
\* batch that is rolled back stays in it.
PruneKeepsBlocks ==
    [][Undisturbed' /\ pruning' # NoPruning =>
        \A r \in store.view.undo \ store'.view.undo :
            (HasState(store'.view) /\ OnChain(r.block, store'.view.block))
            => Height(store'.view.block) - Height(r.block) >= pruning'.nBlocks
      ]_vars

\* The pruning queue's CHECK_GE (height + 1, hashes.size ()) cannot fail ("This
\* is guaranteed to be non-negative, as we had at least as many attaches in a
\* row as the size of the queue").
PruningCheckHolds ==
    /\ Unlocked /\ queue # <<>>
    /\ Head(queue).type = "attach" /\ ~SeqMismatch("attach")
    /\ IsReqtokenRelevant(Head(queue)) /\ StateChecks
    => PruningChecks(Head(queue).block)

\* The pending state Game shows as up to date was built on the confirmed
\* state it shows, with the meta data of that state's block.
PendingOnCurrentState ==
    state = "UP_TO_DATE" =>
        pending.contexts \subseteq {[block |-> store.view.block,
                                     state |-> store.view.state]}

\* "Between calls to Clear, [AddPendingMove] is called at most once for any
\* particular transaction."
AddedAtMostOnce == \A m \in Moves : pending.added[m] <= 1

Synced ==
    \/ state = "UP_TO_DATE" /\ store.view.block = tip
    \/ state = "PREGENESIS" /\ Height(tip) < Height(Genesis)

\* When the daemon settles down, Game ends up in sync with it and stays so,
\* unless it is stopped or the very last message to it was lost.
EventuallyInSync ==
    <>[](Synced \/ phase = "stopped" \/ \E t \in Topics : link[t] = "lost")

\* "If we missed notifications, always reinitialise the state to make sure
\* that all is again consistent": a lost notification after which others
\* arrive is made good for.
LossRepaired ==
    \A t \in Topics :
        link[t] = "stale" ~> (link[t] # "stale" \/ Synced \/ phase = "stopped")
=============================================================================
