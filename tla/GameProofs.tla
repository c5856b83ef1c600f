----------------------------- MODULE GameProofs -----------------------------
(***************************************************************************)
(* IInv (Game) is an invariant of Game for every value of the constants,   *)
(* and the safety properties follow from it.                               *)
(*                                                                         *)
(* The argument goes bottom up: operators on blocks and databases keep     *)
(* their types; every operation on the storage keeps a store good; the     *)
(* block handlers' operators leave a good store; every action of Next      *)
(* keeps IInv.  The invariants on the channel come after that, each        *)
(* inductive relative to the ones before it: FollowInv, CatchInv, PruneInv *)
(* and ShownInv.                                                           *)
(***************************************************************************)
EXTENDS Game, BlockchainLemmas

USE DEF Height

\* Request tokens keep messages messages.
LEMMA WithTokenType ==
    ASSUME NEW steps \in Seq(Step), NEW t \in Nat
    PROVE  WithToken(steps, t) \in Seq(Message)
<1>1. \A i \in 1..Len(steps) : steps[i] \in Step
  BY ElementOfSeq
<1>2. \A i \in 1..Len(steps) :
        [type |-> steps[i].type, block |-> steps[i].block, token |-> t] \in Message
  BY <1>1 DEF Step, Message, Topics
<1>3. QED
  BY <1>2, IsASeq DEF WithToken

-----------------------------------------------------------------------------
(***************************************************************************)
(* The storage operators keep a store good.                                *)
(***************************************************************************)
CorrectDatabase == {db \in Database : DatabaseCorrect(db)}

\* A cleared storage is correct.
LEMMA EmptyDatabaseCorrect == EmptyDatabase \in CorrectDatabase
  BY EmptySeq DEF EmptyDatabase, CorrectDatabase, Database, DatabaseCorrect, HasState

\* A correct database on disk makes a good store after a restart.
LEMMA NewStoreGood ==
    ASSUME NEW db \in CorrectDatabase
    PROVE  GoodStore(NewStore(db))
  BY DEF CorrectDatabase, NewStore, GoodStore, Store, HeightCached

\* Flushing a batch keeps a store good.
LEMMA FlushGood ==
    ASSUME NEW s, GoodStore(s)
    PROVE  GoodStore(Flush(s)) /\ Flush(s).view = s.view /\ Flush(s).batched = 0
           /\ Flush(s).batchSize = s.batchSize /\ Flush(s).disk = s.view
<1> DEFINE f == Flush(s)
<1>1. s \in Store /\ s.batched \in Nat /\ s.disk \in Database /\ s.view \in Database
  BY DEF GoodStore, Store
<1>2. /\ f \in Store
      /\ f.view = s.view /\ f.batchSize = s.batchSize /\ f.batched = 0
      /\ f.hasHeight = s.hasHeight /\ f.cachedHeight = s.cachedHeight
      /\ f.disk = IF s.batched > 0 THEN s.view ELSE s.disk
  BY <1>1 DEF Flush, Store
<1>3. f.disk = s.view
  BY <1>1, <1>2 DEF GoodStore
<1> HIDE DEF f
<1>4. GoodStore(f)
  BY <1>2, <1>3 DEF GoodStore, HeightCached
<1>5. QED
  BY <1>2, <1>3, <1>4 DEF f

\* What a commit leaves in the store, batched or flushed.
LEMMA CommitFields ==
    ASSUME NEW s \in Store, NEW v \in Database
    PROVE  /\ Commit(s, v) \in Store
           /\ Commit(s, v).view = v
           /\ Commit(s, v).disk \in {s.disk, v}
           /\ Commit(s, v).batched = 0 => Commit(s, v).disk = v
           /\ Commit(s, v).batchSize = s.batchSize
           /\ s.batchSize = 1 => Commit(s, v).batched = 0
           /\ Commit(s, v).hasHeight = s.hasHeight
           /\ Commit(s, v).cachedHeight = s.cachedHeight
<1> DEFINE t == [s EXCEPT !.view = v, !.batched = @ + 1]
<1>0. s.batched + 1 \in Nat /\ s.batched \in Nat /\ s.batchSize \in Nat \ {0}
  BY DEF Store
<1>a. t = [s EXCEPT !.view = v, !.batched = s.batched + 1]
  BY <1>0 DEF Store
<1>1. /\ t \in Store /\ t.view = v /\ t.disk = s.disk
      /\ t.batchSize = s.batchSize /\ t.batched = s.batched + 1
      /\ t.hasHeight = s.hasHeight /\ t.cachedHeight = s.cachedHeight
  BY <1>0, <1>a DEF Store
<1> HIDE DEF t
<1>2. CASE t.batched >= t.batchSize
  <2>0. t.batched > 0
    BY <1>0, <1>1
  <2>1. /\ Flush(t) \in Store /\ Flush(t).view = t.view /\ Flush(t).disk = t.view
        /\ Flush(t).batched = 0 /\ Flush(t).batchSize = t.batchSize
        /\ Flush(t).hasHeight = t.hasHeight
        /\ Flush(t).cachedHeight = t.cachedHeight
    BY <1>1, <2>0 DEF Flush, Store
  <2>2. Commit(s, v) = Flush(t)
    BY <1>2 DEF Commit, t
  <2>3. QED
    BY <1>0, <1>1, <2>1, <2>2
<1>3. CASE ~(t.batched >= t.batchSize)
  <2>1. Commit(s, v) = t
    BY <1>3 DEF Commit, t
  <2>2. QED
    BY <1>0, <1>1, <1>3, <2>1
<1>4. QED
  BY <1>2, <1>3

\* A commit that leaves the current block alone.
LEMMA CommitGood ==
    ASSUME NEW s, GoodStore(s), NEW v \in CorrectDatabase, v.block = s.view.block
    PROVE  /\ GoodStore(Commit(s, v))
           /\ Commit(s, v).view = v
           /\ Commit(s, v).batchSize = s.batchSize
           /\ s.batchSize = 1 => Commit(s, v).batched = 0
<1>1. s \in Store /\ v \in Database
  BY DEF GoodStore, CorrectDatabase
<1> DEFINE c == Commit(s, v)
<1>2. /\ c \in Store /\ c.view = v /\ c.disk \in {s.disk, v}
      /\ c.batched = 0 => c.disk = v
      /\ c.hasHeight = s.hasHeight /\ c.cachedHeight = s.cachedHeight
  BY <1>1, CommitFields
<1> HIDE DEF c
<1>3. GoodStore(c)
  BY <1>2 DEF GoodStore, CorrectDatabase, HeightCached, HasState
<1>4. QED
  BY <1>1, <1>3, CommitFields DEF c

\* Committing a correct database with its block's height keeps a store good.
LEMMA CommitStateGood ==
    ASSUME NEW s, GoodStore(s), NEW v \in CorrectDatabase, HasState(v)
    PROVE  /\ GoodStore(CommitState(s, v))
           /\ CommitState(s, v).view = v
           /\ CommitState(s, v).batchSize = s.batchSize
           /\ s.batchSize = 1 => CommitState(s, v).batched = 0
<1>1. s \in Store /\ v \in Database /\ Height(v.block) \in Nat
  BY LenProperties DEF GoodStore, CorrectDatabase, Database, HasState
<1> DEFINE c == Commit(s, v)
           d == CommitState(s, v)
<1>2. /\ c \in Store /\ c.view = v /\ c.disk \in {s.disk, v}
      /\ c.batched = 0 => c.disk = v
      /\ c.batchSize = s.batchSize /\ (s.batchSize = 1 => c.batched = 0)
  BY <1>1, CommitFields
<1>3. /\ d \in Store /\ d.view = c.view /\ d.disk = c.disk
      /\ d.batched = c.batched /\ d.batchSize = c.batchSize
      /\ d.hasHeight = TRUE /\ d.cachedHeight = Height(v.block)
  BY <1>1, <1>2 DEF CommitState, Store
<1> HIDE DEF c, d
<1>4. GoodStore(d)
  BY <1>2, <1>3 DEF GoodStore, CorrectDatabase, HeightCached
<1>5. QED
  BY <1>2, <1>3, <1>4 DEF d

\* Rolling back to what is on disk keeps a store good.
LEMMA RollbackGood ==
    ASSUME NEW s, GoodStore(s)
    PROVE  /\ GoodStore(Rollback(s)) /\ Rollback(s).batched = 0
           /\ Rollback(s).batchSize = s.batchSize
  BY DEF GoodStore, Store, HeightCached, Rollback

\* So does the abort and Clear before a resync from scratch.
LEMMA AbortAndClearGood ==
    ASSUME NEW s, GoodStore(s)
    PROVE  LET c == Clear(TryAbortTransaction(s))
           IN  GoodStore(c) /\ c.view = EmptyDatabase /\ c.batched = 0
<1> DEFINE a == TryAbortTransaction(s)
<1>1. GoodStore(a) /\ a.batched = 0
  BY RollbackGood DEF TryAbortTransaction, GoodStore, Store
<1> HIDE DEF a
<1>2. GoodStore(Clear(a)) /\ Clear(a).view = EmptyDatabase /\ Clear(a).batched = 0
  BY <1>1, EmptyDatabaseCorrect
     DEF GoodStore, Store, HeightCached, Clear, CorrectDatabase
<1>3. QED
  BY <1>2 DEF a

\* A change of the batch size keeps a store good.
LEMMA SetBatchSizeGood ==
    ASSUME NEW s, GoodStore(s), NEW n \in Nat \ {0}
    PROVE  /\ GoodStore(SetBatchSize(s, n))
           /\ SetBatchSize(s, n).view = s.view
           /\ SetBatchSize(s, n).batchSize = n
           /\ n = 1 => SetBatchSize(s, n).batched = 0
<1> DEFINE t == [s EXCEPT !.batchSize = n]
<1>1. /\ t \in Store /\ t.view = s.view /\ t.disk = s.disk
      /\ t.batchSize = n /\ t.batched = s.batched /\ t.batched \in Nat
      /\ t.hasHeight = s.hasHeight /\ t.cachedHeight = s.cachedHeight
  BY DEF GoodStore, Store
<1>2. SetBatchSize(s, n) = IF t.batched >= n THEN Flush(t) ELSE t
  BY <1>1 DEF SetBatchSize
<1> HIDE DEF t
<1>3. GoodStore(t)
  BY <1>1 DEF GoodStore, HeightCached
<1>4. QED
  BY <1>1, <1>2, <1>3, FlushGood

\* Filling the height cache on a read keeps a store good.
LEMMA FillHeightGood ==
    ASSUME NEW s, GoodStore(s)
    PROVE  /\ GoodStore(FillHeight(s))
           /\ FillHeight(s).view = s.view
           /\ FillHeight(s).batchSize = s.batchSize
           /\ FillHeight(s).batched = s.batched
  BY LenProperties DEF GoodStore, Store, HeightCached, FillHeight, HasState, Database

-----------------------------------------------------------------------------
(***************************************************************************)
(* The pruning queue: queues stay queues, and pruning keeps a store good   *)
(* and its current block where it is.                                      *)
(***************************************************************************)
SameBlock(s, t) ==
    /\ GoodStore(t)
    /\ t.view.block = s.view.block
    /\ t.batchSize = s.batchSize
    /\ s.batchSize = 1 /\ s.batched = 0 => t.batched = 0

\* Releasing the undo data of a block keeps a database correct.
LEMMA ReleaseCorrect ==
    ASSUME NEW db \in CorrectDatabase, NEW S
    PROVE  ReleaseUndoData(db, S) \in CorrectDatabase
           /\ ReleaseUndoData(db, S).block = db.block
  BY DEF CorrectDatabase, Database, DatabaseCorrect, ReleaseUndoData, HasState

\* Pruning undo data keeps a database correct.
LEMMA PruneCorrect ==
    ASSUME NEW db \in CorrectDatabase, NEW h \in Int
    PROVE  PruneUndoData(db, h) \in CorrectDatabase
           /\ PruneUndoData(db, h).block = db.block
  BY DEF CorrectDatabase, Database, DatabaseCorrect, PruneUndoData, HasState

\* The operations of the pruning queue return queues.
LEMMA QueueTypes ==
    ASSUME NEW q \in Queue
    PROVE  /\ q.hashes \in Seq(Seq(Labels)) /\ Len(q.hashes) \in Nat
           /\ q.nBlocks \in Nat /\ q.initialPruningDone \in BOOLEAN
           /\ Excess(q) \in 0..Len(q.hashes)
           /\ \A k \in 0..Len(q.hashes) : DropFront(q, k) \in Queue
           /\ \A b \in Seq(Labels) : Push(q, b) \in Queue
           /\ InitialPrune(q) \in Queue /\ Excess(InitialPrune(q)) = Excess(q)
           /\ InitialPrune(q).hashes = q.hashes
           /\ Reset(q) \in Queue
           /\ DetachBlock(q) \in Queue
<1>1. /\ q.hashes \in Seq(Seq(Labels)) /\ Len(q.hashes) \in Nat
      /\ q.nBlocks \in Nat /\ q.initialPruningDone \in BOOLEAN
  BY DEF Queue
<1>2. Excess(q) \in 0..Len(q.hashes)
  BY <1>1 DEF Excess
<1>3. ASSUME NEW k \in 0..Len(q.hashes) PROVE DropFront(q, k) \in Queue
  <2>1. SubSeq(q.hashes, k + 1, Len(q.hashes)) \in Seq(Seq(Labels))
    BY <1>1
  <2>2. QED
    BY <2>1 DEF DropFront, Queue
<1>4. ASSUME NEW b \in Seq(Labels) PROVE Push(q, b) \in Queue
  <2>1. Append(q.hashes, b) \in Seq(Seq(Labels))
    BY <1>1
  <2>2. QED
    BY <2>1 DEF Push, Queue
<1>5. /\ InitialPrune(q) \in Queue /\ InitialPrune(q).hashes = q.hashes
      /\ InitialPrune(q).nBlocks = q.nBlocks
  BY <1>1 DEF InitialPrune, Queue, FillsUp
<1>6. Reset(q) \in Queue
  BY EmptySeq DEF Reset, Queue
<1>7. DetachBlock(q) \in Queue
  <2>1. CASE q.hashes = <<>>
    BY <2>1 DEF DetachBlock, Queue
  <2>2. CASE q.hashes # <<>>
    <3>1. SubSeq(q.hashes, 1, Len(q.hashes) - 1) \in Seq(Seq(Labels))
      BY <1>1
    <3>2. QED
      BY <2>2, <3>1 DEF DetachBlock, Queue
  <2>3. QED
    BY <2>1, <2>2
<1>8. QED
  BY <1>1, <1>2, <1>3, <1>4, <1>5, <1>6, <1>7 DEF Excess

\* PruneIfTooLong keeps a store good.
LEMMA PruneIfTooLongGood ==
    ASSUME NEW q \in Queue, NEW s, GoodStore(s)
    PROVE  /\ PruneIfTooLong(q) \in Queue
           /\ SameBlock(s, PruneIfTooLongStore(q, s))
<1>1. PruneIfTooLong(q) \in Queue
  BY QueueTypes DEF PruneIfTooLong
<1>2. CASE Excess(q) = 0
  BY <1>1, <1>2 DEF PruneIfTooLongStore, SameBlock
<1>3. CASE Excess(q) # 0
  <2> DEFINE v == ReleaseUndoData(s.view, {q.hashes[i] : i \in 1..Excess(q)})
  <2>1. s.view \in CorrectDatabase
    BY DEF GoodStore, Store, CorrectDatabase
  <2>2. v \in CorrectDatabase /\ v.block = s.view.block
    BY <2>1, ReleaseCorrect
  <2> HIDE DEF v
  <2>3. SameBlock(s, Commit(s, v))
    BY <2>2, CommitGood DEF SameBlock
  <2>4. QED
    BY <1>1, <1>3, <2>3 DEF PruneIfTooLongStore, v
<1>4. QED
  BY <1>2, <1>3

\* The first pruning of a queue that fills up keeps a store good.
LEMMA InitialPruneGood ==
    ASSUME NEW q \in Queue, NEW b \in Seq(Labels), NEW s, GoodStore(s)
    PROVE  SameBlock(s, InitialPruneStore(q, b, s))
<1>1. FrontHeight(q, b) - 1 \in Int
  BY QueueTypes, LenProperties DEF FrontHeight
<1> DEFINE v == PruneUndoData(s.view, FrontHeight(q, b) - 1)
<1>2. s.view \in CorrectDatabase
  BY DEF GoodStore, Store, CorrectDatabase
<1>3. v \in CorrectDatabase /\ v.block = s.view.block
  BY <1>1, <1>2, PruneCorrect
<1> HIDE DEF v
<1>4. SameBlock(s, Commit(s, v))
  BY <1>3, CommitGood DEF SameBlock
<1>5. QED
  BY <1>4 DEF InitialPruneStore, SameBlock, v

\* PruningQueue::AttachBlock keeps a store good.
LEMMA AttachBlockGood ==
    ASSUME NEW q \in Queue, NEW b \in Seq(Labels), NEW s, GoodStore(s)
    PROVE  /\ AttachBlock(q, b) \in Queue
           /\ SameBlock(s, AttachBlockStore(q, b, s))
           /\ \A f \in AttachBlockFailures(q, b, s) :
                f.queue \in Queue /\ GoodStore(f.store)
<1> DEFINE p == Push(q, b)
           s1 == InitialPruneStore(p, b, s)
<1>1. p \in Queue /\ InitialPrune(p) \in Queue
  BY QueueTypes
<1>2. SameBlock(s, s1)
  BY <1>1, InitialPruneGood
<1>3. SameBlock(s1, PruneIfTooLongStore(InitialPrune(p), s1))
      /\ PruneIfTooLong(InitialPrune(p)) \in Queue
  BY <1>1, <1>2, PruneIfTooLongGood DEF SameBlock
<1>4. ASSUME NEW f \in AttachBlockFailures(q, b, s)
      PROVE  f.queue \in Queue /\ GoodStore(f.store)
  <2>1. GoodStore(Rollback(s)) /\ GoodStore(Rollback(s1))
    BY <1>2, RollbackGood DEF SameBlock
  <2>2. \A k \in 0..Excess(p) : DropFront(InitialPrune(p), k) \in Queue
    BY <1>1, QueueTypes
  <2> HIDE DEF p, s1
  <2>3. \/ f = [queue |-> p, store |-> Rollback(s)]
        \/ \E k \in 0..Excess(p) : f = [queue |-> DropFront(InitialPrune(p), k),
                                        store |-> Rollback(s1)]
    BY <1>4 DEF AttachBlockFailures, p, s1
  <2>4. QED
    BY <1>1, <2>1, <2>2, <2>3
<1>5. QED
  BY <1>2, <1>3, <1>4 DEF AttachBlock, AttachBlockStore, SameBlock

\* PruningQueue::SetDesiredSize keeps a store good.
LEMMA SetDesiredSizeGood ==
    ASSUME NEW q \in Queue, NEW n \in Nat, NEW s, GoodStore(s)
    PROVE  /\ SetDesiredSize(q, n) \in Queue
           /\ SameBlock(s, SetDesiredSizeStore(q, n, s))
<1>1. [q EXCEPT !.nBlocks = n] \in Queue
  BY DEF Queue
<1>2. QED
  BY <1>1, PruneIfTooLongGood DEF SetDesiredSize, SetDesiredSizeStore

-----------------------------------------------------------------------------
(***************************************************************************)
(* The updates of the game state.                                          *)
(***************************************************************************)

\* Attaching a block to its parent's state gives the block's own state, and
\* undo data that leads back.
LEMMA AttachToStateGood ==
    ASSUME NEW s, GoodStore(s), NEW b \in Seq(Labels) \ {<<>>},
           s.view.block = Parent(b)
    PROVE  LET t == AttachToState(s, b)
           IN  /\ GoodStore(t) /\ t.view.block = b
               /\ t.batchSize = s.batchSize
               /\ s.batchSize = 1 => t.batched = 0
<1> DEFINE old == s.view.state
           u == AddUndoData(s.view, b, UndoFor(old, b))
           v == SetCurrentGameState(u, b, ProcessForward(old, b))
<1>1. s.view \in Database /\ DatabaseCorrect(s.view)
  BY DEF GoodStore, Store
<1>2. /\ Parent(b) \in Seq(Labels) /\ Len(Parent(b)) = Len(b) - 1
      /\ Len(b) \in Nat /\ Append(Parent(b), b[Len(b)]) = b
  BY ParentType, AppendParent
<1>3. /\ HasState(s.view) /\ old = Parent(b)
      /\ Len(Parent(b)) >= Len(Genesis)
  BY <1>1, <1>2, BlockchainAssumption DEF HasState, DatabaseCorrect, StateOf
<1>4. Len(b) > Len(Genesis) /\ b # NoBlock
  BY <1>2, <1>3, BlockchainAssumption, LenProperties
<1> DEFINE row == [block |-> b, height |-> Len(b), data |-> Parent(b)]
           rows == {r \in s.view.undo : r.block # b} \cup {row}
<1>a. row \in UndoRow /\ rows \in SUBSET UndoRow
  BY <1>1, <1>2 DEF UndoRow, Database
<1>b. u = [s.view EXCEPT !.undo = rows]
  BY <1>1, <1>3 DEF AddUndoData, UndoFor, Database
<1>c. /\ u \in Database /\ u.undo = rows
  BY <1>1, <1>a, <1>b DEF Database
<1> HIDE DEF u
<1>5. /\ v.block = b /\ v.state = b /\ v.undo = rows
      /\ v \in Database
  BY <1>2, <1>3, <1>c DEF SetCurrentGameState, ProcessForward, Database
<1> HIDE DEF v
<1>6. v \in CorrectDatabase /\ HasState(v)
  BY <1>1, <1>4, <1>5 DEF CorrectDatabase, DatabaseCorrect, StateOf, HasState
<1>7. QED
  BY <1>5, <1>6, CommitStateGood DEF AttachToState, u, v

\* Undoing the current block gives its parent's state.
LEMMA DetachFromStateGood ==
    ASSUME NEW s, GoodStore(s), NEW b \in Seq(Labels) \ {<<>>},
           s.view.block = b, NEW r \in UndoDataOf(s.view, b)
    PROVE  LET t == DetachFromState(s, b, r.data)
           IN  /\ GoodStore(t) /\ t.view.block = Parent(b)
               /\ t.batchSize = s.batchSize
               /\ s.batchSize = 1 => t.batched = 0
<1> DEFINE w == SetCurrentGameState(s.view, Parent(b),
                                    ProcessBackwards(s.view.state, b, r.data))
           v == ReleaseUndoData(w, {b})
<1>1. s.view \in Database /\ DatabaseCorrect(s.view)
  BY DEF GoodStore, Store
<1>2. /\ Parent(b) \in Seq(Labels) /\ Len(Parent(b)) = Len(b) - 1
      /\ Len(b) \in Nat
  BY ParentType
<1>3. /\ r \in s.view.undo /\ r.block = b /\ r.data = Parent(b)
      /\ Len(b) > Len(Genesis)
  BY <1>1 DEF UndoDataOf, DatabaseCorrect, StateOf
<1>4. Parent(b) # NoBlock /\ Len(Parent(b)) >= Len(Genesis)
  BY <1>2, <1>3, BlockchainAssumption, LenProperties
<1>5. w.block = Parent(b) /\ w.state = Parent(b) /\ w.undo = s.view.undo
      /\ w \in Database
  BY <1>1, <1>2, <1>3 DEF SetCurrentGameState, ProcessBackwards, Database
<1> HIDE DEF w
<1>6. w \in CorrectDatabase
  BY <1>1, <1>4, <1>5 DEF CorrectDatabase, DatabaseCorrect, StateOf, HasState
<1>7. v \in CorrectDatabase /\ v.block = Parent(b)
  BY <1>5, <1>6, ReleaseCorrect
<1> HIDE DEF v
<1>8. QED
  BY <1>4, <1>7, CommitStateGood DEF DetachFromState, HasState, v, w

\* Storing the initial state.
LEMMA StoreInitialStateGood ==
    ASSUME NEW s, GoodStore(s)
    PROVE  GoodStore(StoreInitialState(s)) /\ HasState(StoreInitialState(s).view)
<1> DEFINE c == Clear(TryAbortTransaction(s))
           v == SetCurrentGameState(c.view, Genesis, InitialState)
<1>1. GoodStore(c) /\ c.view = EmptyDatabase
  BY AbortAndClearGood
<1> HIDE DEF c
<1>a. c.view \in Database /\ c.view.undo = {}
  BY <1>1, EmptyDatabaseCorrect DEF EmptyDatabase, CorrectDatabase
<1>2. v.block = Genesis /\ v.state = Genesis /\ v.undo = {} /\ v \in Database
  BY <1>a, BlockchainAssumption
     DEF SetCurrentGameState, InitialState, StateOf, Database
<1> HIDE DEF v
<1>3. v \in CorrectDatabase /\ HasState(v)
  BY <1>2, BlockchainAssumption, LenProperties
     DEF CorrectDatabase, Database, DatabaseCorrect, HasState, StateOf
<1>4. QED
  BY <1>1, <1>3, CommitStateGood DEF StoreInitialState, c, v

\* UpdateStateForAttach keeps a store good, whether the block fits or not.
LEMMA UpdateForAttachGood ==
    ASSUME IInv, StateChecks, NEW b \in Seq(Labels) \ {<<>>}
    PROVE  LET t == UpdateStateForAttach(b)
           IN  /\ GoodStore(t)
               /\ HasState(store.view) => HasState(t.view)
               /\ t.batchSize = store.batchSize
               /\ store.batchSize = 1 /\ store.batched = 0 => t.batched = 0
<1>1. GoodStore(store)
  BY DEF IInv
<1>2. CASE Following /\ Matches(b)
  <2>1. HasState(AttachToState(store, b).view)
    BY <1>1, <1>2, AttachToStateGood, BlockchainAssumption DEF Matches, HasState
  <2>2. QED
    BY <1>1, <1>2, <2>1, AttachToStateGood DEF Matches, UpdateStateForAttach
<1>3. CASE ~(Following /\ Matches(b))
  BY <1>1, <1>3 DEF UpdateStateForAttach
<1>4. QED
  BY <1>2, <1>3

\* So does UpdateStateForDetach, with or without undo data.
LEMMA UpdateForDetachGood ==
    ASSUME IInv, StateChecks, NEW b \in Seq(Labels) \ {<<>>}
    PROVE  LET t == UpdateStateForDetach(b)
           IN  /\ GoodStore(t)
               /\ ~DetachNeedsReinit(b) /\ Following =>
                    /\ HasState(t.view)
                    /\ t.batchSize = store.batchSize
                    /\ store.batchSize = 1 => t.batched = 0
               /\ ~Following => t = store
<1>1. GoodStore(store)
  BY DEF IInv
<1>2. CASE ~Following \/ ~IsCurrent(b)
  BY <1>1, <1>2 DEF UpdateStateForDetach, DetachNeedsReinit
<1>3. CASE /\ Following /\ IsCurrent(b) /\ UndoDataOf(store.view, b) = {}
  BY <1>1, <1>3, AbortAndClearGood DEF UpdateStateForDetach, DetachNeedsReinit
<1>4. CASE /\ Following /\ IsCurrent(b) /\ UndoDataOf(store.view, b) # {}
  <2> DEFINE r == CHOOSE r \in UndoDataOf(store.view, b) : TRUE
             t == DetachFromState(store, b, r.data)
  <2>1. r \in UndoDataOf(store.view, b)
    BY <1>4
  <2> HIDE DEF r
  <2>2. GoodStore(t) /\ t.view.block = Parent(b) /\ t.batchSize = store.batchSize
        /\ (store.batchSize = 1 => t.batched = 0)
    BY <1>1, <1>4, <2>1, DetachFromStateGood DEF IsCurrent
  <2>3. UpdateStateForDetach(b) = t
    BY <1>4 DEF UpdateStateForDetach, r
  <2>4. HasState(t.view)
    BY <2>2, ParentType, BlockchainAssumption DEF HasState
  <2> HIDE DEF t
  <2>5. QED
    BY <1>4, <2>2, <2>3, <2>4
<1>5. QED
  BY <1>2, <1>3, <1>4

\* What a Retry in BlockAttach leaves behind.
LEMMA AttachFailuresGood ==
    ASSUME IInv, StateChecks, NEW b \in Seq(Labels) \ {<<>>},
           NEW f \in AttachFailures(b)
    PROVE  GoodStore(f.store) /\ f.queue \in Queue \cup {NoPruning}
<1>1. GoodStore(store) /\ pruning \in Queue \cup {NoPruning}
  BY DEF IInv, TypeOK
<1>2. GoodStore(UpdateStateForAttach(b))
  BY UpdateForAttachGood
<1>3. CASE f = [queue |-> pruning, store |-> Rollback(store)]
  BY <1>1, <1>3, RollbackGood
<1>4. CASE /\ pruning # NoPruning
           /\ f \in AttachBlockFailures(pruning, b, UpdateStateForAttach(b))
  BY <1>1, <1>2, <1>4, AttachBlockGood
<1>5. QED
  BY <1>3, <1>4 DEF AttachFailures

-----------------------------------------------------------------------------
(***************************************************************************)
(* The pending-move processor stays well-typed.                            *)
(***************************************************************************)
LEMMA AddPendingMovesType ==
    ASSUME NEW p \in Processor, NEW ms \in SUBSET Moves, NEW st \in Seq(Labels)
    PROVE  AddPendingMoves(p, ms, st) \in Processor
<1>1. CASE p.blockQueue = <<>> \/ ms = {}
  BY <1>1 DEF AddPendingMoves
<1>2. CASE ~(p.blockQueue = <<>> \/ ms = {})
  <2>1. /\ p.blockQueue \in Seq(Seq(Labels)) /\ p.added \in [Moves -> Nat]
        /\ p.contexts \in SUBSET Context
    BY DEF Processor
  <2> DEFINE c == [block |-> Back(p.blockQueue), state |-> st]
             a == [m \in Moves |-> p.added[m] + IF m \in ms THEN 1 ELSE 0]
  <2>2. Back(p.blockQueue) \in Seq(Labels)
    BY <1>2, <2>1, EmptySeq, ElementOfSeq, LenProperties DEF Back
  <2>3. c \in Context
    BY <2>2 DEF Context
  <2>4. a \in [Moves -> Nat]
    BY <2>1
  <2>5. AddPendingMoves(p, ms, st)
          = [p EXCEPT !.added = a, !.contexts = p.contexts \cup {c}]
    BY <1>2 DEF AddPendingMoves, Processor
  <2> HIDE DEF a, c
  <2>6. QED
    BY <2>1, <2>3, <2>4, <2>5 DEF Processor
<1>3. QED
  BY <1>1, <1>2

\* PendingMoveProcessor::Reset returns a processor.
LEMMA ResetPendingType ==
    ASSUME NEW p \in Processor, NEW st \in Seq(Labels), NEW mempool \in SUBSET Moves
    PROVE  ResetPending(p, st, mempool) \in Processor
<1> DEFINE kept == p.pending \cap mempool
           cleared == [p EXCEPT !.pending = kept,
                                !.added = [m \in Moves |-> 0], !.contexts = {}]
<1>1. kept \in SUBSET Moves /\ cleared \in Processor
  BY DEF Processor
<1>2. QED
  BY <1>1, AddPendingMovesType DEF ResetPending

\* The operations of the pending-move processor return processors.
LEMMA ProcessorTypes ==
    ASSUME NEW p \in Processor, NEW st \in Seq(Labels),
           NEW b \in Seq(Labels) \ {<<>>}, NEW mempool \in SUBSET Moves
    PROVE  /\ ProcessAttachedBlock(p, st, b, mempool) \in Processor
           /\ ProcessDetachedBlock(p, st, b, mempool) \in Processor
           /\ \A m \in Moves : ProcessMove(p, st, m) \in Processor
<1>1. p.blockQueue \in Seq(Seq(Labels)) /\ p.pending \in SUBSET Moves
  BY DEF Processor
<1>2. ProcessAttachedBlock(p, st, b, mempool) \in Processor
  <2> DEFINE old == IF p.blockQueue # <<>> /\ Back(p.blockQueue) # Parent(b)
                    THEN <<>> ELSE p.blockQueue
             new == Append(old, b)
             cut == IF Len(new) > BlockQueueSize THEN Tail(new) ELSE new
  <2>1. old \in Seq(Seq(Labels))
    BY <1>1, EmptySeq
  <2> HIDE DEF old
  <2>2. new \in Seq(Seq(Labels)) /\ new # <<>>
    BY <2>1
  <2> HIDE DEF new
  <2>3. cut \in Seq(Seq(Labels))
    BY <2>2
  <2> HIDE DEF cut
  <2>4. [p EXCEPT !.blockQueue = cut] \in Processor
    BY <2>3 DEF Processor
  <2>5. QED
    BY <2>4, ResetPendingType DEF ProcessAttachedBlock, cut, new, old
<1>3. ProcessDetachedBlock(p, st, b, mempool) \in Processor
  <2> DEFINE q == IF p.blockQueue # <<>> /\ Back(p.blockQueue) = b
                  THEN SubSeq(p.blockQueue, 1, Len(p.blockQueue) - 1) ELSE <<>>
  <2>1. q \in Seq(Seq(Labels))
    <3>1. p.blockQueue # <<>> =>
            SubSeq(p.blockQueue, 1, Len(p.blockQueue) - 1) \in Seq(Seq(Labels))
      BY <1>1
    <3>2. QED
      BY <3>1, EmptySeq
  <2>2. MovesOf(b) \in SUBSET Moves
    BY ParentType DEF MovesOf, Moves
  <2> HIDE DEF q
  <2> DEFINE r == [p EXCEPT !.blockQueue = q, !.pending = @ \cup MovesOf(b)]
  <2>3. r = [p EXCEPT !.blockQueue = q, !.pending = p.pending \cup MovesOf(b)]
    BY DEF Processor
  <2>4. r \in Processor
    BY <1>1, <2>1, <2>2, <2>3 DEF Processor
  <2> HIDE DEF r
  <2>5. QED
    BY <2>4, ResetPendingType DEF ProcessDetachedBlock, q, r
<1>4. ASSUME NEW m \in Moves PROVE ProcessMove(p, st, m) \in Processor
  <2> DEFINE r == [p EXCEPT !.pending = @ \cup {m}]
  <2>1. r = [p EXCEPT !.pending = p.pending \cup {m}]
    BY DEF Processor
  <2>2. r \in Processor
    BY <1>1, <2>1 DEF Processor
  <2> HIDE DEF r
  <2>3. AddPendingMoves(r, {m}, st) \in Processor
    BY <2>2, AddPendingMovesType
  <2>4. QED
    BY <2>3 DEF ProcessMove, r
<1>5. QED
  BY <1>2, <1>3, <1>4

-----------------------------------------------------------------------------
(***************************************************************************)
(* Resynchronisation, and the parts of a handler.                          *)
(***************************************************************************)

\* What holds after ReinitialiseState or a handler's ordinary end.
Resynced ==
    /\ GoodStore(store')
    /\ state' \in States \ {"UNKNOWN"}
    /\ target' \in Seq(Labels) \cup {NoBlock}
    /\ rpc' \in {"none", "sendupdates"}
    /\ state' \in {"OUT_OF_SYNC", "CATCHING_UP", "UP_TO_DATE"}
         => HasState(store'.view)
    /\ state' = "UP_TO_DATE" => store'.batchSize = 1 /\ store'.batched = 0
    /\ rpc' = "sendupdates" <=> state' = "OUT_OF_SYNC"

\* SyncFromCurrentState leaves a good store and a sync state that fits it.
LEMMA SyncFromCurrentStateGood ==
    ASSUME NEW s, GoodStore(s), HasState(s.view), SyncFromCurrentState(s),
           target \in Seq(Labels) \cup {NoBlock}, UNCHANGED target
    PROVE  Resynced
<1>1. CASE s.view.block = tip
  <2>1. state' = "UP_TO_DATE" /\ rpc' = "none" /\ store' = SetBatchSize(s, 1)
    BY <1>1 DEF SyncFromCurrentState
  <2>2. /\ GoodStore(store') /\ HasState(store'.view)
        /\ store'.batchSize = 1 /\ store'.batched = 0
    BY <2>1, SetBatchSizeGood
  <2>3. QED
    BY <2>1, <2>2 DEF Resynced, States
<1>2. CASE s.view.block # tip
  BY <1>2 DEF SyncFromCurrentState, Resynced, States
<1>3. QED
  BY <1>1, <1>2

\* So does ReinitialiseState, up to its game_sendupdates call.
LEMMA ReinitialiseStateGood ==
    ASSUME NEW s, GoodStore(s), ReinitialiseState(s),
           target \in Seq(Labels) \cup {NoBlock}
    PROVE  Resynced
<1>1. CASE HasState(s.view) /\ SyncFromCurrentState(s) /\ UNCHANGED target
  BY <1>1, SyncFromCurrentStateGood
<1>2. CASE /\ state' = "PREGENESIS" /\ target' = Genesis
           /\ store' = s /\ rpc' = "none"
  BY <1>2, BlockchainAssumption DEF Resynced, States
<1>3. CASE SyncFromCurrentState(StoreInitialState(s)) /\ UNCHANGED target
  BY <1>3, StoreInitialStateGood, SyncFromCurrentStateGood
<1>4. QED
  BY <1>1, <1>2, <1>3 DEF ReinitialiseState

\* The types that taking a message off the channel preserves.
Received ==
    /\ tip' \in Seq(Labels)
    /\ queue' \in Seq(Message)
    /\ link' \in [Topics -> LinkState]
    /\ phase' \in {"stopped", "starting", "running"}
    /\ reqToken' \in Nat /\ lastToken' \in Nat
    /\ phase' # "stopped"

\* Receiving a message keeps the queue and the link well-typed.
LEMMA ReceiveGood ==
    ASSUME IInv, NEW type \in Topics, Receive(type)
    PROVE  /\ Received
           /\ Head(queue) \in Message
           /\ Head(queue).block \in Seq(Labels) \ {<<>>}
           /\ rpc = "none"
           /\ ~SeqMismatch(type) => state # "UNKNOWN"
<1>1. /\ queue \in Seq(Message) /\ queue # <<>> /\ queue' = Tail(queue)
      /\ phase # "stopped" /\ rpc = "none" /\ link \in [Topics -> LinkState]
      /\ tip \in Seq(Labels) /\ reqToken \in Nat /\ lastToken \in Nat
      /\ phase \in {"stopped", "starting", "running"}
  BY DEF IInv, TypeOK, Receive, Unlocked
<1>2. /\ Head(queue) \in Message /\ queue' \in Seq(Message)
  BY <1>1
<1>3. link' \in [Topics -> LinkState]
  BY <1>1 DEF Receive, LinkState
<1>4. Received
  BY <1>1, <1>2, <1>3 DEF Received, Receive
<1>5. ~SeqMismatch(type) => state # "UNKNOWN"
  BY <1>1 DEF IInv, SyncInv, SeqMismatch
<1>6. QED
  BY <1>1, <1>2, <1>4, <1>5 DEF Message

\* The end of a block handler returns a processor.
LEMMA UpdatePendingType ==
    ASSUME TypeOK, GoodStore(store'), NEW type, NEW b \in Seq(Labels) \ {<<>>},
           UpdatePending(type, b)
    PROVE  pending' \in Processor
<1>1. store'.view.state \in Seq(Labels) /\ pending \in Processor
  BY DEF TypeOK, GoodStore, Store, Database
<1>2. QED
  BY <1>1, ProcessorTypes DEF UpdatePending

\* A handler's end leads from good parts to the invariant.
LEMMA HandlerEnd ==
    ASSUME Received, Resynced, pruning' \in Queue \cup {NoPruning},
           pending' \in Processor, used' \in [Bounds -> Nat]
    PROVE  IInv'
<1>1. TypeOK'
  BY DEF Received, Resynced, TypeOK, GoodStore
<1>2. SyncInv'
  BY DEF Received, Resynced, SyncInv, Following, States
<1>3. QED
  BY <1>1, <1>2 DEF IInv, Resynced

\* Using up a bound keeps the counters well-typed.
LEMMA UseType ==
    ASSUME used \in [Bounds -> Nat], NEW b \in Bounds, NEW n, Use(b, n)
    PROVE  used' \in [Bounds -> Nat]
  BY DEF Use

\* The end of the process leaves what IInv says of a stopped one.
LEMMA TerminatedGood ==
    ASSUME IInv, NEW db \in CorrectDatabase, Terminated(db),
           used' \in [Bounds -> Nat]
    PROVE  IInv'
<1>1. GoodStore(store')
  BY NewStoreGood DEF Terminated
<1>2. pruning' \in Queue \cup {NoPruning}
  BY EmptySeq DEF Terminated, NewQueue, IInv, TypeOK, Queue
<1>3. pending' \in Processor
  BY EmptySeq DEF Terminated, NewProcessor, Processor
<1>4. TypeOK'
  BY <1>1, <1>2, <1>3, EmptySeq
     DEF Terminated, IInv, TypeOK, GoodStore, States, NoToken
<1>5. SyncInv'
  BY DEF Terminated, SyncInv, Following
<1>6. QED
  BY <1>1, <1>4, <1>5 DEF IInv

-----------------------------------------------------------------------------
(***************************************************************************)
(* The invariant: one lemma per action that does more than move a message. *)
(***************************************************************************)
LEMMA InitIInv == Init => IInv
<1> SUFFICES ASSUME Init PROVE IInv
  OBVIOUS
<1>1. GoodStore(store)
  BY EmptyDatabaseCorrect, NewStoreGood DEF Init
<1>2. pending \in Processor
  BY EmptySeq DEF Init, NewProcessor, Processor
<1>a. tip \in Seq(Labels)
  BY GameAssumption, BlockType DEF Init
<1>3. TypeOK
  BY <1>1, <1>2, <1>a, GameAssumption, EmptySeq
     DEF Init, TypeOK, GoodStore, States, LinkState, Topics, NoToken
<1>4. SyncInv
  BY DEF Init, SyncInv, Following
<1>5. QED
  BY <1>1, <1>3, <1>4 DEF IInv

\* A step of the daemon keeps IInv.
LEMMA DaemonMoveStep ==
    ASSUME IInv, NEW b \in Blocks, DaemonMove(b)
    PROVE  IInv'
<1>1. b \in Seq(Labels)
  <2>1. PICK h \in 0..MaxHeight : b \in [1..h -> Labels]
    BY DEF Blocks
  <2>2. QED
    BY <2>1, BlockchainAssumption, IsASeq
<1>2. tip \in Seq(Labels) /\ queue \in Seq(Message)
  BY DEF IInv, TypeOK
<1>3. WithToken(Updates(tip, b), NoToken) \in Seq(Message)
  BY <1>1, <1>2, UpdatesType, WithTokenType DEF NoToken
<1>4. queue' \in Seq(Message)
  BY <1>2, <1>3, ConcatProperties DEF DaemonMove
<1>5. used' \in [Bounds -> Nat]
  BY UseType DEF DaemonMove, IInv, TypeOK, Bounds
<1>6. /\ tip' = b
      /\ UNCHANGED <<link, lastToken, phase, state, target, reqToken, rpc,
                     store, pruning, pending>>
  BY DEF DaemonMove, syncVars
<1>7. TypeOK'
  BY <1>1, <1>4, <1>5, <1>6 DEF IInv, TypeOK
<1>8. SyncInv'
  BY <1>6 DEF IInv, SyncInv, Following
<1>9. QED
  BY <1>6, <1>7, <1>8 DEF IInv

\* The loss of a message keeps IInv.
LEMMA LoseStep ==
    ASSUME IInv, Lose
    PROVE  IInv'
<1>a. queue \in Seq(Message) /\ queue # <<>>
  BY DEF IInv, TypeOK, Lose
<1>b. Head(queue) \in Message
  BY <1>a
<1>1. queue \in Seq(Message) /\ queue # <<>> /\ Head(queue).type \in Topics
  BY <1>a, <1>b DEF Message
<1>2. queue' \in Seq(Message)
  BY <1>1 DEF Lose
<1>3. /\ link \in [Topics -> LinkState]
      /\ link' = [link EXCEPT ![Head(queue).type] = "lost"]
  BY DEF IInv, TypeOK, Lose
<1>4. /\ link' \in [Topics -> LinkState]
      /\ \A t \in Topics : link'[t] = "ok" => link[t] = "ok"
  BY <1>1, <1>3 DEF LinkState
<1>5. used' \in [Bounds -> Nat]
  BY UseType DEF Lose, IInv, TypeOK, Bounds
<1>6. UNCHANGED <<tip, lastToken, phase, state, target, reqToken, rpc,
                  store, pruning, pending>>
  BY DEF Lose, syncVars
<1>7. TypeOK'
  BY <1>2, <1>4, <1>5, <1>6 DEF IInv, TypeOK
<1>8. SyncInv'
  BY <1>4, <1>6 DEF IInv, SyncInv, Following
<1>9. QED
  BY <1>6, <1>7, <1>8 DEF IInv

\* A handler called with seqMismatch keeps IInv.
LEMMA MissedNotificationsStep ==
    ASSUME IInv, NEW type \in Topics, MissedNotifications(type)
    PROVE  IInv'
<1>1. Received
  BY ReceiveGood DEF MissedNotifications
<1>2. Resynced
  BY ReinitialiseStateGood DEF MissedNotifications, IInv, TypeOK
<1>3. pruning' \in Queue \cup {NoPruning}
  BY QueueTypes DEF MissedNotifications, IInv, TypeOK
<1>4. pending' \in Processor /\ used' \in [Bounds -> Nat]
  BY DEF MissedNotifications, IInv, TypeOK
<1>5. QED
  BY <1>1, <1>2, <1>3, <1>4, HandlerEnd

\* A handler that ignores a message by its token keeps IInv.
LEMMA IgnoreNotificationStep ==
    ASSUME IInv, NEW type \in Topics, IgnoreNotification(type)
    PROVE  IInv'
<1>1. Received /\ state # "UNKNOWN" /\ rpc = "none"
  BY ReceiveGood DEF IgnoreNotification
<1>2. UNCHANGED <<state, target, rpc, store, pruning, pending, used>>
  BY DEF IgnoreNotification
<1>3. Resynced
  BY <1>1, <1>2 DEF Resynced, IInv, TypeOK, SyncInv, Following
<1>4. QED
  BY <1>1, <1>2, <1>3, HandlerEnd DEF IInv, TypeOK

\* The ordinary end of a handler that does not start over.
LEMMA FinishGood ==
    ASSUME IInv, state # "UNKNOWN", rpc = "none", NEW needReinit, NEW s,
           GoodStore(s), Finish(needReinit, s),
           ~needReinit /\ Following => HasState(s.view),
           ~needReinit /\ state = "UP_TO_DATE" => s.batchSize = 1 /\ s.batched = 0
    PROVE  Resynced
<1>1. CASE needReinit
  BY <1>1, ReinitialiseStateGood DEF Finish, IInv, TypeOK
<1>2. CASE ~needReinit
  <2>1. store' = s /\ UNCHANGED <<state, target, rpc>>
    BY <1>2 DEF Finish
  <2>2. QED
    BY <1>2, <2>1 DEF Resynced, IInv, TypeOK, SyncInv, Following
<1>3. QED
  BY <1>1, <1>2

\* BlockAttach keeps IInv.
LEMMA BlockAttachStep ==
    ASSUME IInv, BlockAttach
    PROVE  IInv'
<1> DEFINE b == Head(queue).block
           s == UpdateStateForAttach(b)
           t == IF pruning = NoPruning THEN s ELSE AttachBlockStore(pruning, b, s)
<1>1. /\ Received /\ b \in Seq(Labels) \ {<<>>} /\ rpc = "none"
      /\ state # "UNKNOWN"
  BY ReceiveGood DEF BlockAttach, Topics
<1>2. /\ StateChecks /\ Finish(AttachNeedsReinit(b), t)
      /\ pruning' = IF pruning = NoPruning THEN pruning ELSE AttachBlock(pruning, b)
      /\ UpdatePending("attach", b) /\ UNCHANGED used
  BY DEF BlockAttach
<1> HIDE DEF b
<1>3. /\ GoodStore(s)
      /\ HasState(store.view) => HasState(s.view)
      /\ s.batchSize = store.batchSize
      /\ store.batchSize = 1 /\ store.batched = 0 => s.batched = 0
  BY <1>1, <1>2, UpdateForAttachGood
<1> HIDE DEF s
<1>4. SameBlock(s, t) /\ pruning' \in Queue \cup {NoPruning}
  <2>1. pruning \in Queue \cup {NoPruning}
    BY DEF IInv, TypeOK
  <2>2. CASE pruning = NoPruning
    BY <1>2, <1>3, <2>2 DEF SameBlock
  <2>3. CASE pruning # NoPruning
    BY <1>1, <1>2, <1>3, <2>1, <2>3, AttachBlockGood
  <2>4. QED
    BY <2>2, <2>3
<1> HIDE DEF t
<1>5. /\ Following => HasState(t.view)
      /\ state = "UP_TO_DATE" => t.batchSize = 1 /\ t.batched = 0
  BY <1>3, <1>4 DEF SameBlock, HasState, IInv, SyncInv
<1>6. Resynced
  BY <1>1, <1>2, <1>4, <1>5, FinishGood DEF SameBlock
<1>7. pending' \in Processor
  BY <1>1, <1>2, <1>6, UpdatePendingType DEF Resynced, IInv
<1>8. QED
  BY <1>1, <1>2, <1>4, <1>6, <1>7, HandlerEnd DEF IInv, TypeOK

\* BlockAttach keeps IInv when the storage asks for a retry.
LEMMA BlockAttachRetryStep ==
    ASSUME IInv, BlockAttachRetry
    PROVE  IInv'
<1> DEFINE b == Head(queue).block
<1>1. Received /\ b \in Seq(Labels) \ {<<>>}
  BY ReceiveGood DEF BlockAttachRetry, Topics
<1>2. /\ StateChecks /\ UpdatePending("attach", b)
      /\ \E f \in AttachFailures(b) :
            ReinitialiseState(f.store) /\ pruning' = f.queue
  BY DEF BlockAttachRetry
<1> HIDE DEF b
<1>3. PICK f \in AttachFailures(b) :
            ReinitialiseState(f.store) /\ pruning' = f.queue
  BY <1>2
<1>4. GoodStore(f.store) /\ pruning' \in Queue \cup {NoPruning}
  BY <1>1, <1>2, <1>3, AttachFailuresGood
<1>5. Resynced
  BY <1>3, <1>4, ReinitialiseStateGood DEF IInv, TypeOK
<1>6. pending' \in Processor
  BY <1>1, <1>2, <1>5, UpdatePendingType DEF Resynced, IInv
<1>7. used' \in [Bounds -> Nat]
  BY UseType DEF BlockAttachRetry, IInv, TypeOK, Bounds
<1>8. QED
  BY <1>1, <1>4, <1>5, <1>6, <1>7, HandlerEnd

\* BlockDetach keeps IInv.
LEMMA BlockDetachStep ==
    ASSUME IInv, BlockDetach
    PROVE  IInv'
<1> DEFINE b == Head(queue).block
           s == UpdateStateForDetach(b)
<1>1. /\ Received /\ b \in Seq(Labels) \ {<<>>} /\ rpc = "none"
      /\ state # "UNKNOWN"
  BY ReceiveGood DEF BlockDetach, Topics
<1>2. /\ StateChecks /\ Finish(DetachNeedsReinit(b), s)
      /\ UpdatePending("detach", b)
  BY DEF BlockDetach
<1> HIDE DEF b
<1>3. /\ GoodStore(s)
      /\ ~DetachNeedsReinit(b) /\ Following =>
            /\ HasState(s.view) /\ s.batchSize = store.batchSize
            /\ store.batchSize = 1 => s.batched = 0
      /\ ~Following => s = store
  BY <1>1, <1>2, UpdateForDetachGood
<1> HIDE DEF s
<1>4. ~DetachNeedsReinit(b) /\ state = "UP_TO_DATE"
        => s.batchSize = 1 /\ s.batched = 0
  BY <1>3 DEF IInv, SyncInv, Following
<1>5. Resynced
  BY <1>1, <1>2, <1>3, <1>4, FinishGood
<1>6. pending' \in Processor
  BY <1>1, <1>2, <1>5, UpdatePendingType DEF Resynced, IInv
<1>7. pruning' \in Queue \cup {NoPruning} /\ used' \in [Bounds -> Nat]
  BY QueueTypes DEF BlockDetach, IInv, TypeOK
<1>8. QED
  BY <1>1, <1>5, <1>6, <1>7, HandlerEnd

\* BlockDetach keeps IInv when the storage asks for a retry.
LEMMA BlockDetachRetryStep ==
    ASSUME IInv, BlockDetachRetry
    PROVE  IInv'
<1> DEFINE b == Head(queue).block
<1>1. Received /\ b \in Seq(Labels) \ {<<>>}
  BY ReceiveGood DEF BlockDetachRetry, Topics
<1>2. ReinitialiseState(Rollback(store)) /\ UpdatePending("detach", b)
  BY DEF BlockDetachRetry
<1> HIDE DEF b
<1>3. Resynced
  BY <1>2, RollbackGood, ReinitialiseStateGood DEF IInv, TypeOK
<1>4. pending' \in Processor
  BY <1>1, <1>2, <1>3, UpdatePendingType DEF Resynced, IInv
<1>5. used' \in [Bounds -> Nat]
  BY UseType DEF BlockDetachRetry, IInv, TypeOK, Bounds
<1>6. pruning' \in Queue \cup {NoPruning}
  BY DEF BlockDetachRetry, IInv, TypeOK
<1>7. QED
  BY <1>1, <1>3, <1>4, <1>5, <1>6, HandlerEnd

\* The answer to game_sendupdates keeps IInv.
LEMMA SendUpdatesStep ==
    ASSUME IInv, SendUpdates
    PROVE  IInv'
<1> DEFINE t == IF queue = <<>> THEN 1 ELSE lastToken + 1
<1>1. /\ tip \in Seq(Labels) /\ queue \in Seq(Message) /\ t \in Nat
      /\ GoodStore(store) /\ HasState(store.view)
  BY DEF IInv, TypeOK, SyncInv, SendUpdates
<1>2. /\ queue' = queue \o WithToken(Updates(store.view.block, tip), t)
      /\ lastToken' = t /\ reqToken' = t /\ target' = tip
      /\ state' = "CATCHING_UP" /\ store' = SetBatchSize(store, BatchSize)
      /\ rpc' = "none" /\ UNCHANGED <<tip, link, phase, pruning, pending, used>>
  BY DEF SendUpdates
<1> HIDE DEF t
<1>3. store.view.block \in Seq(Labels)
  BY <1>1 DEF GoodStore, Store, Database, HasState
<1>4. WithToken(Updates(store.view.block, tip), t) \in Seq(Message)
  BY <1>1, <1>3, UpdatesType, WithTokenType
<1>5. queue' \in Seq(Message)
  BY <1>1, <1>2, <1>4, ConcatProperties
<1>6. GoodStore(store') /\ HasState(store'.view)
  BY <1>1, <1>2, SetBatchSizeGood, GameAssumption
<1>7. TypeOK'
  BY <1>1, <1>2, <1>5, <1>6 DEF IInv, TypeOK, GoodStore, States
<1>8. SyncInv'
  BY <1>2, <1>6 DEF IInv, SyncInv, SendUpdates
<1>9. QED
  BY <1>6, <1>7, <1>8 DEF IInv

\* PendingMove keeps IInv.
LEMMA PendingMoveStep ==
    ASSUME IInv, NEW m \in Moves, PendingMove(m)
    PROVE  IInv'
<1>1. store.view.state \in Seq(Labels) /\ pending \in Processor
  BY DEF IInv, TypeOK, Store, Database
<1>2. pending' \in Processor
  <2>1. CASE m \in pending.pending
    BY <1>1, <2>1 DEF PendingMove, ProcessMove
  <2>2. CASE m \notin pending.pending
    <3> DEFINE r == [pending EXCEPT !.pending = @ \cup {m}]
    <3>1. r = [pending EXCEPT !.pending = pending.pending \cup {m}]
      BY <1>1 DEF Processor
    <3>2. r \in Processor
      BY <1>1, <3>1 DEF Processor
    <3> HIDE DEF r
    <3>3. AddPendingMoves(r, {m}, store.view.state) \in Processor
      BY <1>1, <3>2, AddPendingMovesType
    <3>4. QED
      BY <2>2, <3>3 DEF PendingMove, ProcessMove, r
  <2>3. QED
    BY <2>1, <2>2
<1>3. UNCHANGED <<tip, queue, link, lastToken, phase, state, target, reqToken,
                  rpc, store, pruning, used>>
  BY DEF PendingMove, daemonVars, syncVars
<1>4. TypeOK'
  BY <1>2, <1>3 DEF IInv, TypeOK
<1>5. SyncInv'
  BY <1>3 DEF IInv, SyncInv, Following
<1>6. QED
  BY <1>3, <1>4, <1>5 DEF IInv

\* A step that changes only the store, the pruning queue and the bounds, and
\* keeps the current block.
LEMMA StoreStep ==
    ASSUME IInv, SameBlock(store, store'), pruning' \in Queue \cup {NoPruning},
           used' \in [Bounds -> Nat],
           UNCHANGED <<tip, queue, link, lastToken, phase, state, target,
                       reqToken, rpc, pending>>
    PROVE  IInv'
<1>1. TypeOK'
  BY DEF IInv, TypeOK, SameBlock, GoodStore
<1>2. SyncInv'
  BY DEF IInv, SyncInv, SameBlock, Following, HasState
<1>3. QED
  BY <1>1, <1>2 DEF IInv, SameBlock

\* GetCustomStateData, which may fill the height cache, keeps IInv.
LEMMA GetCustomStateDataStep ==
    ASSUME IInv, GetCustomStateData
    PROVE  IInv'
<1>1. SameBlock(store, store')
  BY FillHeightGood DEF GetCustomStateData, IInv, SameBlock
<1>2. QED
  BY <1>1, StoreStep
     DEF GetCustomStateData, daemonVars, syncVars, IInv, TypeOK

\* EnablePruning keeps IInv.
LEMMA EnablePruningStep ==
    ASSUME IInv, NEW n \in PruneSizes, EnablePruning(n)
    PROVE  IInv'
<1>1. n \in Nat /\ pruning \in Queue \cup {NoPruning} /\ GoodStore(store)
  BY GameAssumption DEF IInv, TypeOK
<1>2. used' \in [Bounds -> Nat]
  BY UseType DEF EnablePruning, IInv, TypeOK, Bounds
<1>3. CASE pruning = NoPruning
  <2>a. NewQueue(n) \in Queue
    BY <1>1, EmptySeq DEF NewQueue, Queue
  <2>1. pruning' \in Queue
    BY <1>3, <2>a DEF EnablePruning
  <2>2. SameBlock(store, store')
    BY <1>1, <1>3 DEF EnablePruning, SameBlock
  <2>3. QED
    BY <1>2, <2>1, <2>2, StoreStep DEF EnablePruning, daemonVars, syncVars
<1>4. CASE pruning # NoPruning
  <2>1. pruning' \in Queue /\ SameBlock(store, store')
    BY <1>1, <1>4, SetDesiredSizeGood DEF EnablePruning
  <2>2. QED
    BY <1>2, <2>1, StoreStep DEF EnablePruning, daemonVars, syncVars
<1>5. QED
  BY <1>3, <1>4

\* Start keeps IInv.
LEMMA StartStep ==
    ASSUME IInv, Start
    PROVE  IInv'
<1>1. TypeOK'
  BY DEF IInv, TypeOK, Start, LinkState
<1>2. SyncInv'
  BY DEF IInv, SyncInv, Start, Following, Topics
<1>3. QED
  BY <1>1, <1>2 DEF IInv, Start

\* The ReinitialiseState of Start keeps IInv.
LEMMA StartReinitialiseStep ==
    ASSUME IInv, StartReinitialise
    PROVE  IInv'
<1>1. Resynced
  BY ReinitialiseStateGood DEF StartReinitialise, IInv, TypeOK
<1>2. Received
  BY DEF StartReinitialise, IInv, TypeOK, Received, daemonVars
<1>3. QED
  BY <1>1, <1>2, HandlerEnd DEF StartReinitialise, IInv, TypeOK

\* Stop, and a crash between two handlers, keep IInv.
LEMMA StopStep ==
    ASSUME IInv, Stop \/ Crash
    PROVE  IInv'
<1>1. used' \in [Bounds -> Nat]
  BY UseType DEF Stop, Crash, IInv, TypeOK, Bounds
<1>2. GoodStore(store) /\ GoodStore(Flush(store))
  BY FlushGood DEF IInv
<1>3. store.disk \in CorrectDatabase /\ Flush(store).disk \in CorrectDatabase
  BY <1>2 DEF GoodStore, Store, CorrectDatabase
<1>4. Terminated(Flush(store).disk) \/ Terminated(store.disk)
  BY DEF Stop, Crash
<1>5. QED
  BY <1>1, <1>3, <1>4, TerminatedGood

\* A crash between the state's and the queue's transaction keeps IInv.
LEMMA CrashInPruningStep ==
    ASSUME IInv, CrashInPruning
    PROVE  IInv'
<1> DEFINE b == Head(queue).block
           s == UpdateStateForAttach(b)
           p == InitialPruneStore(Push(pruning, b), b, s)
<1>1. queue \in Seq(Message) /\ queue # <<>> /\ pruning \in Queue
  BY DEF CrashInPruning, IInv, TypeOK
<1>2. Head(queue) \in Message
  BY <1>1
<1>3. b \in Seq(Labels) \ {<<>>}
  BY <1>2 DEF Message
<1>4. /\ StateChecks
      /\ Terminated(s.disk) \/ Terminated(p.disk)
      /\ UNCHANGED used \/ Use("stops", MaxStops)
  BY DEF CrashInPruning
<1> HIDE DEF b
<1>5. GoodStore(s)
  BY <1>3, <1>4, UpdateForAttachGood
<1> HIDE DEF s
<1>6. GoodStore(p)
  BY <1>1, <1>3, <1>5, QueueTypes, InitialPruneGood DEF SameBlock
<1> HIDE DEF p
<1>7. s.disk \in CorrectDatabase /\ p.disk \in CorrectDatabase
  BY <1>5, <1>6 DEF GoodStore, Store, CorrectDatabase
<1>8. used' \in [Bounds -> Nat]
  BY <1>4, UseType DEF IInv, TypeOK, Bounds
<1>9. QED
  BY <1>4, <1>7, <1>8, TerminatedGood

\* IInv is inductive: one lemma per action.
LEMMA NextIInv == IInv /\ [Next]_vars => IInv'
<1> SUFFICES ASSUME IInv, [Next]_vars PROVE IInv'
  OBVIOUS
<1>1. ASSUME NEW b \in Blocks, DaemonMove(b) PROVE IInv'
  BY <1>1, DaemonMoveStep
<1>2. CASE Lose
  BY <1>2, LoseStep
<1>3. CASE Notification
  BY <1>3, MissedNotificationsStep, IgnoreNotificationStep, BlockAttachStep,
     BlockDetachStep DEF Notification
<1>4. CASE BlockAttachRetry \/ BlockDetachRetry
  BY <1>4, BlockAttachRetryStep, BlockDetachRetryStep
<1>5. CASE SendUpdates
  BY <1>5, SendUpdatesStep
<1>6. ASSUME NEW m \in Moves, PendingMove(m) PROVE IInv'
  BY <1>6, PendingMoveStep
<1>7. CASE GetCustomStateData
  BY <1>7, GetCustomStateDataStep
<1>8. ASSUME NEW n \in PruneSizes, EnablePruning(n) PROVE IInv'
  BY <1>8, EnablePruningStep
<1>9. CASE Start \/ StartReinitialise
  BY <1>9, StartStep, StartReinitialiseStep
<1>10. CASE Stop \/ Crash
  BY <1>10, StopStep
<1>11. CASE CrashInPruning
  BY <1>11, CrashInPruningStep
<1>12. CASE UNCHANGED vars
  BY <1>12 DEF vars, daemonVars, syncVars, IInv, TypeOK, SyncInv, Following
<1>13. QED
  BY <1>1, <1>2, <1>3, <1>4, <1>5, <1>6, <1>7, <1>8, <1>9, <1>10, <1>11, <1>12
     DEF Next

-----------------------------------------------------------------------------
(***************************************************************************)
(* The results, for every tree of blocks, every batch size and any number  *)
(* of reorgs, losses, failed transactions, restarts and crashes.           *)
(***************************************************************************)

\* The invariant of Game's handlers, ReinitialiseState, the pruning queue, the
\* transaction batches and the process's end: every store Game can be left
\* with is good, and its sync state fits the store.
THEOREM InvariantTheorem == Spec => []IInv
<1>1. Init => IInv
  BY InitIInv
<1>2. IInv /\ [Next]_vars => IInv'
  BY NextIInv
<1>3. QED
  BY <1>1, <1>2, PTL DEF Spec

\* Type correctness of Game's state, over all of its handlers.
THEOREM TypeTheorem == Spec => []TypeOK
<1>1. IInv => TypeOK
  BY DEF IInv
<1>2. QED
  BY <1>1, InvariantTheorem, PTL

\* The game state in the storage, the durable one and the one inside an open
\* batch, is always the state the rules define for the block it is stored
\* with (UpdateStateForAttach, UpdateStateForDetach, ReinitialiseState).
THEOREM StateTheorem == Spec => []StateCorrect
<1>1. IInv => StateCorrect
  BY DEF IInv, GoodStore, StateCorrect
<1>2. QED
  BY <1>1, InvariantTheorem, PTL

\* The cached height of StorageWithCachedHeight belongs to the current block.
THEOREM HeightTheorem == Spec => []HeightCacheCorrect
<1>1. IInv => HeightCacheCorrect
  BY DEF IInv, GoodStore, HeightCacheCorrect
<1>2. QED
  BY <1>1, InvariantTheorem, PTL

\* SyncFromCurrentState shrinks the batch size before UP_TO_DATE is visible,
\* and no later handler leaves a batch open in that state.
THEOREM DurableTheorem == Spec => []UpToDateIsDurable
<1>1. IInv => UpToDateIsDurable
  BY DEF IInv, GoodStore, SyncInv, UpToDateIsDurable
<1>2. QED
  BY <1>1, InvariantTheorem, PTL

\* BlockAttach and BlockDetach never reach LOG (FATAL) << "Unexpected state"
\* nor the CHECK that there is a current block.
THEOREM ExpectedStateTheorem == Spec => []NoUnexpectedState
<1>1. IInv => NoUnexpectedState
  <2> SUFFICES ASSUME IInv, Unlocked, queue # <<>>,
                      ~SeqMismatch(Head(queue).type)
               PROVE  StateChecks
    BY DEF NoUnexpectedState
  <2>1. queue \in Seq(Message)
    BY DEF IInv, TypeOK
  <2>2. Head(queue) \in Message
    BY <2>1
  <2>3. Head(queue).type \in Topics
    BY <2>2 DEF Message
  <2>4. state \in States /\ state # "UNKNOWN" /\ state # "OUT_OF_SYNC"
    BY <2>3 DEF IInv, TypeOK, SyncInv, Unlocked, SeqMismatch
  <2>5. QED
    BY <2>4 DEF IInv, SyncInv, StateChecks, States
<1>2. QED
  BY <1>1, InvariantTheorem, PTL

-----------------------------------------------------------------------------
(***************************************************************************)
(* AddPendingMove is called once for a move: what was processed since the  *)
(* last Clear is among the known pending moves, and those are skipped.     *)
(***************************************************************************)
AddedOnce(p) ==
    /\ p \in Processor
    /\ \A m \in Moves : /\ p.added[m] <= 1
                        /\ p.added[m] = 1 => m \in p.pending

PendingInv == AddedOnce(pending)

\* Adding known moves that were not processed yet processes each of them once.
LEMMA AddPendingMovesOnce ==
    ASSUME NEW p, AddedOnce(p), NEW ms \in SUBSET p.pending, NEW st \in Seq(Labels),
           \A m \in ms : p.added[m] = 0
    PROVE  AddedOnce(AddPendingMoves(p, ms, st))
<1> DEFINE q == AddPendingMoves(p, ms, st)
<1>1. p \in Processor /\ ms \in SUBSET Moves
  BY DEF AddedOnce, Processor
<1>2. q \in Processor
  BY <1>1, AddPendingMovesType
<1>3. CASE p.blockQueue = <<>> \/ ms = {}
  BY <1>3 DEF AddPendingMoves
<1>4. CASE ~(p.blockQueue = <<>> \/ ms = {})
  <2> DEFINE a == [m \in Moves |-> p.added[m] + IF m \in ms THEN 1 ELSE 0]
             cs == p.contexts \cup {[block |-> Back(p.blockQueue), state |-> st]}
  <2>1. q = [p EXCEPT !.added = a, !.contexts = cs]
    BY <1>1, <1>4 DEF AddPendingMoves, Processor
  <2> HIDE DEF a, cs
  <2>2. q.added = a /\ q.pending = p.pending
    BY <1>1, <2>1 DEF Processor
  <2>3. \A m \in Moves : p.added[m] \in Nat
    BY <1>1 DEF Processor
  <2>4. \A m \in Moves : /\ a[m] <= 1
                         /\ a[m] = 1 => m \in p.pending
    BY <2>3 DEF a, AddedOnce
  <2> HIDE DEF q
  <2>5. AddedOnce(q)
    BY <1>2, <2>2, <2>4 DEF AddedOnce
  <2>6. QED
    BY <2>5 DEF q
<1>5. QED
  BY <1>3, <1>4

\* So does the rebuild after Clear.
LEMMA ResetPendingOnce ==
    ASSUME NEW p \in Processor, NEW st \in Seq(Labels), NEW mempool \in SUBSET Moves
    PROVE  AddedOnce(ResetPending(p, st, mempool))
<1> DEFINE kept == p.pending \cap mempool
           none == [m \in Moves |-> 0]
           cleared == [p EXCEPT !.pending = kept, !.added = none, !.contexts = {}]
<1>1. kept \in SUBSET Moves /\ none \in [Moves -> Nat] /\ \A m \in Moves : none[m] = 0
  BY DEF Processor
<1> HIDE DEF kept, none
<1>2. cleared \in Processor /\ cleared.pending = kept /\ cleared.added = none
  BY <1>1 DEF Processor
<1>3. AddedOnce(cleared) /\ \A m \in kept : cleared.added[m] = 0
  BY <1>1, <1>2 DEF AddedOnce
<1> HIDE DEF cleared
<1>4. AddedOnce(AddPendingMoves(cleared, kept, st))
  BY <1>2, <1>3, AddPendingMovesOnce
<1>5. QED
  BY <1>4 DEF ResetPending, cleared, kept, none

\* The operations of the processor keep what AddedOnce says.
LEMMA ProcessorOnce ==
    ASSUME NEW p, AddedOnce(p), NEW st \in Seq(Labels),
           NEW b \in Seq(Labels) \ {<<>>}, NEW mempool \in SUBSET Moves
    PROVE  /\ AddedOnce(ProcessAttachedBlock(p, st, b, mempool))
           /\ AddedOnce(ProcessDetachedBlock(p, st, b, mempool))
           /\ \A m \in Moves : AddedOnce(ProcessMove(p, st, m))
<1>1. p \in Processor /\ p.blockQueue \in Seq(Seq(Labels)) /\ p.pending \in SUBSET Moves
  BY DEF AddedOnce, Processor
<1>2. AddedOnce(ProcessAttachedBlock(p, st, b, mempool))
  <2> DEFINE old == IF p.blockQueue # <<>> /\ Back(p.blockQueue) # Parent(b)
                    THEN <<>> ELSE p.blockQueue
             new == Append(old, b)
             cut == IF Len(new) > BlockQueueSize THEN Tail(new) ELSE new
  <2>1. old \in Seq(Seq(Labels))
    BY <1>1, EmptySeq
  <2> HIDE DEF old
  <2>2. new \in Seq(Seq(Labels)) /\ new # <<>>
    BY <2>1
  <2> HIDE DEF new
  <2>3. cut \in Seq(Seq(Labels))
    BY <2>2
  <2> HIDE DEF cut
  <2>4. [p EXCEPT !.blockQueue = cut] \in Processor
    BY <1>1, <2>3 DEF Processor
  <2>5. QED
    BY <2>4, ResetPendingOnce DEF ProcessAttachedBlock, cut, new, old
<1>3. AddedOnce(ProcessDetachedBlock(p, st, b, mempool))
  <2> DEFINE q == IF p.blockQueue # <<>> /\ Back(p.blockQueue) = b
                  THEN SubSeq(p.blockQueue, 1, Len(p.blockQueue) - 1) ELSE <<>>
  <2>1. q \in Seq(Seq(Labels))
    <3>1. p.blockQueue # <<>> =>
            SubSeq(p.blockQueue, 1, Len(p.blockQueue) - 1) \in Seq(Seq(Labels))
      BY <1>1
    <3>2. QED
      BY <1>1, <3>1, EmptySeq
  <2>2. MovesOf(b) \in SUBSET Moves
    BY ParentType DEF MovesOf, Moves
  <2> HIDE DEF q
  <2> DEFINE r == [p EXCEPT !.blockQueue = q, !.pending = @ \cup MovesOf(b)]
  <2>3. r = [p EXCEPT !.blockQueue = q, !.pending = p.pending \cup MovesOf(b)]
    BY <1>1 DEF Processor
  <2>4. r \in Processor
    BY <1>1, <2>1, <2>2, <2>3 DEF Processor
  <2> HIDE DEF r
  <2>5. QED
    BY <2>4, ResetPendingOnce DEF ProcessDetachedBlock, q, r
<1>4. ASSUME NEW m \in Moves PROVE AddedOnce(ProcessMove(p, st, m))
  <2>1. CASE m \in p.pending
    BY <2>1 DEF ProcessMove
  <2>2. CASE m \notin p.pending
    <3> DEFINE r == [p EXCEPT !.pending = @ \cup {m}]
    <3>1. r = [p EXCEPT !.pending = p.pending \cup {m}]
      BY <1>1 DEF Processor
    <3>2. r \in Processor /\ r.pending = p.pending \cup {m} /\ r.added = p.added
      BY <1>1, <3>1 DEF Processor
    <3> HIDE DEF r
    <3>3. AddedOnce(r)
      BY <3>2 DEF AddedOnce
    <3>4. p.added[m] = 0
      BY <1>1, <2>2 DEF AddedOnce, Processor
    <3>5. AddedOnce(AddPendingMoves(r, {m}, st))
      BY <3>2, <3>3, <3>4, AddPendingMovesOnce
    <3>6. QED
      BY <2>2, <3>5 DEF ProcessMove, r
  <2>3. QED
    BY <2>1, <2>2
<1>5. QED
  BY <1>2, <1>3, <1>4

\* Every action leaves the processor alone, drops it with the process, or is
\* one of its operations.
LEMMA PendingSteps ==
    ASSUME IInv, IInv', PendingInv, [Next]_vars
    PROVE  PendingInv'
<1>1. queue # <<>> => Head(queue).block \in Seq(Labels) \ {<<>>}
  <2>1. queue \in Seq(Message)
    BY DEF IInv, TypeOK
  <2>2. queue # <<>> => Head(queue) \in Message
    BY <2>1
  <2>3. QED
    BY <2>2 DEF Message
<1>2. store.view.state \in Seq(Labels) /\ store'.view.state \in Seq(Labels)
  BY DEF IInv, TypeOK, Store, Database
<1>3. ASSUME NEW type, NEW b \in Seq(Labels) \ {<<>>}, UpdatePending(type, b)
      PROVE  PendingInv'
  <2>1. CASE UNCHANGED pending
    BY <2>1 DEF PendingInv
  <2>2. CASE \E mempool \in SUBSET Moves :
            \/ pending' = ProcessAttachedBlock(pending, store'.view.state, b, mempool)
            \/ pending' = ProcessDetachedBlock(pending, store'.view.state, b, mempool)
    <3>1. PICK mempool \in SUBSET Moves :
            \/ pending' = ProcessAttachedBlock(pending, store'.view.state, b, mempool)
            \/ pending' = ProcessDetachedBlock(pending, store'.view.state, b, mempool)
      BY <2>2
    <3>2. /\ AddedOnce(ProcessAttachedBlock(pending, store'.view.state, b, mempool))
          /\ AddedOnce(ProcessDetachedBlock(pending, store'.view.state, b, mempool))
      BY <1>2, <1>3, ProcessorOnce DEF PendingInv
    <3>3. QED
      BY <3>1, <3>2 DEF PendingInv
  <2>3. QED
    BY <1>3, <2>1, <2>2 DEF UpdatePending
<1>4. CASE BlockAttach \/ BlockAttachRetry \/ BlockDetach \/ BlockDetachRetry
  <2>1. \E type \in Topics : UpdatePending(type, Head(queue).block)
    BY <1>4 DEF BlockAttach, BlockAttachRetry, BlockDetach, BlockDetachRetry, Topics
  <2>2. queue # <<>>
    BY <1>4 DEF BlockAttach, BlockAttachRetry, BlockDetach, BlockDetachRetry, Receive
  <2>3. QED
    BY <1>1, <1>3, <2>1, <2>2
<1>5. ASSUME NEW m \in Moves, PendingMove(m) PROVE PendingInv'
  <2>1. CASE m \in pending.pending
    BY <1>5, <2>1 DEF PendingMove, ProcessMove, PendingInv
  <2>2. CASE m \notin pending.pending
    <3>1. <<m>> \in Seq(Labels) \ {<<>>} /\ {} \in SUBSET Moves
      BY <1>5 DEF Moves
    <3>2. AddedOnce(ProcessMove(pending, store.view.state, m))
      BY <1>2, <1>5, <3>1, ProcessorOnce DEF PendingInv
    <3>3. QED
      BY <1>5, <3>2 DEF PendingMove, PendingInv
  <2>3. QED
    BY <2>1, <2>2
<1>6. CASE pending' = NewProcessor
  <2>1. pending' \in Processor
    BY DEF IInv, TypeOK
  <2>2. \A m \in Moves : pending'.added[m] = 0
    BY <1>6 DEF NewProcessor
  <2>3. QED
    BY <2>1, <2>2 DEF PendingInv, AddedOnce
<1>7. CASE UNCHANGED pending
  BY <1>7 DEF PendingInv
<1>8. \/ BlockAttach \/ BlockAttachRetry \/ BlockDetach \/ BlockDetachRetry
      \/ \E m \in Moves : PendingMove(m)
      \/ pending' = NewProcessor
      \/ UNCHANGED pending
  BY DEF Next, vars, Notification, DaemonMove, Lose, MissedNotifications,
         IgnoreNotification, SendUpdates, GetCustomStateData, EnablePruning, Start,
         StartReinitialise, Stop, Crash, CrashInPruning, Terminated
<1>9. QED
  BY <1>4, <1>5, <1>6, <1>7, <1>8

\* PendingMoveProcessor::ProcessMove and ProcessAttachedBlock / DetachedBlock:
\* between two calls to Clear, AddPendingMove sees a transaction at most once,
\* however often its notification comes and whatever blocks come with it.
THEOREM AddedOnceTheorem == Spec => []AddedAtMostOnce
<1>1. Init => PendingInv
  <2> SUFFICES ASSUME Init PROVE PendingInv
    OBVIOUS
  <2>1. pending \in Processor
    BY InitIInv DEF IInv, TypeOK
  <2>2. \A m \in Moves : pending.added[m] = 0
    BY DEF Init, NewProcessor
  <2>3. QED
    BY <2>1, <2>2 DEF PendingInv, AddedOnce
<1>2. IInv /\ IInv' /\ PendingInv /\ [Next]_vars => PendingInv'
  BY PendingSteps
<1>3. PendingInv => AddedAtMostOnce
  BY DEF PendingInv, AddedOnce, AddedAtMostOnce
<1>4. QED
  BY <1>1, <1>2, <1>3, InvariantTheorem, PTL DEF Spec

-----------------------------------------------------------------------------
(***************************************************************************)
(* Following the daemon: an invariant on what is on the channel.  Ordinary *)
(* notifications carry no token; the last of them always leads to the      *)
(* daemon's tip, so when none is left Game is there or starts over.        *)
(***************************************************************************)
Ordinary(m) == m.token = NoToken

Quiet(q) == \A i \in 1..Len(q) : ~Ordinary(q[i])

LastLeadsTo(q, b) ==
    \A i \in 1..Len(q) :
        Ordinary(q[i]) /\ (\A j \in (i + 1)..Len(q) : ~Ordinary(q[j]))
            => LeadsTo(q[i], b)

GenesisAnnounced(q) ==
    \E i \in 1..Len(q) :
        Ordinary(q[i]) /\ q[i].type = "attach" /\ q[i].block = Genesis

QueueInv ==
    /\ phase = "stopped" => queue = <<>>
    /\ LastLeadsTo(queue, tip)

TipInv ==
    ~Missing /\ Quiet(queue) /\ state = "UP_TO_DATE" => store.view.block = tip

PregenesisInv ==
    state = "PREGENESIS" =>
        /\ target = Genesis
        /\ Missing \/ Height(tip) < Height(Genesis) \/ GenesisAnnounced(queue)

FollowInv == QueueInv /\ TipInv /\ PregenesisInv

\* What a queue without its first message is made of.
LEMMA TailParts ==
    ASSUME NEW q \in Seq(Message), q # <<>>
    PROVE  /\ Head(q) = q[1] /\ Len(q) \in Nat \ {0}
           /\ Tail(q) \in Seq(Message) /\ Len(Tail(q)) = Len(q) - 1
           /\ \A i \in 1..(Len(q) - 1) : Tail(q)[i] = q[i + 1]
<1>1. Head(q) = q[1]
  BY HeadTailProperties
<1>2. Len(q) \in Nat \ {0}
  BY EmptySeq, LenProperties
<1>3. Tail(q) \in Seq(Message) /\ Len(Tail(q)) = Len(q) - 1
  BY HeadTailProperties
<1>4. \A i \in 1..Len(Tail(q)) : Tail(q)[i] = q[i + 1]
  BY HeadTailProperties
<1>5. QED
  BY <1>1, <1>2, <1>3, <1>4

\* A message of a queue is its first one or one of the rest.
LEMMA HeadOrTail ==
    ASSUME NEW q \in Seq(Message), q # <<>>, NEW i \in 1..Len(q)
    PROVE  q[i] = Head(q) \/ \E j \in 1..Len(Tail(q)) : Tail(q)[j] = q[i]
<1>1. /\ Head(q) = q[1] /\ Len(q) \in Nat \ {0} /\ Len(Tail(q)) = Len(q) - 1
      /\ \A j \in 1..(Len(q) - 1) : Tail(q)[j] = q[j + 1]
  BY TailParts
<1>2. CASE i = 1
  BY <1>1, <1>2
<1>3. CASE i # 1
  <2> DEFINE j == i - 1
  <2>1. j \in 1..(Len(q) - 1) /\ j + 1 = i
    BY <1>1, <1>3
  <2> HIDE DEF j
  <2>2. Tail(q)[j] = q[i]
    BY <1>1, <2>1
  <2>3. QED
    BY <1>1, <2>1, <2>2
<1>4. QED
  BY <1>2, <1>3

\* Taking the first message: the last ordinary one stays, or it was the first.
LEMMA TakeFirst ==
    ASSUME NEW q \in Seq(Message), q # <<>>, NEW b, LastLeadsTo(q, b)
    PROVE  /\ LastLeadsTo(Tail(q), b)
           /\ Quiet(Tail(q)) /\ Ordinary(Head(q)) => LeadsTo(Head(q), b)
           /\ Quiet(Tail(q)) /\ ~Ordinary(Head(q)) => Quiet(q)
           /\ GenesisAnnounced(q) =>
                \/ GenesisAnnounced(Tail(q))
                \/ /\ Ordinary(Head(q))
                   /\ Head(q).type = "attach" /\ Head(q).block = Genesis
<1>1. /\ Head(q) = q[1] /\ Len(q) \in Nat \ {0} /\ Len(Tail(q)) = Len(q) - 1
      /\ \A i \in 1..(Len(q) - 1) : Tail(q)[i] = q[i + 1]
  BY TailParts
<1>2. LastLeadsTo(Tail(q), b)
  <2> SUFFICES ASSUME NEW i \in 1..Len(Tail(q)), Ordinary(Tail(q)[i]),
                      \A j \in (i + 1)..Len(Tail(q)) : ~Ordinary(Tail(q)[j])
               PROVE  LeadsTo(Tail(q)[i], b)
    BY DEF LastLeadsTo
  <2> DEFINE k == i + 1
  <2>1. k \in 1..Len(q) /\ Tail(q)[i] = q[k]
    BY <1>1
  <2>2. ASSUME NEW j \in (k + 1)..Len(q) PROVE ~Ordinary(q[j])
    <3> DEFINE l == j - 1
    <3>1. l \in (i + 1)..Len(Tail(q)) /\ l \in 1..(Len(q) - 1) /\ l + 1 = j
      BY <1>1
    <3> HIDE DEF l, k
    <3>2. Tail(q)[l] = q[j]
      BY <1>1, <3>1
    <3>3. ~Ordinary(Tail(q)[l])
      BY <3>1
    <3>4. QED
      BY <3>2, <3>3
  <2> HIDE DEF k
  <2>3. Ordinary(q[k])
    BY <2>1
  <2>4. LeadsTo(q[k], b)
    BY <2>1, <2>2, <2>3 DEF LastLeadsTo
  <2>5. QED
    BY <2>1, <2>4
<1>3. ASSUME Quiet(Tail(q)), Ordinary(Head(q)) PROVE LeadsTo(Head(q), b)
  <2>1. 1 \in 1..Len(q) /\ Ordinary(q[1])
    BY <1>1, <1>3
  <2>2. ASSUME NEW j \in (1 + 1)..Len(q) PROVE ~Ordinary(q[j])
    <3> DEFINE l == j - 1
    <3>1. l \in 1..Len(Tail(q)) /\ l \in 1..(Len(q) - 1) /\ l + 1 = j
      BY <1>1
    <3> HIDE DEF l
    <3>2. Tail(q)[l] = q[j] /\ ~Ordinary(Tail(q)[l])
      BY <1>1, <1>3, <3>1 DEF Quiet
    <3>3. QED
      BY <3>2
  <2>3. LeadsTo(q[1], b)
    BY <2>1, <2>2 DEF LastLeadsTo
  <2>4. QED
    BY <1>1, <2>3
<1>4. ASSUME Quiet(Tail(q)), ~Ordinary(Head(q)) PROVE Quiet(q)
  BY <1>4, HeadOrTail DEF Quiet
<1>5. ASSUME GenesisAnnounced(q)
      PROVE  \/ GenesisAnnounced(Tail(q))
             \/ /\ Ordinary(Head(q))
                /\ Head(q).type = "attach" /\ Head(q).block = Genesis
  BY <1>5, HeadOrTail DEF GenesisAnnounced
<1>6. QED
  BY <1>2, <1>3, <1>4, <1>5

\* Queue r is q with the steps u appended, marked with token t.
Sent(q, u, t, r) ==
    /\ Len(q) \in Nat /\ Len(u) \in Nat /\ Len(r) = Len(q) + Len(u)
    /\ \A i \in 1..Len(q) : r[i] = q[i]
    /\ \A i \in 1..Len(u) :
          r[Len(q) + i] = [type |-> u[i].type, block |-> u[i].block, token |-> t]

\* What the daemon appends to a queue, message by message.
LEMMA SentParts ==
    ASSUME NEW q \in Seq(Message), NEW a \in Seq(Labels), NEW b \in Seq(Labels),
           NEW t \in Nat
    PROVE  Sent(q, Updates(a, b), t, q \o WithToken(Updates(a, b), t))
<1> DEFINE u == Updates(a, b)
           w == WithToken(u, t)
<1>1. u \in Seq(Step)
  BY UpdatesType
<1> HIDE DEF u
<1>2. Len(q) \in Nat /\ Len(u) \in Nat
  BY <1>1, LenProperties
<1>3. w \in Seq(Message)
  BY <1>1, WithTokenType
<1>4. /\ DOMAIN w = 1..Len(u)
      /\ \A i \in 1..Len(u) :
            w[i] = [type |-> u[i].type, block |-> u[i].block, token |-> t]
  BY DEF WithToken
<1> HIDE DEF w
<1>5. Len(w) = Len(u)
  BY <1>2, <1>3, <1>4, LenProperties
<1>6. /\ Len(q \o w) = Len(q) + Len(w)
      /\ \A i \in 1..(Len(q) + Len(w)) :
            (q \o w)[i] = IF i <= Len(q) THEN q[i] ELSE w[i - Len(q)]
  BY <1>3, ConcatProperties
<1>7. ASSUME NEW i \in 1..Len(q) PROVE (q \o w)[i] = q[i]
  BY <1>2, <1>5, <1>6
<1>8. ASSUME NEW i \in 1..Len(u) PROVE (q \o w)[Len(q) + i] = w[i]
  <2> DEFINE k == Len(q) + i
  <2>1. k \in 1..(Len(q) + Len(w)) /\ ~(k <= Len(q)) /\ k - Len(q) = i
    BY <1>2, <1>5
  <2> HIDE DEF k
  <2>2. (q \o w)[k] = IF k <= Len(q) THEN q[k] ELSE w[k - Len(q)]
    BY <1>6, <2>1, Zenon
  <2>3. (q \o w)[k] = w[i]
    BY <2>1, <2>2, Zenon
  <2>4. QED
    BY <2>3 DEF k
<1>9. QED
  BY <1>2, <1>4, <1>5, <1>6, <1>7, <1>8 DEF Sent, u, w

\* The announcement of a new tip: it is the last ordinary message, and leads
\* there; a move past the genesis height announces the genesis block.
LEMMA Announced ==
    ASSUME NEW q \in Seq(Message), NEW a \in Seq(Labels), NEW b \in Seq(Labels), a # b
    PROVE  LET r == q \o WithToken(Updates(a, b), NoToken)
           IN  /\ LastLeadsTo(r, b)
               /\ ~Quiet(r)
               /\ GenesisAnnounced(q) => GenesisAnnounced(r)
               /\ (/\ Len(a) < Len(Genesis) /\ Len(Genesis) <= Len(b)
                   /\ Prefix(b, Len(Genesis)) = Genesis) => GenesisAnnounced(r)
<1> DEFINE u == Updates(a, b)
           r == q \o WithToken(u, NoToken)
<1>1. Sent(q, u, NoToken, r)
  BY SentParts DEF NoToken
<1>2. Len(u) \in Nat \ {0} /\ LeadsTo(u[Len(u)], b)
  BY LastUpdate
<1>3. ASSUME Len(a) < Len(Genesis), Len(Genesis) <= Len(b),
             Prefix(b, Len(Genesis)) = Genesis
      PROVE  \E i \in 1..Len(u) : u[i] = [type |-> "attach", block |-> Genesis]
  BY <1>3, UpdatesThrough, BlockchainAssumption
<1> HIDE DEF u, r
<1>4. \A i \in 1..Len(u) : /\ Len(q) + i \in 1..Len(r)
                           /\ Ordinary(r[Len(q) + i])
                           /\ r[Len(q) + i].type = u[i].type
                           /\ r[Len(q) + i].block = u[i].block
  <2> SUFFICES ASSUME NEW i \in 1..Len(u)
               PROVE  /\ Len(q) + i \in 1..Len(r)
                      /\ Ordinary(r[Len(q) + i])
                      /\ r[Len(q) + i].type = u[i].type
                      /\ r[Len(q) + i].block = u[i].block
    OBVIOUS
  <2>1. Len(q) + i \in 1..Len(r)
    BY <1>1 DEF Sent
  <2>2. r[Len(q) + i] = [type |-> u[i].type, block |-> u[i].block,
                         token |-> NoToken]
    BY <1>1, Zenon DEF Sent
  <2>3. QED
    BY <2>1, <2>2 DEF Ordinary
<1>5. Len(u) \in 1..Len(u) /\ Len(q) + Len(u) = Len(r) /\ Len(r) \in Nat
  BY <1>1, <1>2 DEF Sent
<1>6. Len(r) \in 1..Len(r) /\ Ordinary(r[Len(r)]) /\ LeadsTo(r[Len(r)], b)
  <2>1. /\ Len(r) \in 1..Len(r) /\ Ordinary(r[Len(r)])
        /\ r[Len(r)].type = u[Len(u)].type /\ r[Len(r)].block = u[Len(u)].block
    BY <1>4, <1>5
  <2>2. QED
    BY <1>2, <2>1 DEF LeadsTo
<1>7. LastLeadsTo(r, b)
  <2> SUFFICES ASSUME NEW i \in 1..Len(r),
                      \A j \in (i + 1)..Len(r) : ~Ordinary(r[j])
               PROVE  LeadsTo(r[i], b)
    BY DEF LastLeadsTo
  <2>1. CASE i = Len(r)
    BY <1>6, <2>1
  <2>2. CASE i # Len(r)
    <3>1. Len(r) \in (i + 1)..Len(r)
      BY <1>5, <2>2
    <3>2. QED
      BY <1>6, <3>1
  <2>3. QED
    BY <2>1, <2>2
<1>8. ~Quiet(r)
  BY <1>6 DEF Quiet
<1>9. ASSUME GenesisAnnounced(q) PROVE GenesisAnnounced(r)
  <2>1. PICK i \in 1..Len(q) :
            Ordinary(q[i]) /\ q[i].type = "attach" /\ q[i].block = Genesis
    BY <1>9 DEF GenesisAnnounced
  <2>2. i \in 1..Len(r) /\ r[i] = q[i]
    BY <1>1 DEF Sent
  <2>3. QED
    BY <2>1, <2>2 DEF GenesisAnnounced
<1>10. ASSUME Len(a) < Len(Genesis), Len(Genesis) <= Len(b),
              Prefix(b, Len(Genesis)) = Genesis
       PROVE  GenesisAnnounced(r)
  <2>1. PICK i \in 1..Len(u) : u[i] = [type |-> "attach", block |-> Genesis]
    BY <1>3, <1>10
  <2> DEFINE k == Len(q) + i
  <2>2. /\ k \in 1..Len(r) /\ Ordinary(r[k])
        /\ r[k].type = "attach" /\ r[k].block = Genesis
    BY <1>4, <2>1
  <2> HIDE DEF k
  <2>3. QED
    BY <2>2 DEF GenesisAnnounced
<1>11. QED
  BY <1>7, <1>8, <1>9, <1>10 DEF r, u

\* The updates Game asked for carry a token: ordinary messages stay what they
\* are.
LEMMA Requested ==
    ASSUME NEW q \in Seq(Message), NEW a \in Seq(Labels), NEW b \in Seq(Labels),
           NEW t \in Nat \ {0}, NEW c, LastLeadsTo(q, c)
    PROVE  LastLeadsTo(q \o WithToken(Updates(a, b), t), c)
<1> DEFINE u == Updates(a, b)
           r == q \o WithToken(u, t)
<1>1. Sent(q, u, t, r)
  BY SentParts
<1> HIDE DEF u, r
<1>2. ASSUME NEW i \in 1..Len(r), Ordinary(r[i]) PROVE i \in 1..Len(q)
  <2> SUFFICES ASSUME i > Len(q) PROVE FALSE
    BY <1>1 DEF Sent
  <2> DEFINE k == i - Len(q)
  <2>1. k \in 1..Len(u) /\ Len(q) + k = i
    BY <1>1 DEF Sent
  <2> HIDE DEF k
  <2>2. r[i] = [type |-> u[k].type, block |-> u[k].block, token |-> t]
    BY <1>1, <2>1, Zenon DEF Sent
  <2>3. QED
    BY <1>2, <2>2 DEF Ordinary, NoToken
<1>3. LastLeadsTo(r, c)
  <2> SUFFICES ASSUME NEW i \in 1..Len(r), Ordinary(r[i]),
                      \A j \in (i + 1)..Len(r) : ~Ordinary(r[j])
               PROVE  LeadsTo(r[i], c)
    BY DEF LastLeadsTo
  <2>1. i \in 1..Len(q) /\ r[i] = q[i]
    BY <1>1, <1>2 DEF Sent
  <2>2. ASSUME NEW j \in (i + 1)..Len(q) PROVE ~Ordinary(q[j])
    <3>1. j \in 1..Len(q) /\ j \in (i + 1)..Len(r)
      BY <1>1 DEF Sent
    <3>2. QED
      BY <1>1, <3>1 DEF Sent
  <2>3. QED
    BY <2>1, <2>2 DEF LastLeadsTo
<1>4. QED
  BY <1>3 DEF r, u

\* What holds right after ReinitialiseState.
InSync ==
    /\ state = "UP_TO_DATE" => store.view.block = tip
    /\ state = "PREGENESIS" => target = Genesis /\ Height(tip) < Height(Genesis)
    /\ state # "CATCHING_UP"

LEMMA ReinitialiseInSync ==
    ASSUME NEW s, GoodStore(s), ReinitialiseState(s), tip' = tip
    PROVE  InSync'
<1>1. ASSUME NEW z, GoodStore(z), SyncFromCurrentState(z) PROVE InSync'
  <2>1. CASE z.view.block = tip
    <3>1. state' = "UP_TO_DATE" /\ store' = SetBatchSize(z, 1)
      BY <1>1, <2>1 DEF SyncFromCurrentState
    <3>2. SetBatchSize(z, 1).view = z.view
      BY <1>1, SetBatchSizeGood
    <3>3. QED
      BY <2>1, <3>1, <3>2 DEF InSync
  <2>2. CASE z.view.block # tip
    BY <1>1, <2>2 DEF SyncFromCurrentState, InSync
  <2>3. QED
    BY <2>1, <2>2
<1>2. CASE SyncFromCurrentState(s)
  BY <1>1, <1>2
<1>3. CASE /\ state' = "PREGENESIS" /\ target' = Genesis
           /\ Height(tip) < Height(Genesis)
  BY <1>3 DEF InSync
<1>4. CASE SyncFromCurrentState(StoreInitialState(s))
  BY <1>1, <1>4, StoreInitialStateGood
<1>5. QED
  BY <1>2, <1>3, <1>4 DEF ReinitialiseState

\* Every handler takes the first message off the queue.
LEMMA ReceiveQueue ==
    ASSUME IInv, QueueInv, NEW type \in Topics, Receive(type)
    PROVE  /\ queue \in Seq(Message) /\ queue # <<>> /\ queue' = Tail(queue)
           /\ LastLeadsTo(queue, tip) /\ tip' = tip /\ QueueInv'
           /\ Head(queue) \in Message /\ Head(queue).type = type
           /\ ~SeqMismatch(type) /\ ~Missing' => ~Missing
<1>1. queue \in Seq(Message) /\ queue # <<>> /\ queue' = Tail(queue)
      /\ LastLeadsTo(queue, tip) /\ tip' = tip /\ Head(queue).type = type
      /\ phase # "stopped" /\ phase' = phase /\ link \in [Topics -> LinkState]
  BY DEF IInv, TypeOK, Receive, QueueInv, Unlocked
<1>2. LastLeadsTo(Tail(queue), tip)
  BY <1>1, TakeFirst
<1>3. QueueInv'
  BY <1>1, <1>2 DEF QueueInv
<1>4. ASSUME ~SeqMismatch(type), ~Missing' PROVE ~Missing
  <2>1. link[type] = "ok" /\ link' = [t \in Topics |-> IF t = type THEN "ok"
                                 ELSE IF link[t] = "lost" THEN "stale" ELSE link[t]]
    BY <1>4 DEF SeqMismatch, Receive
  <2>2. \A t \in Topics : link'[t] \notin {"lost", "stale"}
    BY <1>4 DEF Missing
  <2>3. \A t \in Topics : link[t] \notin {"lost", "stale"}
    BY <2>1, <2>2
  <2>4. QED
    BY <2>3 DEF Missing
<1>5. QED
  BY <1>1, <1>3, <1>4

\* A step after which Game has just started over.
LEMMA FollowAfterReinit ==
    ASSUME InSync', QueueInv'
    PROVE  FollowInv'
  BY DEF InSync, FollowInv, TipInv, PregenesisInv

\* A new tip is announced, or the process is not there to hear of it.
LEMMA DaemonMoveFollows ==
    ASSUME IInv, FollowInv, NEW b \in Blocks, DaemonMove(b)
    PROVE  FollowInv'
<1>1. tip \in Seq(Labels) /\ queue \in Seq(Message) /\ b \in Seq(Labels)
  <2>1. PICK h \in 0..MaxHeight : b \in [1..h -> Labels]
    BY DEF Blocks
  <2>2. QED
    BY <2>1, BlockchainAssumption, IsASeq DEF IInv, TypeOK
<1>2. /\ b # tip /\ tip' = b
      /\ queue' = IF phase = "stopped" THEN queue
                  ELSE queue \o WithToken(Updates(tip, b), NoToken)
      /\ UNCHANGED <<link, phase, state, target, store>>
  BY DEF DaemonMove, syncVars
<1>3. CASE phase = "stopped"
  <2>1. queue' = <<>> /\ state' = "UNKNOWN"
    BY <1>2, <1>3 DEF IInv, SyncInv, FollowInv, QueueInv
  <2>2. LastLeadsTo(<<>>, b)
    BY DEF LastLeadsTo
  <2>3. QED
    BY <1>2, <2>1, <2>2 DEF FollowInv, QueueInv, TipInv, PregenesisInv
<1>4. CASE phase # "stopped"
  <2> DEFINE r == queue \o WithToken(Updates(tip, b), NoToken)
  <2>1. /\ LastLeadsTo(r, b) /\ ~Quiet(r)
        /\ GenesisAnnounced(queue) => GenesisAnnounced(r)
        /\ (/\ Len(tip) < Len(Genesis) /\ Len(Genesis) <= Len(b)
            /\ Prefix(b, Len(Genesis)) = Genesis) => GenesisAnnounced(r)
    BY <1>1, <1>2, Announced
  <2>2. queue' = r
    BY <1>2, <1>4
  <2> HIDE DEF r
  <2>3. QueueInv' /\ TipInv'
    BY <1>2, <1>4, <2>1, <2>2 DEF QueueInv, TipInv
  <2>4. ASSUME Len(tip) < Len(Genesis), ~(Len(b) < Len(Genesis))
        PROVE  GenesisAnnounced(r)
    <3>1. Len(Genesis) <= Len(b)
      BY <1>1, <2>4, BlockchainAssumption, LenProperties
    <3>2. Prefix(b, Len(Genesis)) = Genesis
      BY <1>1, <3>1, AboveGenesis
    <3>3. QED
      BY <2>1, <2>4, <3>1, <3>2
  <2>5. Missing' <=> Missing
    BY <1>2 DEF Missing
  <2>6. PregenesisInv'
    <3> SUFFICES ASSUME state = "PREGENESIS"
                 PROVE  /\ target = Genesis
                        /\ Missing \/ Len(b) < Len(Genesis) \/ GenesisAnnounced(r)
      BY <1>2, <2>2, <2>5 DEF PregenesisInv
    <3>1. QED
      BY <2>1, <2>4 DEF FollowInv, PregenesisInv
  <2>7. QED
    BY <2>3, <2>6 DEF FollowInv
<1>5. QED
  BY <1>3, <1>4

\* After a loss there is nothing to be said of the current block.
LEMMA LoseFollows ==
    ASSUME IInv, FollowInv, Lose
    PROVE  FollowInv'
<1>1. /\ queue \in Seq(Message) /\ queue # <<>> /\ queue' = Tail(queue)
      /\ LastLeadsTo(queue, tip) /\ tip' = tip /\ phase # "stopped"
      /\ UNCHANGED <<phase, state, target, store>>
      /\ link \in [Topics -> LinkState]
      /\ link' = [link EXCEPT ![Head(queue).type] = "lost"]
  BY DEF Lose, syncVars, IInv, TypeOK, FollowInv, QueueInv
<1>2. QueueInv'
  BY <1>1, TakeFirst DEF QueueInv
<1>3. Head(queue) \in Message
  BY <1>1
<1>4. Missing'
  BY <1>1, <1>3 DEF Message, Missing
<1>5. QED
  BY <1>1, <1>2, <1>4 DEF FollowInv, TipInv, PregenesisInv

\* A gap in the sequence numbers makes Game start over.
LEMMA MissedNotificationsFollow ==
    ASSUME IInv, FollowInv, NEW type \in Topics, MissedNotifications(type)
    PROVE  FollowInv'
<1>1. QueueInv' /\ tip' = tip
  BY ReceiveQueue DEF MissedNotifications, FollowInv
<1>2. InSync'
  BY <1>1, ReinitialiseInSync DEF MissedNotifications, IInv
<1>3. QED
  BY <1>1, <1>2, FollowAfterReinit

\* What is ignored when not catching up is not an ordinary notification.
LEMMA IgnoreNotificationFollows ==
    ASSUME IInv, FollowInv, NEW type \in Topics, IgnoreNotification(type)
    PROVE  FollowInv'
<1>1. /\ queue \in Seq(Message) /\ queue # <<>> /\ queue' = Tail(queue)
      /\ LastLeadsTo(queue, tip) /\ tip' = tip /\ QueueInv'
      /\ ~Missing' => ~Missing
  BY ReceiveQueue DEF IgnoreNotification, FollowInv
<1>2. UNCHANGED <<state, target, store>> /\ ~IsReqtokenRelevant(Head(queue))
  BY DEF IgnoreNotification
<1>3. /\ Quiet(Tail(queue)) /\ ~Ordinary(Head(queue)) => Quiet(queue)
      /\ GenesisAnnounced(queue) =>
            GenesisAnnounced(Tail(queue)) \/ Ordinary(Head(queue))
  BY <1>1, TakeFirst
<1>4. state # "CATCHING_UP" => ~Ordinary(Head(queue))
  BY <1>2 DEF IsReqtokenRelevant, Ordinary
<1>5. TipInv'
  BY <1>1, <1>2, <1>3, <1>4 DEF FollowInv, TipInv
<1>6. PregenesisInv'
  BY <1>1, <1>2, <1>3, <1>4 DEF FollowInv, PregenesisInv
<1>7. QED
  BY <1>1, <1>5, <1>6 DEF FollowInv

\* BlockAttach goes to the block the message leads to, or starts over.
LEMMA BlockAttachFollows ==
    ASSUME IInv, FollowInv, BlockAttach
    PROVE  FollowInv'
<1> DEFINE b == Head(queue).block
           s == UpdateStateForAttach(b)
           t == IF pruning = NoPruning THEN s ELSE AttachBlockStore(pruning, b, s)
<1>1. /\ queue \in Seq(Message) /\ queue # <<>> /\ queue' = Tail(queue)
      /\ LastLeadsTo(queue, tip) /\ tip' = tip /\ QueueInv'
      /\ Head(queue) \in Message /\ Head(queue).type = "attach"
      /\ ~Missing' => ~Missing
  BY ReceiveQueue DEF BlockAttach, FollowInv, Topics
<1>2. /\ IsReqtokenRelevant(Head(queue)) /\ StateChecks
      /\ Finish(AttachNeedsReinit(b), t)
  BY DEF BlockAttach
<1>3. b \in Seq(Labels) \ {<<>>} /\ GoodStore(store)
  BY <1>1 DEF Message, IInv
<1>4. /\ Quiet(Tail(queue)) /\ Ordinary(Head(queue)) => LeadsTo(Head(queue), tip)
      /\ GenesisAnnounced(queue) => GenesisAnnounced(Tail(queue)) \/ b = Genesis
  BY <1>1, TakeFirst
<1>5. LeadsTo(Head(queue), tip) => b = tip
  BY <1>1 DEF LeadsTo
<1>6. state # "CATCHING_UP" => Ordinary(Head(queue))
  BY <1>2 DEF IsReqtokenRelevant, Ordinary
<1> HIDE DEF b
<1>7. GoodStore(s) /\ (Following /\ Matches(b) => s.view.block = b)
  BY <1>2, <1>3, UpdateForAttachGood, AttachToStateGood
     DEF UpdateStateForAttach, Matches
<1> HIDE DEF s
<1>8. GoodStore(t) /\ t.view.block = s.view.block
  <2>1. pruning \in Queue \cup {NoPruning}
    BY DEF IInv, TypeOK
  <2>2. QED
    BY <1>3, <1>7, <2>1, AttachBlockGood DEF SameBlock
<1> HIDE DEF t
<1>9. CASE AttachNeedsReinit(b)
  BY <1>1, <1>2, <1>8, <1>9, ReinitialiseInSync, FollowAfterReinit DEF Finish
<1>10. CASE ~AttachNeedsReinit(b)
  <2>1. store' = t /\ UNCHANGED <<state, target, rpc>>
    BY <1>2, <1>10 DEF Finish
  <2>2. /\ Following => t.view.block = b
        /\ state = "PREGENESIS" => b # target
    BY <1>7, <1>8, <1>10 DEF AttachNeedsReinit
  <2>3. TipInv'
    BY <1>1, <1>4, <1>5, <1>6, <2>1, <2>2 DEF TipInv, Following
  <2>4. PregenesisInv'
    BY <1>1, <1>4, <2>1, <2>2 DEF FollowInv, PregenesisInv
  <2>5. QED
    BY <1>1, <2>3, <2>4 DEF FollowInv
<1>11. QED
  BY <1>9, <1>10

\* BlockDetach goes to the parent of the message's block, or starts over.
LEMMA BlockDetachFollows ==
    ASSUME IInv, FollowInv, BlockDetach
    PROVE  FollowInv'
<1> DEFINE b == Head(queue).block
           s == UpdateStateForDetach(b)
<1>1. /\ queue \in Seq(Message) /\ queue # <<>> /\ queue' = Tail(queue)
      /\ LastLeadsTo(queue, tip) /\ tip' = tip /\ QueueInv'
      /\ Head(queue) \in Message /\ Head(queue).type = "detach"
      /\ ~Missing' => ~Missing
  BY ReceiveQueue DEF BlockDetach, FollowInv, Topics
<1>2. /\ IsReqtokenRelevant(Head(queue)) /\ StateChecks
      /\ Finish(DetachNeedsReinit(b), s)
  BY DEF BlockDetach
<1>3. b \in Seq(Labels) \ {<<>>} /\ GoodStore(store)
  BY <1>1 DEF Message, IInv
<1>4. /\ Quiet(Tail(queue)) /\ Ordinary(Head(queue)) => LeadsTo(Head(queue), tip)
      /\ GenesisAnnounced(queue) => GenesisAnnounced(Tail(queue))
  BY <1>1, TakeFirst
<1>5. LeadsTo(Head(queue), tip) => Parent(b) = tip
  BY <1>1 DEF LeadsTo
<1>6. state # "CATCHING_UP" => Ordinary(Head(queue))
  BY <1>2 DEF IsReqtokenRelevant, Ordinary
<1> HIDE DEF b
<1>7. GoodStore(s)
  BY <1>2, <1>3, UpdateForDetachGood
<1>8. Following /\ ~DetachNeedsReinit(b) => s.view.block = Parent(b)
  <2> SUFFICES ASSUME Following, IsCurrent(b), UndoDataOf(store.view, b) # {}
               PROVE  s.view.block = Parent(b)
    BY DEF DetachNeedsReinit
  <2> DEFINE u == CHOOSE r \in UndoDataOf(store.view, b) : TRUE
  <2>1. u \in UndoDataOf(store.view, b)
    OBVIOUS
  <2>2. s = DetachFromState(store, b, u.data)
    BY DEF UpdateStateForDetach
  <2> HIDE DEF u, s
  <2>3. QED
    BY <1>3, <2>1, <2>2, DetachFromStateGood DEF IsCurrent
<1> HIDE DEF s
<1>9. CASE DetachNeedsReinit(b)
  BY <1>1, <1>2, <1>7, <1>9, ReinitialiseInSync, FollowAfterReinit DEF Finish
<1>10. CASE ~DetachNeedsReinit(b)
  <2>1. store' = s /\ UNCHANGED <<state, target, rpc>>
    BY <1>2, <1>10 DEF Finish
  <2>2. TipInv'
    BY <1>1, <1>4, <1>5, <1>6, <1>8, <1>10, <2>1 DEF TipInv, Following
  <2>3. PregenesisInv'
    BY <1>1, <1>4, <2>1 DEF FollowInv, PregenesisInv
  <2>4. QED
    BY <1>1, <2>2, <2>3 DEF FollowInv
<1>11. QED
  BY <1>9, <1>10

\* A handler whose transaction fails starts over.
LEMMA RetriesFollow ==
    ASSUME IInv, FollowInv, BlockAttachRetry \/ BlockDetachRetry
    PROVE  FollowInv'
<1>1. \E type \in Topics : Receive(type)
  BY DEF BlockAttachRetry, BlockDetachRetry, Topics
<1>2. QueueInv' /\ tip' = tip /\ Head(queue) \in Message
  BY <1>1, ReceiveQueue DEF FollowInv
<1>3. Head(queue).block \in Seq(Labels) \ {<<>>}
  BY <1>2 DEF Message
<1>4. \E s : GoodStore(s) /\ ReinitialiseState(s)
  <2>1. CASE BlockAttachRetry
    BY <1>3, <2>1, AttachFailuresGood DEF BlockAttachRetry
  <2>2. CASE BlockDetachRetry
    BY <2>2, RollbackGood DEF BlockDetachRetry, IInv
  <2>3. QED
    BY <2>1, <2>2
<1>5. QED
  BY <1>2, <1>4, ReinitialiseInSync, FollowAfterReinit

\* The updates Game asks for do not count as ordinary notifications.
LEMMA SendUpdatesFollows ==
    ASSUME IInv, FollowInv, SendUpdates
    PROVE  FollowInv'
<1> DEFINE t == IF queue = <<>> THEN 1 ELSE lastToken + 1
<1>1. /\ tip \in Seq(Labels) /\ queue \in Seq(Message) /\ t \in Nat \ {0}
      /\ GoodStore(store) /\ HasState(store.view) /\ phase # "stopped"
      /\ LastLeadsTo(queue, tip)
  BY DEF IInv, TypeOK, SyncInv, SendUpdates, FollowInv, QueueInv
<1>2. /\ queue' = queue \o WithToken(Updates(store.view.block, tip), t)
      /\ state' = "CATCHING_UP" /\ tip' = tip /\ phase' = phase
  BY DEF SendUpdates
<1> HIDE DEF t
<1>3. store.view.block \in Seq(Labels)
  BY <1>1 DEF GoodStore, Store, Database, HasState
<1>4. LastLeadsTo(queue', tip)
  BY <1>1, <1>2, <1>3, Requested
<1>5. QED
  BY <1>1, <1>2, <1>4 DEF FollowInv, QueueInv, TipInv, PregenesisInv

\* Pending moves, readers and EnablePruning leave the current block alone.
LEMMA OtherUsersFollow ==
    ASSUME IInv, FollowInv, store'.view.block = store.view.block,
           UNCHANGED <<tip, queue, link, phase, state, target>>
    PROVE  FollowInv'
<1>1. Missing' <=> Missing
  BY DEF Missing
<1>2. QED
  BY <1>1 DEF FollowInv, QueueInv, TipInv, PregenesisInv

\* A process that starts or ends knows nothing yet.
LEMMA ProcessFollows ==
    ASSUME IInv, FollowInv,
           Start \/ StartReinitialise \/ Stop \/ Crash \/ CrashInPruning
    PROVE  FollowInv'
<1>1. CASE Start
  <2>1. state' = "UNKNOWN" /\ UNCHANGED <<tip, queue>> /\ phase' # "stopped"
    BY <1>1 DEF Start, IInv, SyncInv
  <2>2. QED
    BY <2>1 DEF FollowInv, QueueInv, TipInv, PregenesisInv
<1>2. CASE StartReinitialise
  <2>1. QueueInv' /\ tip' = tip
    BY <1>2 DEF StartReinitialise, daemonVars, FollowInv, QueueInv
  <2>2. InSync'
    BY <1>2, <2>1, ReinitialiseInSync DEF StartReinitialise, IInv
  <2>3. QED
    BY <2>1, <2>2, FollowAfterReinit
<1>3. CASE \E db : Terminated(db)
  <2>1. state' = "UNKNOWN" /\ queue' = <<>>
    BY <1>3 DEF Terminated
  <2>2. LastLeadsTo(<<>>, tip')
    BY DEF LastLeadsTo
  <2>3. QED
    BY <2>1, <2>2 DEF FollowInv, QueueInv, TipInv, PregenesisInv
<1>4. QED
  BY <1>1, <1>2, <1>3 DEF Stop, Crash, CrashInPruning

\* FollowInv is inductive relative to IInv.
LEMMA NextFollows ==
    ASSUME IInv, FollowInv, [Next]_vars
    PROVE  FollowInv'
<1>1. ASSUME NEW b \in Blocks, DaemonMove(b) PROVE FollowInv'
  BY <1>1, DaemonMoveFollows
<1>2. CASE Lose
  BY <1>2, LoseFollows
<1>3. CASE Notification
  BY <1>3, MissedNotificationsFollow, IgnoreNotificationFollows,
     BlockAttachFollows, BlockDetachFollows DEF Notification
<1>4. CASE BlockAttachRetry \/ BlockDetachRetry
  BY <1>4, RetriesFollow
<1>5. CASE SendUpdates
  BY <1>5, SendUpdatesFollows
<1>6. ASSUME NEW m \in Moves, PendingMove(m) PROVE FollowInv'
  BY <1>6, OtherUsersFollow DEF PendingMove, daemonVars, syncVars
<1>7. CASE GetCustomStateData
  <2>1. store'.view = store.view
    BY <1>7, FillHeightGood DEF GetCustomStateData, IInv
  <2>2. QED
    BY <1>7, <2>1, OtherUsersFollow DEF GetCustomStateData, daemonVars, syncVars
<1>8. ASSUME NEW n \in PruneSizes, EnablePruning(n) PROVE FollowInv'
  <2>1. n \in Nat /\ pruning \in Queue \cup {NoPruning} /\ GoodStore(store)
    BY GameAssumption DEF IInv, TypeOK
  <2>2. store'.view.block = store.view.block
    BY <1>8, <2>1, SetDesiredSizeGood DEF EnablePruning, SameBlock
  <2>3. QED
    BY <1>8, <2>2, OtherUsersFollow DEF EnablePruning, daemonVars, syncVars
<1>9. CASE Start \/ StartReinitialise \/ Stop \/ Crash \/ CrashInPruning
  BY <1>9, ProcessFollows
<1>10. CASE UNCHANGED vars
  BY <1>10, OtherUsersFollow DEF vars, daemonVars, syncVars
<1>11. QED
  BY <1>1, <1>2, <1>3, <1>4, <1>5, <1>6, <1>7, <1>8, <1>9, <1>10 DEF Next

\* FollowInv holds initially.
LEMMA InitFollows ==
    ASSUME Init
    PROVE  FollowInv
<1>1. LastLeadsTo(<<>>, tip)
  BY DEF LastLeadsTo
<1>2. QED
  BY <1>1 DEF Init, FollowInv, QueueInv, TipInv, PregenesisInv

\* UP_TO_DATE is true, in every state of BlockAttach, BlockDetach and
\* ReinitialiseState: when no notification was lost and none is on its way, the
\* current block is the daemon's tip, through any reorgs, failed transactions,
\* invalidated blocks and restarts; and PREGENESIS is true as well.
THEOREM UpToDateTheorem == Spec => []UpToDateMeansTip
<1>1. Init => FollowInv
  BY InitFollows
<1>2. IInv /\ FollowInv /\ [Next]_vars => FollowInv'
  BY NextFollows
<1>3. FollowInv => UpToDateMeansTip
  <2> SUFFICES ASSUME FollowInv, ~Missing,
                      \A i \in 1..Len(queue) : queue[i].token # NoToken
               PROVE  /\ state = "UP_TO_DATE" => store.view.block = tip
                      /\ state = "PREGENESIS" => Height(tip) < Height(Genesis)
    BY DEF UpToDateMeansTip
  <2>1. Quiet(queue) /\ ~GenesisAnnounced(queue)
    BY DEF Quiet, GenesisAnnounced, Ordinary
  <2>2. QED
    BY <2>1 DEF FollowInv, TipInv, PregenesisInv
<1>4. QED
  BY <1>1, <1>2, <1>3, InvariantTheorem, PTL DEF Spec

-----------------------------------------------------------------------------
(***************************************************************************)
(* Catching up, for a daemon that only moves to higher blocks.  Nothing in *)
(* the storage or on the channel is then higher than its tip, so a tip     *)
(* that arrives between the two calls of ReinitialiseState is not the      *)
(* current block, and the answer to game_sendupdates is never empty.       *)
(***************************************************************************)
Low(db, h) == HasState(db) => Height(db.block) <= h

LowStore(s, h) == Low(s.view, h) /\ Low(s.disk, h)

LowQueue(q, h) == \A i \in 1..Len(q) : Height(q[i].block) <= h

Backed(q, t, b) == \E i \in 1..Len(q) : q[i].token = t /\ LeadsTo(q[i], b)

CatchInv ==
    /\ LowStore(store, Height(tip)) /\ LowQueue(queue, Height(tip))
    /\ rpc = "sendupdates" => store.view.block # tip
    /\ state = "CATCHING_UP" /\ ~Missing => Backed(queue, reqToken, target)

\* A commit of a low block leaves low blocks on disk and in the view.
LEMMA LowCommit ==
    ASSUME NEW h, NEW s \in Store, LowStore(s, h), NEW v \in Database, Low(v, h)
    PROVE  LowStore(Commit(s, v), h) /\ LowStore(CommitState(s, v), h)
<1> DEFINE c == Commit(s, v)
<1>1. c \in Store /\ c.view = v /\ c.disk \in {s.disk, v}
  BY CommitFields
<1>2. CommitState(s, v).view = c.view /\ CommitState(s, v).disk = c.disk
  BY <1>1 DEF CommitState, Store
<1> HIDE DEF c
<1>3. LowStore(c, h)
  BY <1>1 DEF LowStore
<1>4. QED
  BY <1>2, <1>3 DEF LowStore, c

\* So do the operations of TransactionManager and of the height cache.
LEMMA LowOperations ==
    ASSUME NEW h, NEW s \in Store, LowStore(s, h)
    PROVE  /\ LowStore(Flush(s), h) /\ LowStore(Rollback(s), h)
           /\ LowStore(Clear(TryAbortTransaction(s)), h)
           /\ \A n \in Nat \ {0} : LowStore(SetBatchSize(s, n), h)
           /\ LowStore(FillHeight(s), h)
<1>1. /\ Flush(s).view = s.view /\ Flush(s).disk \in {s.view, s.disk}
      /\ Rollback(s).view = s.disk /\ Rollback(s).disk = s.disk
      /\ FillHeight(s).view = s.view /\ FillHeight(s).disk = s.disk
  BY DEF Flush, Rollback, FillHeight, Store
<1>2. LowStore(Clear(TryAbortTransaction(s)), h)
  <2> DEFINE a == TryAbortTransaction(s)
  <2>1. a \in Store
    BY DEF TryAbortTransaction, Rollback, Store
  <2> HIDE DEF a
  <2>2. Clear(a).view = EmptyDatabase /\ Clear(a).disk = EmptyDatabase
    BY <2>1 DEF Clear, Store
  <2>3. Low(EmptyDatabase, h)
    BY DEF Low, HasState, EmptyDatabase
  <2>4. QED
    BY <2>2, <2>3 DEF LowStore, a
<1>3. ASSUME NEW n \in Nat \ {0} PROVE LowStore(SetBatchSize(s, n), h)
  <2> DEFINE t == [s EXCEPT !.batchSize = n]
  <2>1. t \in Store /\ t.view = s.view /\ t.disk = s.disk
    BY DEF Store
  <2>2. SetBatchSize(s, n) \in {t, Flush(t)}
    BY DEF SetBatchSize
  <2> HIDE DEF t
  <2>3. Flush(t).view = t.view /\ Flush(t).disk \in {t.view, t.disk}
    BY <2>1 DEF Flush, Store
  <2>4. QED
    BY <2>1, <2>2, <2>3 DEF LowStore
<1>4. QED
  BY <1>1, <1>2, <1>3 DEF LowStore

\* Pruning does not move the current block.
LEMMA LowPrune ==
    ASSUME NEW h, NEW s, GoodStore(s), LowStore(s, h), NEW q \in Queue
    PROVE  /\ LowStore(PruneIfTooLongStore(q, s), h)
           /\ \A b \in Seq(Labels) : LowStore(InitialPruneStore(q, b, s), h)
<1>1. s \in Store /\ s.view \in CorrectDatabase /\ s.view \in Database
  BY DEF GoodStore, Store, CorrectDatabase
<1>2. ASSUME NEW v \in CorrectDatabase, v.block = s.view.block
      PROVE  LowStore(Commit(s, v), h)
  <2>1. v \in Database /\ Low(v, h)
    BY <1>2 DEF CorrectDatabase, LowStore, Low, HasState
  <2>2. QED
    BY <1>1, <2>1, LowCommit
<1>3. LowStore(PruneIfTooLongStore(q, s), h)
  <2> DEFINE v == ReleaseUndoData(s.view, {q.hashes[i] : i \in 1..Excess(q)})
  <2>1. v \in CorrectDatabase /\ v.block = s.view.block
    BY <1>1, ReleaseCorrect
  <2>2. PruneIfTooLongStore(q, s) \in {s, Commit(s, v)}
    BY DEF PruneIfTooLongStore
  <2> HIDE DEF v
  <2>3. QED
    BY <1>2, <2>1, <2>2
<1>4. ASSUME NEW b \in Seq(Labels) PROVE LowStore(InitialPruneStore(q, b, s), h)
  <2> DEFINE v == PruneUndoData(s.view, FrontHeight(q, b) - 1)
  <2>1. FrontHeight(q, b) - 1 \in Int
    BY QueueTypes, LenProperties DEF FrontHeight
  <2>2. v \in CorrectDatabase /\ v.block = s.view.block
    BY <1>1, <2>1, PruneCorrect
  <2>3. InitialPruneStore(q, b, s) \in {s, Commit(s, v)}
    BY DEF InitialPruneStore
  <2> HIDE DEF v
  <2>4. QED
    BY <1>2, <2>2, <2>3
<1>5. QED
  BY <1>3, <1>4

\* Nor does anything else in the pruning queue, failures included.
LEMMA LowQueueOperations ==
    ASSUME NEW h, NEW s, GoodStore(s), LowStore(s, h), NEW q \in Queue,
           NEW b \in Seq(Labels), NEW n \in Nat
    PROVE  /\ LowStore(AttachBlockStore(q, b, s), h)
           /\ \A f \in AttachBlockFailures(q, b, s) : LowStore(f.store, h)
           /\ LowStore(SetDesiredSizeStore(q, n, s), h)
<1> DEFINE p == Push(q, b)
           s1 == InitialPruneStore(p, b, s)
           r == [q EXCEPT !.nBlocks = n]
<1>1. p \in Queue /\ InitialPrune(p) \in Queue /\ r \in Queue
  <2>1. r \in Queue
    BY DEF Queue
  <2> HIDE DEF r
  <2>2. QED
    BY <2>1, QueueTypes
<1>2. LowStore(s1, h) /\ GoodStore(s1) /\ s \in Store /\ s1 \in Store
  BY <1>1, LowPrune, InitialPruneGood DEF SameBlock, GoodStore
<1>3. LowStore(AttachBlockStore(q, b, s), h)
  BY <1>1, <1>2, LowPrune DEF AttachBlockStore
<1>4. ASSUME NEW f \in AttachBlockFailures(q, b, s) PROVE LowStore(f.store, h)
  <2>1. LowStore(Rollback(s), h) /\ LowStore(Rollback(s1), h)
    BY <1>2, LowOperations
  <2> HIDE DEF p, s1
  <2>2. f.store \in {Rollback(s), Rollback(s1)}
    BY <1>4 DEF AttachBlockFailures, p, s1
  <2>3. QED
    BY <2>1, <2>2
<1>5. LowStore(SetDesiredSizeStore(q, n, s), h)
  BY <1>1, LowPrune DEF SetDesiredSizeStore
<1>6. QED
  BY <1>3, <1>4, <1>5

\* Attaching a low block, detaching one, and storing the initial state.
LEMMA LowUpdates ==
    ASSUME IInv, StateChecks, NEW h \in Nat, LowStore(store, h),
           NEW b \in Seq(Labels) \ {<<>>}, Height(b) <= h
    PROVE  /\ LowStore(UpdateStateForAttach(b), h)
           /\ LowStore(UpdateStateForDetach(b), h)
<1>1. /\ GoodStore(store) /\ store \in Store /\ store.view \in Database
      /\ store.view.state \in Seq(Labels) /\ store.view.undo \in SUBSET UndoRow
  BY DEF IInv, GoodStore, Store, Database
<1>2. /\ Parent(b) \in Seq(Labels) /\ Len(Parent(b)) = Len(b) - 1
      /\ Len(b) \in Nat \ {0} /\ b[Len(b)] \in Labels
  BY ParentType
<1>3. LowStore(UpdateStateForAttach(b), h)
  <2> DEFINE old == store.view.state
             row == [block |-> b, height |-> Height(b), data |-> UndoFor(old, b)]
             rows == {r \in store.view.undo : r.block # b} \cup {row}
             w == AddUndoData(store.view, b, UndoFor(old, b))
             v == SetCurrentGameState(w, b, ProcessForward(old, b))
  <2>1. row \in UndoRow
    BY <1>1, <1>2 DEF UndoRow, UndoFor
  <2>2. w = [store.view EXCEPT !.undo = rows]
    BY <1>1 DEF AddUndoData, Database
  <2>3. rows \in SUBSET UndoRow
    BY <1>1, <2>1
  <2> HIDE DEF w, rows
  <2>4. w \in Database
    BY <1>1, <2>2, <2>3 DEF Database
  <2>5. ProcessForward(old, b) \in Seq(Labels)
    BY <1>1, <1>2 DEF ProcessForward
  <2>6. v \in Database /\ v.block = b
    BY <2>4, <2>5 DEF SetCurrentGameState, Database
  <2> HIDE DEF v
  <2>7. LowStore(CommitState(store, v), h)
    BY <1>1, <2>6, LowCommit DEF Low
  <2>8. UpdateStateForAttach(b) \in {store, CommitState(store, v)}
    BY DEF UpdateStateForAttach, AttachToState, v, w
  <2>9. QED
    BY <2>7, <2>8
<1>4. LowStore(UpdateStateForDetach(b), h)
  <2>1. CASE Following /\ IsCurrent(b) /\ UndoDataOf(store.view, b) # {}
    <3> DEFINE u == CHOOSE r \in UndoDataOf(store.view, b) : TRUE
               w == SetCurrentGameState(store.view, Parent(b),
                        ProcessBackwards(store.view.state, b, u.data))
               v == ReleaseUndoData(w, {b})
    <3>1. u \in UndoDataOf(store.view, b)
      BY <2>1
    <3>2. u.data \in Seq(Labels)
      BY <1>1, <3>1 DEF UndoDataOf, UndoRow
    <3>3. UpdateStateForDetach(b) = CommitState(store, v)
      BY <2>1 DEF UpdateStateForDetach, DetachFromState
    <3> HIDE DEF u
    <3>4. w \in Database /\ w.block = Parent(b)
      BY <1>1, <1>2, <3>2 DEF SetCurrentGameState, ProcessBackwards, Database
    <3> HIDE DEF w
    <3>5. v \in Database /\ v.block = Parent(b)
      BY <3>4 DEF ReleaseUndoData, Database
    <3> HIDE DEF v
    <3>6. Low(v, h)
      BY <1>2, <3>5 DEF Low
    <3>7. QED
      BY <1>1, <3>3, <3>5, <3>6, LowCommit
  <2>2. CASE ~(Following /\ IsCurrent(b) /\ UndoDataOf(store.view, b) # {})
    <3>1. UpdateStateForDetach(b) \in {store, Clear(TryAbortTransaction(store))}
      BY <2>2 DEF UpdateStateForDetach
    <3>2. QED
      BY <1>1, <3>1, LowOperations
  <2>3. QED
    BY <2>1, <2>2
<1>5. QED
  BY <1>3, <1>4

\* ReinitialiseState asks for updates only when it is not at the tip.
LEMMA LowReinitialise ==
    ASSUME NEW s, GoodStore(s), LowStore(s, Height(tip)), ReinitialiseState(s),
           tip \in Seq(Labels)
    PROVE  /\ LowStore(store', Height(tip))
           /\ rpc' = "sendupdates" => store'.view.block # tip
           /\ state' # "CATCHING_UP"
<1>1. ASSUME NEW z, GoodStore(z), LowStore(z, Height(tip)), SyncFromCurrentState(z)
      PROVE  /\ LowStore(store', Height(tip))
             /\ rpc' = "sendupdates" => store'.view.block # tip
             /\ state' # "CATCHING_UP"
  <2>1. z \in Store /\ 1 \in Nat \ {0}
    BY <1>1 DEF GoodStore
  <2>2. LowStore(SetBatchSize(z, 1), Height(tip))
    BY <1>1, <2>1, LowOperations
  <2>3. QED
    BY <1>1, <2>2 DEF SyncFromCurrentState
<1>2. CASE SyncFromCurrentState(s)
  BY <1>1, <1>2
<1>3. CASE state' = "PREGENESIS" /\ store' = s /\ rpc' = "none"
  BY <1>3
<1>4. CASE /\ Height(tip) >= Height(Genesis)
           /\ SyncFromCurrentState(StoreInitialState(s))
  <2> DEFINE c == Clear(TryAbortTransaction(s))
             v == SetCurrentGameState(c.view, Genesis, InitialState)
  <2>1. GoodStore(c) /\ c.view = EmptyDatabase
    BY AbortAndClearGood
  <2>2. LowStore(c, Height(tip))
    BY LowOperations DEF GoodStore
  <2> HIDE DEF c
  <2>3. c.view \in Database /\ c \in Store
    BY <2>1 DEF GoodStore, Store
  <2>4. v \in Database /\ v.block = Genesis
    BY <2>3, BlockchainAssumption DEF SetCurrentGameState, InitialState, StateOf, Database
  <2> HIDE DEF v
  <2>5. Low(v, Height(tip))
    BY <1>4, <2>4, BlockchainAssumption, LenProperties DEF Low
  <2>6. LowStore(CommitState(c, v), Height(tip))
    BY <2>2, <2>3, <2>4, <2>5, LowCommit
  <2>7. LowStore(StoreInitialState(s), Height(tip))
    BY <2>6 DEF StoreInitialState, c, v
  <2>8. QED
    BY <1>1, <1>4, <2>7, StoreInitialStateGood
<1>5. QED
  BY <1>2, <1>3, <1>4 DEF ReinitialiseState

\* Taking the first message keeps the witness, unless it is that message.
LEMMA TakeFirstBacked ==
    ASSUME NEW q \in Seq(Message), q # <<>>, NEW h, LowQueue(q, h)
    PROVE  /\ LowQueue(Tail(q), h) /\ Height(Head(q).block) <= h
           /\ \A t, b : Backed(q, t, b) =>
                \/ Backed(Tail(q), t, b)
                \/ Head(q).token = t /\ LeadsTo(Head(q), b)
<1>1. /\ Head(q) = q[1] /\ Len(q) \in Nat \ {0} /\ Len(Tail(q)) = Len(q) - 1
      /\ \A i \in 1..(Len(q) - 1) : Tail(q)[i] = q[i + 1]
  BY TailParts
<1>2. LowQueue(Tail(q), h)
  <2> SUFFICES ASSUME NEW i \in 1..Len(Tail(q)) PROVE Len(Tail(q)[i].block) <= h
    BY DEF LowQueue
  <2>1. i + 1 \in 1..Len(q) /\ Tail(q)[i] = q[i + 1]
    BY <1>1
  <2>2. QED
    BY <2>1 DEF LowQueue
<1>3. Len(Head(q).block) <= h
  <2>1. 1 \in 1..Len(q)
    BY <1>1
  <2>2. QED
    BY <1>1, <2>1 DEF LowQueue
<1>4. QED
  BY <1>2, <1>3, HeadOrTail DEF Backed

\* What the daemon sends between two blocks is no higher than the higher one,
\* and the last message leads to its end.
LEMMA SentBacked ==
    ASSUME NEW q \in Seq(Message), NEW a \in Seq(Labels), NEW b \in Seq(Labels),
           NEW t \in Nat, LowQueue(q, Height(b)), Height(a) <= Height(b)
    PROVE  LET r == q \o WithToken(Updates(a, b), t)
           IN  /\ LowQueue(r, Height(b))
               /\ a # b => Backed(r, t, b)
               /\ \A k, c : Backed(q, k, c) => Backed(r, k, c)
<1> DEFINE u == Updates(a, b)
           r == q \o WithToken(u, t)
<1>1. Sent(q, u, t, r)
  BY SentParts
<1>2. a # b => Len(u) \in Nat \ {0} /\ LeadsTo(u[Len(u)], b)
  BY LastUpdate
<1>3. \A i \in 1..Len(u) : Len(u[i].block) <= Len(b)
  <2> SUFFICES ASSUME NEW i \in 1..Len(u) PROVE Len(u[i].block) <= Len(b)
    OBVIOUS
  <2>1. u \in Seq(Step) /\ Len(a) \in Nat /\ Len(b) \in Nat
    BY UpdatesType, LenProperties
  <2>2. Len(u[i].block) <= Len(a) \/ Len(u[i].block) <= Len(b)
    BY UpdatesLow
  <2> HIDE DEF u
  <2>3. u[i] \in Step
    BY <2>1, ElementOfSeq
  <2>4. u[i].block \in Seq(Labels)
    BY <2>3 DEF Step
  <2>5. Len(u[i].block) \in Nat
    BY <2>4, LenProperties
  <2>6. QED
    BY <2>1, <2>2, <2>5
<1> HIDE DEF u, r
<1>4. LowQueue(r, Height(b))
  <2> SUFFICES ASSUME NEW i \in 1..Len(r) PROVE Len(r[i].block) <= Len(b)
    BY DEF LowQueue
  <2>1. CASE i <= Len(q)
    <3>1. i \in 1..Len(q) /\ r[i] = q[i]
      BY <1>1, <2>1 DEF Sent
    <3>2. QED
      BY <3>1 DEF LowQueue
  <2>2. CASE ~(i <= Len(q))
    <3> DEFINE k == i - Len(q)
    <3>1. k \in 1..Len(u) /\ Len(q) + k = i
      BY <1>1, <2>2 DEF Sent
    <3> HIDE DEF k
    <3>2. r[i] = [type |-> u[k].type, block |-> u[k].block, token |-> t]
      BY <1>1, <3>1, Zenon DEF Sent
    <3>3. QED
      BY <1>3, <3>1, <3>2
  <2>3. QED
    BY <2>1, <2>2
<1>5. ASSUME a # b PROVE Backed(r, t, b)
  <2> DEFINE k == Len(q) + Len(u)
  <2>1. Len(u) \in 1..Len(u) /\ k \in 1..Len(r)
    BY <1>1, <1>2, <1>5 DEF Sent
  <2>2. r[k] = [type |-> u[Len(u)].type, block |-> u[Len(u)].block, token |-> t]
    BY <1>1, <2>1, Zenon DEF Sent
  <2> HIDE DEF k
  <2>3. r[k].token = t /\ LeadsTo(r[k], b)
    BY <1>2, <1>5, <2>2 DEF LeadsTo
  <2>4. QED
    BY <2>1, <2>3 DEF Backed
<1>6. ASSUME NEW k, NEW c, Backed(q, k, c) PROVE Backed(r, k, c)
  <2>1. PICK i \in 1..Len(q) : q[i].token = k /\ LeadsTo(q[i], c)
    BY <1>6 DEF Backed
  <2>2. i \in 1..Len(r) /\ r[i] = q[i]
    BY <1>1 DEF Sent
  <2>3. QED
    BY <2>1, <2>2 DEF Backed
<1>7. QED
  BY <1>4, <1>5, <1>6 DEF r, u

\* A step of the daemon, to a higher block.
LEMMA DaemonMoveBacked ==
    ASSUME ~AllowInvalidate, IInv, CatchInv, NEW b \in Blocks, DaemonMove(b)
    PROVE  CatchInv'
<1>1. tip \in Seq(Labels) /\ queue \in Seq(Message) /\ b \in Seq(Labels)
  <2>1. PICK h \in 0..MaxHeight : b \in [1..h -> Labels]
    BY DEF Blocks
  <2>2. QED
    BY <2>1, BlockchainAssumption, IsASeq DEF IInv, TypeOK
<1>2. /\ Len(b) > Len(tip) /\ tip' = b
      /\ queue' = IF phase = "stopped" THEN queue
                  ELSE queue \o WithToken(Updates(tip, b), NoToken)
      /\ UNCHANGED <<link, rpc, state, reqToken, target, store>>
  BY DEF DaemonMove, syncVars
<1>3. Len(tip) \in Nat /\ Len(b) \in Nat /\ Len(tip) <= Len(b)
  BY <1>1, <1>2, LenProperties
<1>4. \A db \in Database : Low(db, Len(tip)) => Low(db, Len(b)) /\ db.block # b
  <2> SUFFICES ASSUME NEW db \in Database, Low(db, Len(tip))
               PROVE  Low(db, Len(b)) /\ db.block # b
    OBVIOUS
  <2>1. HasState(db) => Len(db.block) \in Nat /\ Len(db.block) <= Len(tip)
    BY LenProperties DEF Low, Database, HasState
  <2>2. b # NoBlock
    BY <1>1, BlockchainAssumption
  <2>3. QED
    BY <1>2, <1>3, <2>1, <2>2 DEF Low, HasState
<1>5. LowStore(store, Len(b)) /\ store.view.block # b
  BY <1>4 DEF IInv, GoodStore, Store, CatchInv, LowStore
<1>6. LowQueue(queue, Len(b))
  <2> SUFFICES ASSUME NEW i \in 1..Len(queue) PROVE Len(queue[i].block) <= Len(b)
    BY DEF LowQueue
  <2>1. queue[i] \in Message
    BY <1>1, ElementOfSeq
  <2>2. queue[i].block \in Seq(Labels)
    BY <2>1 DEF Message
  <2>3. Len(queue[i].block) \in Nat /\ Len(queue[i].block) <= Len(tip)
    BY <2>2, LenProperties DEF CatchInv, LowQueue
  <2>4. QED
    BY <1>3, <2>3
<1>7. LowQueue(queue', Len(b)) /\ \A k, c : Backed(queue, k, c) => Backed(queue', k, c)
  <2>1. CASE phase = "stopped"
    BY <1>2, <1>6, <2>1
  <2>2. CASE phase # "stopped"
    <3>1. NoToken \in Nat
      BY DEF NoToken
    <3>2. QED
      BY <1>1, <1>2, <1>3, <1>6, <2>2, <3>1, SentBacked
  <2>3. QED
    BY <2>1, <2>2
<1>8. Missing' <=> Missing
  BY <1>2 DEF Missing
<1>9. state' = "CATCHING_UP" /\ ~Missing' => Backed(queue', reqToken', target')
  BY <1>2, <1>7, <1>8 DEF CatchInv
<1>10. QED
  BY <1>2, <1>5, <1>7, <1>9 DEF CatchInv

\* What every handler starts from.
LEMMA ReceiveBacked ==
    ASSUME IInv, CatchInv, NEW type \in Topics, Receive(type)
    PROVE  /\ tip \in Seq(Labels) /\ Len(tip) \in Nat /\ tip' = tip
           /\ LowStore(store, Len(tip)) /\ LowQueue(queue', Len(tip))
           /\ Head(queue) \in Message /\ Head(queue).type = type
           /\ Head(queue).block \in Seq(Labels) \ {<<>>}
           /\ Len(Head(queue).block) <= Len(tip)
           /\ rpc = "none" /\ reqToken' = reqToken
           /\ \A t, b : Backed(queue, t, b) =>
                \/ Backed(queue', t, b)
                \/ Head(queue).token = t /\ LeadsTo(Head(queue), b)
<1>1. /\ queue \in Seq(Message) /\ queue # <<>> /\ queue' = Tail(queue)
      /\ tip \in Seq(Labels) /\ tip' = tip /\ reqToken' = reqToken
      /\ Head(queue).type = type /\ rpc = "none"
      /\ LowStore(store, Len(tip)) /\ LowQueue(queue, Len(tip))
  BY DEF IInv, TypeOK, Receive, Unlocked, CatchInv
<1>2. Head(queue) \in Message
  BY <1>1
<1>3. /\ LowQueue(Tail(queue), Len(tip)) /\ Len(Head(queue).block) <= Len(tip)
      /\ \A t, b : Backed(queue, t, b) =>
            \/ Backed(Tail(queue), t, b)
            \/ Head(queue).token = t /\ LeadsTo(Head(queue), b)
  BY <1>1, TakeFirstBacked
<1>4. Head(queue).block \in Seq(Labels) \ {<<>>} /\ Len(tip) \in Nat
  BY <1>1, <1>2, LenProperties DEF Message
<1>5. QED
  BY <1>1, <1>2, <1>3, <1>4

\* A handler that starts over from a good and low store.
LEMMA BackedAfterReinit ==
    ASSUME NEW s, GoodStore(s), LowStore(s, Len(tip)), ReinitialiseState(s),
           tip \in Seq(Labels), tip' = tip, LowQueue(queue', Len(tip))
    PROVE  CatchInv'
  BY LowReinitialise DEF CatchInv

\* A message taken without starting over: it was not the awaited one.
LEMMA BackedAfterMessage ==
    ASSUME IInv, CatchInv, NEW type \in Topics, Receive(type), ~SeqMismatch(type),
           LowStore(store', Len(tip)), UNCHANGED <<state, target, rpc>>,
           state = "CATCHING_UP" =>
                ~(Head(queue).token = reqToken /\ LeadsTo(Head(queue), target))
    PROVE  CatchInv'
<1>1. /\ tip' = tip /\ LowQueue(queue', Len(tip)) /\ rpc = "none"
      /\ reqToken' = reqToken
      /\ Backed(queue, reqToken, target) =>
            \/ Backed(queue', reqToken, target)
            \/ Head(queue).token = reqToken /\ LeadsTo(Head(queue), target)
  BY ReceiveBacked
<1>2. ~Missing' => ~Missing
  <2>1. link \in [Topics -> LinkState] /\ link[type] = "ok"
    BY DEF IInv, TypeOK, SeqMismatch
  <2>2. link' = [t \in Topics |-> IF t = type THEN "ok"
                                 ELSE IF link[t] = "lost" THEN "stale" ELSE link[t]]
    BY DEF Receive
  <2>3. QED
    BY <2>1, <2>2 DEF Missing
<1>3. state' = "CATCHING_UP" /\ ~Missing' => Backed(queue', reqToken', target')
  BY <1>1, <1>2 DEF CatchInv
<1>4. QED
  BY <1>1, <1>3 DEF CatchInv

\* BlockAttach starts over when it reaches the target.
LEMMA BlockAttachBacked ==
    ASSUME IInv, CatchInv, BlockAttach
    PROVE  CatchInv'
<1> DEFINE b == Head(queue).block
           s == UpdateStateForAttach(b)
           t == IF pruning = NoPruning THEN s ELSE AttachBlockStore(pruning, b, s)
<1>1. /\ "attach" \in Topics /\ Receive("attach") /\ ~SeqMismatch("attach")
      /\ StateChecks /\ Finish(AttachNeedsReinit(b), t)
  BY DEF BlockAttach, Topics
<1>2. /\ tip \in Seq(Labels) /\ Len(tip) \in Nat /\ tip' = tip
      /\ LowStore(store, Len(tip)) /\ LowQueue(queue', Len(tip))
      /\ Head(queue).type = "attach"
      /\ b \in Seq(Labels) \ {<<>>} /\ Len(b) <= Len(tip)
  BY <1>1, ReceiveBacked
<1>3. LeadsTo(Head(queue), target) => b = target
  BY <1>2 DEF LeadsTo
<1> HIDE DEF b
<1>4. GoodStore(s) /\ LowStore(s, Len(tip))
  BY <1>1, <1>2, UpdateForAttachGood, LowUpdates
<1> HIDE DEF s
<1>5. GoodStore(t) /\ LowStore(t, Len(tip))
  <2>1. CASE pruning = NoPruning
    BY <1>4, <2>1
  <2>2. CASE pruning # NoPruning
    <3>1. pruning \in Queue /\ 0 \in Nat /\ b \in Seq(Labels)
      BY <1>2, <2>2 DEF IInv, TypeOK
    <3>2. GoodStore(AttachBlockStore(pruning, b, s))
      BY <1>4, <3>1, AttachBlockGood DEF SameBlock
    <3>3. LowStore(AttachBlockStore(pruning, b, s), Len(tip))
      BY <1>4, <3>1, LowQueueOperations
    <3>4. QED
      BY <2>2, <3>2, <3>3
  <2>3. QED
    BY <2>1, <2>2
<1> HIDE DEF t
<1>6. CASE AttachNeedsReinit(b)
  BY <1>1, <1>2, <1>5, <1>6, BackedAfterReinit DEF Finish
<1>7. CASE ~AttachNeedsReinit(b)
  <2>1. store' = t /\ UNCHANGED <<state, target, rpc>>
    BY <1>1, <1>7 DEF Finish
  <2>2. state = "CATCHING_UP" => ~LeadsTo(Head(queue), target)
    BY <1>3, <1>7 DEF AttachNeedsReinit
  <2>3. QED
    BY <1>1, <1>5, <2>1, <2>2, BackedAfterMessage
<1>8. QED
  BY <1>6, <1>7

\* So does BlockDetach.
LEMMA BlockDetachBacked ==
    ASSUME IInv, CatchInv, BlockDetach
    PROVE  CatchInv'
<1> DEFINE b == Head(queue).block
           s == UpdateStateForDetach(b)
<1>1. /\ "detach" \in Topics /\ Receive("detach") /\ ~SeqMismatch("detach")
      /\ StateChecks /\ Finish(DetachNeedsReinit(b), s)
  BY DEF BlockDetach, Topics
<1>2. /\ tip \in Seq(Labels) /\ Len(tip) \in Nat /\ tip' = tip
      /\ LowStore(store, Len(tip)) /\ LowQueue(queue', Len(tip))
      /\ Head(queue).type = "detach"
      /\ b \in Seq(Labels) \ {<<>>} /\ Len(b) <= Len(tip)
  BY <1>1, ReceiveBacked
<1>3. LeadsTo(Head(queue), target) => Parent(b) = target
  BY <1>2 DEF LeadsTo
<1> HIDE DEF b
<1>4. GoodStore(s) /\ LowStore(s, Len(tip))
  BY <1>1, <1>2, UpdateForDetachGood, LowUpdates
<1> HIDE DEF s
<1>5. CASE DetachNeedsReinit(b)
  BY <1>1, <1>2, <1>4, <1>5, BackedAfterReinit DEF Finish
<1>6. CASE ~DetachNeedsReinit(b)
  <2>1. store' = s /\ UNCHANGED <<state, target, rpc>>
    BY <1>1, <1>6 DEF Finish
  <2>2. state = "CATCHING_UP" => ~LeadsTo(Head(queue), target)
    BY <1>3, <1>6 DEF DetachNeedsReinit
  <2>3. QED
    BY <1>1, <1>4, <2>1, <2>2, BackedAfterMessage
<1>7. QED
  BY <1>5, <1>6

\* A handler whose transaction fails starts over from what is left.
LEMMA RetriesBacked ==
    ASSUME IInv, CatchInv, BlockAttachRetry \/ BlockDetachRetry
    PROVE  CatchInv'
<1> DEFINE b == Head(queue).block
<1>1. \E type \in Topics : Receive(type)
  BY DEF BlockAttachRetry, BlockDetachRetry, Topics
<1>2. /\ tip \in Seq(Labels) /\ Len(tip) \in Nat /\ tip' = tip
      /\ LowStore(store, Len(tip)) /\ LowQueue(queue', Len(tip))
      /\ b \in Seq(Labels) \ {<<>>} /\ Len(b) <= Len(tip)
  BY <1>1, ReceiveBacked
<1>3. store \in Store /\ GoodStore(store) /\ pruning \in Queue \cup {NoPruning}
  BY DEF IInv, TypeOK, GoodStore
<1>4. LowStore(Rollback(store), Len(tip)) /\ GoodStore(Rollback(store))
  BY <1>2, <1>3, LowOperations, RollbackGood
<1>5. \E s : GoodStore(s) /\ LowStore(s, Len(tip)) /\ ReinitialiseState(s)
  <2>1. CASE BlockAttachRetry
    <3>1. StateChecks /\ \E f \in AttachFailures(b) : ReinitialiseState(f.store)
      BY <2>1 DEF BlockAttachRetry
    <3> HIDE DEF b
    <3>2. PICK f \in AttachFailures(b) : ReinitialiseState(f.store)
      BY <3>1
    <3>3. GoodStore(f.store)
      BY <1>2, <3>1, AttachFailuresGood
    <3>4. LowStore(f.store, Len(tip))
      <4> DEFINE s == UpdateStateForAttach(b)
      <4>1. GoodStore(s) /\ LowStore(s, Len(tip))
        BY <1>2, <3>1, UpdateForAttachGood, LowUpdates
      <4>2. \/ f = [queue |-> pruning, store |-> Rollback(store)]
            \/ pruning # NoPruning /\ f \in AttachBlockFailures(pruning, b, s)
        BY DEF AttachFailures
      <4> HIDE DEF s
      <4>3. CASE f = [queue |-> pruning, store |-> Rollback(store)]
        BY <1>4, <4>3
      <4>4. CASE pruning # NoPruning /\ f \in AttachBlockFailures(pruning, b, s)
        <5>1. pruning \in Queue /\ 0 \in Nat /\ b \in Seq(Labels)
          BY <1>2, <1>3, <4>4
        <5>2. QED
          BY <4>1, <4>4, <5>1, LowQueueOperations
      <4>5. QED
        BY <4>2, <4>3, <4>4
    <3>5. QED
      BY <3>2, <3>3, <3>4
  <2>2. CASE BlockDetachRetry
    BY <1>4, <2>2 DEF BlockDetachRetry
  <2>3. QED
    BY <2>1, <2>2
<1>6. QED
  BY <1>2, <1>5, BackedAfterReinit

\* The answer to game_sendupdates leads from the current block to the target.
LEMMA SendUpdatesBacked ==
    ASSUME IInv, CatchInv, SendUpdates
    PROVE  CatchInv'
<1> DEFINE t == IF queue = <<>> THEN 1 ELSE lastToken + 1
           a == store.view.block
<1>1. /\ tip \in Seq(Labels) /\ queue \in Seq(Message) /\ t \in Nat
      /\ store \in Store /\ HasState(store.view)
      /\ LowStore(store, Len(tip)) /\ LowQueue(queue, Len(tip)) /\ a # tip
  BY DEF IInv, TypeOK, SyncInv, SendUpdates, CatchInv
<1>2. /\ queue' = queue \o WithToken(Updates(a, tip), t)
      /\ reqToken' = t /\ target' = tip /\ tip' = tip /\ rpc' = "none"
      /\ store' = SetBatchSize(store, BatchSize)
  BY DEF SendUpdates
<1>3. a \in Seq(Labels) /\ Len(a) <= Len(tip)
  BY <1>1 DEF Store, Database, HasState, LowStore, Low
<1> HIDE DEF t, a
<1>4. LowQueue(queue', Len(tip)) /\ Backed(queue', t, tip)
  BY <1>1, <1>2, <1>3, SentBacked
<1>5. LowStore(store', Len(tip))
  BY <1>1, <1>2, LowOperations, GameAssumption
<1>6. QED
  BY <1>2, <1>4, <1>5 DEF CatchInv

\* Steps that leave the channel and the sync state alone.
LEMMA OtherUsersBacked ==
    ASSUME IInv, CatchInv, LowStore(store', Len(tip)),
           store'.view.block = store.view.block,
           UNCHANGED <<tip, queue, link, state, target, reqToken, rpc>>
    PROVE  CatchInv'
<1>1. Missing' <=> Missing
  BY DEF Missing
<1>2. QED
  BY <1>1 DEF CatchInv

\* The end of the process leaves a low database and an empty channel.
LEMMA TerminatedBacked ==
    ASSUME NEW db, Low(db, Len(tip)), Terminated(db)
    PROVE  CatchInv'
<1>1. /\ store' = NewStore(db) /\ queue' = <<>> /\ state' = "UNKNOWN"
      /\ rpc' = "none" /\ tip' = tip
  BY DEF Terminated
<1>2. LowStore(NewStore(db), Len(tip)) /\ LowQueue(<<>>, Len(tip))
  BY DEF NewStore, LowStore, LowQueue
<1>3. QED
  BY <1>1, <1>2 DEF CatchInv

\* A crash inside BlockAttach leaves a low database.
LEMMA CrashInPruningBacked ==
    ASSUME IInv, CatchInv, CrashInPruning
    PROVE  CatchInv'
<1> DEFINE b == Head(queue).block
           s == UpdateStateForAttach(b)
           p == InitialPruneStore(Push(pruning, b), b, s)
<1>1. /\ queue \in Seq(Message) /\ queue # <<>> /\ pruning \in Queue
      /\ tip \in Seq(Labels) /\ LowStore(store, Len(tip)) /\ LowQueue(queue, Len(tip))
  BY DEF CrashInPruning, IInv, TypeOK, CatchInv
<1>2. Head(queue) \in Message /\ Len(tip) \in Nat
  BY <1>1, LenProperties
<1>3. b \in Seq(Labels) \ {<<>>} /\ Len(b) <= Len(tip)
  BY <1>1, <1>2, TakeFirstBacked DEF Message
<1>4. StateChecks /\ (Terminated(s.disk) \/ Terminated(p.disk))
  BY DEF CrashInPruning
<1> HIDE DEF b
<1>5. GoodStore(s) /\ LowStore(s, Len(tip))
  BY <1>1, <1>2, <1>3, <1>4, UpdateForAttachGood, LowUpdates
<1> HIDE DEF s
<1>6. LowStore(p, Len(tip))
  <2>1. Push(pruning, b) \in Queue
    BY <1>1, <1>3, QueueTypes
  <2>2. QED
    BY <1>3, <1>5, <2>1, LowPrune
<1> HIDE DEF p
<1>7. QED
  BY <1>4, <1>5, <1>6, TerminatedBacked DEF LowStore

\* CatchInv is inductive relative to IInv when no block is invalidated.
LEMMA NextBacked ==
    ASSUME ~AllowInvalidate, IInv, CatchInv, [Next]_vars
    PROVE  CatchInv'
<1>1. /\ tip \in Seq(Labels) /\ store \in Store /\ GoodStore(store)
      /\ LowStore(store, Len(tip)) /\ LowQueue(queue, Len(tip))
  BY DEF IInv, TypeOK, GoodStore, CatchInv
<1>2. ASSUME NEW b \in Blocks, DaemonMove(b) PROVE CatchInv'
  BY <1>2, DaemonMoveBacked
<1>3. CASE Lose
  <2>1. /\ queue \in Seq(Message) /\ queue # <<>> /\ queue' = Tail(queue)
        /\ link \in [Topics -> LinkState]
        /\ link' = [link EXCEPT ![Head(queue).type] = "lost"]
        /\ UNCHANGED <<tip, store, rpc>>
    BY <1>3 DEF Lose, syncVars, IInv, TypeOK
  <2>2. Head(queue) \in Message
    BY <2>1
  <2>3. Missing'
    BY <2>1, <2>2 DEF Message, Missing
  <2>4. LowQueue(queue', Len(tip))
    BY <1>1, <2>1, TakeFirstBacked
  <2>5. QED
    BY <1>1, <2>1, <2>3, <2>4 DEF CatchInv
<1>4. ASSUME NEW type \in Topics, MissedNotifications(type) PROVE CatchInv'
  <2>1. Receive(type) /\ ReinitialiseState(store)
    BY <1>4 DEF MissedNotifications
  <2>2. tip' = tip /\ LowQueue(queue', Len(tip))
    BY <2>1, ReceiveBacked
  <2>3. QED
    BY <1>1, <2>1, <2>2, BackedAfterReinit
<1>5. ASSUME NEW type \in Topics, IgnoreNotification(type) PROVE CatchInv'
  <2>1. /\ Receive(type) /\ ~SeqMismatch(type) /\ ~IsReqtokenRelevant(Head(queue))
        /\ UNCHANGED <<state, target, rpc, store>>
    BY <1>5 DEF IgnoreNotification
  <2>2. state = "CATCHING_UP" => Head(queue).token # reqToken
    BY <2>1 DEF IsReqtokenRelevant
  <2>3. QED
    BY <1>1, <2>1, <2>2, BackedAfterMessage
<1>6. CASE BlockAttach \/ BlockDetach \/ BlockAttachRetry \/ BlockDetachRetry
  BY <1>6, BlockAttachBacked, BlockDetachBacked, RetriesBacked
<1>7. CASE SendUpdates
  BY <1>7, SendUpdatesBacked
<1>8. ASSUME NEW m \in Moves, PendingMove(m) PROVE CatchInv'
  BY <1>1, <1>8, OtherUsersBacked DEF PendingMove, daemonVars, syncVars
<1>9. CASE GetCustomStateData
  <2>1. store'.view = store.view /\ LowStore(store', Len(tip))
    BY <1>1, <1>9, FillHeightGood, LowOperations DEF GetCustomStateData
  <2>2. QED
    BY <1>9, <2>1, OtherUsersBacked DEF GetCustomStateData, daemonVars, syncVars
<1>10. ASSUME NEW n \in PruneSizes, EnablePruning(n) PROVE CatchInv'
  <2>1. n \in Nat /\ pruning \in Queue \cup {NoPruning}
    BY GameAssumption DEF IInv, TypeOK
  <2>2. UNCHANGED <<tip, queue, link, state, target, reqToken, rpc>>
    BY <1>10 DEF EnablePruning, daemonVars, syncVars
  <2>3. CASE pruning = NoPruning
    BY <1>1, <1>10, <2>2, <2>3, OtherUsersBacked DEF EnablePruning
  <2>4. CASE pruning # NoPruning
    <3>1. pruning \in Queue /\ store' = SetDesiredSizeStore(pruning, n, store)
      BY <1>10, <2>1, <2>4 DEF EnablePruning
    <3>2. store'.view.block = store.view.block
      BY <1>1, <2>1, <3>1, SetDesiredSizeGood DEF SameBlock
    <3>3. LowStore(store', Len(tip))
      BY <1>1, <2>1, <3>1, LowQueueOperations
    <3>4. QED
      BY <2>2, <3>2, <3>3, OtherUsersBacked
  <2>5. QED
    BY <2>3, <2>4
<1>11. CASE Start
  <2>1. state' = "UNKNOWN" /\ UNCHANGED <<tip, queue, store, rpc>>
    BY <1>11 DEF Start, IInv, SyncInv
  <2>2. QED
    BY <1>1, <2>1 DEF CatchInv
<1>12. CASE StartReinitialise
  <2>1. ReinitialiseState(store) /\ tip' = tip /\ queue' = queue
    BY <1>12 DEF StartReinitialise, daemonVars
  <2>2. QED
    BY <1>1, <2>1, BackedAfterReinit
<1>13. CASE Stop \/ Crash
  <2>1. LowStore(Flush(store), Len(tip))
    BY <1>1, LowOperations
  <2>2. QED
    BY <1>1, <1>13, <2>1, TerminatedBacked DEF Stop, Crash, LowStore
<1>14. CASE CrashInPruning
  BY <1>14, CrashInPruningBacked
<1>15. CASE UNCHANGED vars
  BY <1>1, <1>15, OtherUsersBacked DEF vars, daemonVars, syncVars
<1>16. QED
  BY <1>2, <1>3, <1>4, <1>5, <1>6, <1>7, <1>8, <1>9, <1>10, <1>11, <1>12, <1>13,
     <1>14, <1>15 DEF Next, Notification

\* CatchInv holds initially.
LEMMA InitBacked ==
    ASSUME Init
    PROVE  CatchInv
<1>1. LowStore(store, Len(tip)) /\ LowQueue(queue, Len(tip))
  BY DEF Init, NewStore, EmptyDatabase, LowStore, Low, HasState, LowQueue
<1>2. QED
  BY <1>1 DEF Init, CatchInv

\* While Game is CATCHING_UP and nothing was lost, the answer to its last
\* game_sendupdates is still on its way and ends at targetBlockHash, as long
\* as the daemon only moves to higher blocks: then SyncFromCurrentState cannot
\* ask for updates that turn out to be none.
THEOREM CatchUpTheorem ==
    ASSUME ~AllowInvalidate
    PROVE  Spec => []CatchUpBacked
<1>1. Init => CatchInv
  BY InitBacked
<1>2. IInv /\ CatchInv /\ [Next]_vars => CatchInv'
  BY NextBacked
<1>3. CatchInv => CatchUpBacked
  BY DEF CatchInv, CatchUpBacked, Backed, LeadsTo
<1>4. QED
  BY <1>1, <1>2, <1>3, InvariantTheorem, PTL DEF Spec

-----------------------------------------------------------------------------
(***************************************************************************)
(* Pruning, for a daemon that only moves to higher blocks.  What is on the *)
(* channel is a walk from block to block; as long as nothing was lost and  *)
(* no transaction failed, Game walks along, and the hashes in the pruning  *)
(* queue are at least as deep below the current block as they are far from *)
(* the queue's end.                                                        *)
(***************************************************************************)
USE DEF Height

\* W gives the block before the first message of q and after each of them,
\* for who only listens to the messages with token t.
WalkStep(m, t, w, x) ==
    IF m.token = t THEN w = StepFrom(m) /\ x = StepTo(m) ELSE x = w

Walk(q, t, W) ==
    /\ W \in [0..Len(q) -> Seq(Labels)]
    /\ \A i \in 1..Len(q) : WalkStep(q[i], t, W[i - 1], W[i])

\* The walk of the ordinary notifications ends at the daemon's tip b and comes
\* by it only there.
UpTo(w, b) == w = b \/ Height(w) < Height(b)

RouteStep(m, w, x, b) ==
    /\ Ordinary(m) => Height(w) < Height(b)
    /\ m.type = "detach" => Height(m.block) > Height(Genesis)
    /\ m.type = "attach" /\ ~Ordinary(m) => x = b \/ Height(m.block) < Height(b)

Route(q, b, W) ==
    /\ Walk(q, NoToken, W) /\ W[Len(q)] = b
    /\ \A i \in 0..Len(q) : NearGenesis(W[i]) /\ UpTo(W[i], b)
    /\ \A i \in 1..Len(q) : RouteStep(q[i], W[i - 1], W[i], b)

\* The walk after the first message.
Onward(W, q) == [i \in 0..(Len(q) - 1) |-> W[i + 1]]

\* Taking the first message is the first step of a walk.
LEMMA WalkTail ==
    ASSUME NEW q \in Seq(Message), q # <<>>, NEW t, NEW W, Walk(q, t, W)
    PROVE  /\ Walk(Tail(q), t, Onward(W, q))
           /\ WalkStep(Head(q), t, W[0], W[1])
           /\ Onward(W, q)[0] = W[1]
           /\ W[0] \in Seq(Labels) /\ W[1] \in Seq(Labels)
<1> DEFINE V == Onward(W, q)
<1>1. /\ Head(q) = q[1] /\ Len(q) \in Nat \ {0} /\ Len(Tail(q)) = Len(q) - 1
      /\ \A i \in 1..(Len(q) - 1) : Tail(q)[i] = q[i + 1]
  BY TailParts
<1>2. \A i \in 0..(Len(q) - 1) : V[i] = W[i + 1] /\ i + 1 \in 0..Len(q)
  BY <1>1 DEF Onward
<1>3. W \in [0..Len(q) -> Seq(Labels)] /\ 0 \in 0..Len(q) /\ 1 \in 0..Len(q)
      /\ 1 \in 1..Len(q) /\ 1 - 1 = 0 /\ 0 \in 0..(Len(q) - 1) /\ 0 + 1 = 1
  BY <1>1 DEF Walk
<1>4. V \in [0..Len(Tail(q)) -> Seq(Labels)]
  <2>1. \A i \in 0..(Len(q) - 1) : W[i + 1] \in Seq(Labels)
    BY <1>1, <1>3
  <2>2. QED
    BY <1>1, <2>1 DEF Onward
<1>5. ASSUME NEW i \in 1..Len(Tail(q)) PROVE WalkStep(Tail(q)[i], t, V[i - 1], V[i])
  <2>1. /\ i + 1 \in 1..Len(q) /\ i \in 1..(Len(q) - 1) /\ (i + 1) - 1 = i
        /\ i \in 0..(Len(q) - 1) /\ i - 1 \in 0..(Len(q) - 1) /\ (i - 1) + 1 = i
    BY <1>1
  <2>2. WalkStep(q[i + 1], t, W[(i + 1) - 1], W[i + 1])
    BY <2>1 DEF Walk
  <2>3. V[i] = W[i + 1] /\ V[i - 1] = W[(i - 1) + 1] /\ Tail(q)[i] = q[i + 1]
    BY <1>1, <1>2, <2>1
  <2>4. QED
    BY <2>1, <2>2, <2>3
<1>6. WalkStep(q[1], t, W[1 - 1], W[1])
  BY <1>3 DEF Walk
<1>7. V[0] = W[1]
  BY <1>2, <1>3
<1> HIDE DEF V
<1>8. QED
  BY <1>1, <1>3, <1>4, <1>5, <1>6, <1>7 DEF Walk, V

\* So it is for the daemon's route.
LEMMA RouteTail ==
    ASSUME NEW q \in Seq(Message), q # <<>>, NEW b, NEW W, Route(q, b, W)
    PROVE  /\ Route(Tail(q), b, Onward(W, q))
           /\ WalkStep(Head(q), NoToken, W[0], W[1])
           /\ RouteStep(Head(q), W[0], W[1], b)
           /\ Onward(W, q)[0] = W[1]
           /\ W[0] \in Seq(Labels) /\ W[1] \in Seq(Labels)
           /\ NearGenesis(W[0]) /\ UpTo(W[0], b)
           /\ NearGenesis(W[1]) /\ UpTo(W[1], b)
<1> DEFINE V == Onward(W, q)
<1>1. /\ Head(q) = q[1] /\ Len(q) \in Nat \ {0} /\ Len(Tail(q)) = Len(q) - 1
      /\ \A i \in 1..(Len(q) - 1) : Tail(q)[i] = q[i + 1]
  BY TailParts
<1>2. /\ Walk(Tail(q), NoToken, V)
      /\ WalkStep(Head(q), NoToken, W[0], W[1])
      /\ V[0] = W[1] /\ W[0] \in Seq(Labels) /\ W[1] \in Seq(Labels)
  BY WalkTail DEF Route
<1>3. \A i \in 0..(Len(q) - 1) : V[i] = W[i + 1] /\ i + 1 \in 0..Len(q)
  BY <1>1 DEF Onward
<1> HIDE DEF V
<1>4. V[Len(Tail(q))] = b
  <2>1. Len(q) - 1 \in 0..(Len(q) - 1) /\ (Len(q) - 1) + 1 = Len(q)
    BY <1>1
  <2>2. QED
    BY <1>1, <1>3, <2>1 DEF Route
<1>5. ASSUME NEW i \in 0..Len(Tail(q)) PROVE NearGenesis(V[i]) /\ UpTo(V[i], b)
  BY <1>1, <1>3 DEF Route
<1>6. ASSUME NEW i \in 1..Len(Tail(q)) PROVE RouteStep(Tail(q)[i], V[i - 1], V[i], b)
  <2>1. /\ i + 1 \in 1..Len(q) /\ i \in 1..(Len(q) - 1) /\ (i + 1) - 1 = i
        /\ i \in 0..(Len(q) - 1) /\ i - 1 \in 0..(Len(q) - 1) /\ (i - 1) + 1 = i
    BY <1>1
  <2>2. RouteStep(q[i + 1], W[(i + 1) - 1], W[i + 1], b)
    BY <2>1 DEF Route
  <2>3. V[i] = W[i + 1] /\ V[i - 1] = W[(i - 1) + 1] /\ Tail(q)[i] = q[i + 1]
    BY <1>1, <1>3, <2>1
  <2>4. QED
    BY <2>1, <2>2, <2>3
<1>7. /\ 1 \in 1..Len(q) /\ 1 - 1 = 0 /\ 0 \in 0..Len(q) /\ 1 \in 0..Len(q)
  BY <1>1
<1>8. RouteStep(q[1], W[1 - 1], W[1], b)
  BY <1>7 DEF Route
<1>9. NearGenesis(W[0]) /\ UpTo(W[0], b) /\ NearGenesis(W[1]) /\ UpTo(W[1], b)
  BY <1>7 DEF Route
<1>10. Route(Tail(q), b, V)
  BY <1>2, <1>4, <1>5, <1>6 DEF Route
<1>11. QED
  BY <1>1, <1>2, <1>7, <1>8, <1>9, <1>10 DEF V

\* A walk goes on with what is sent.
Join(W, n, p, l) == [i \in 0..(n + l) |-> IF i <= n THEN W[i] ELSE p[i - n]]

Marked(u, t) == [type |-> u.type, block |-> u.block, token |-> t]

Along(p, u, t, k) ==
    /\ p \in [0..Len(u) -> Seq(Labels)]
    /\ \A i \in 1..Len(u) : WalkStep(Marked(u[i], t), k, p[i - 1], p[i])

\* An index of a concatenation.
LEMMA SplitIndex ==
    ASSUME NEW n \in Nat, NEW l \in Nat, NEW i \in 0..(n + l)
    PROVE  i \in 0..n \/ \E j \in 1..l : i = n + j
<1> SUFFICES ASSUME ~(i \in 0..n) PROVE \E j \in 1..l : i = n + j
  OBVIOUS
<1>1. i - n \in 1..l /\ i = n + (i - n)
  OBVIOUS
<1>2. QED
  BY <1>1

Joined(V, W, q, p, u) ==
    /\ V[0] = W[0] /\ V[Len(q) + Len(u)] = p[Len(u)]
    /\ \A i \in 0..Len(q) : V[i] = W[i]
    /\ \A j \in 0..Len(u) : V[Len(q) + j] = p[j]

\* Walk W along q and then p along the steps u that are sent.
LEMMA JoinWalk ==
    ASSUME NEW q, NEW u, NEW t, NEW r, NEW k, NEW W, NEW p,
           Sent(q, u, t, r), Walk(q, k, W), Along(p, u, t, k), p[0] = W[Len(q)]
    PROVE  \E V : Walk(r, k, V) /\ Joined(V, W, q, p, u)
<1> DEFINE n == Len(q)
           l == Len(u)
           V == Join(W, n, p, l)
<1>1. /\ n \in Nat /\ l \in Nat /\ Len(r) = n + l
      /\ \A i \in 1..n : r[i] = q[i]
      /\ \A i \in 1..l : r[n + i] = Marked(u[i], t)
  BY DEF Sent, Marked
<1>2. /\ W \in [0..n -> Seq(Labels)]
      /\ \A i \in 1..n : WalkStep(q[i], k, W[i - 1], W[i])
  BY DEF Walk
<1>3. /\ p \in [0..l -> Seq(Labels)] /\ p[0] = W[n]
      /\ \A i \in 1..l : WalkStep(Marked(u[i], t), k, p[i - 1], p[i])
  BY DEF Along
<1> HIDE DEF n, l
<1>4. \A i \in 0..n : V[i] = W[i] /\ i \in 0..(n + l)
  BY <1>1 DEF Join
<1>5. ASSUME NEW j \in 0..l PROVE V[n + j] = p[j] /\ n + j \in 0..(n + l)
  <2>1. n + j \in 0..(n + l) /\ (n + j) - n = j
    BY <1>1
  <2>2. V[n + j] = IF n + j <= n THEN W[n + j] ELSE p[(n + j) - n]
    BY <2>1 DEF Join
  <2>3. CASE j = 0
    <3>1. n + j = n /\ n <= n
      BY <1>1, <2>3
    <3>2. QED
      BY <1>3, <2>1, <2>2, <2>3, <3>1
  <2>4. CASE j # 0
    <3>1. ~(n + j <= n)
      BY <1>1, <2>4
    <3>2. QED
      BY <2>1, <2>2, <3>1
  <2>5. QED
    BY <2>3, <2>4
<1>6. \A i \in 0..(n + l) : i \in 0..n \/ \E j \in 1..l : i = n + j
  BY <1>1, SplitIndex
<1>7. V \in [0..(n + l) -> Seq(Labels)]
  <2>1. DOMAIN V = 0..(n + l) /\ V = [i \in 0..(n + l) |-> V[i]]
    BY DEF Join
  <2> HIDE DEF V
  <2>2. ASSUME NEW i \in 0..(n + l) PROVE V[i] \in Seq(Labels)
    <3>1. CASE i \in 0..n
      BY <1>2, <1>4, <3>1
    <3>2. CASE \E j \in 1..l : i = n + j
      <4>1. PICK j \in 1..l : i = n + j
        BY <3>2
      <4>2. j \in 0..l
        BY <1>1
      <4>3. QED
        BY <1>3, <1>5, <4>1, <4>2
    <3>3. QED
      BY <1>6, <3>1, <3>2
  <2>3. QED
    BY <2>1, <2>2
<1> HIDE DEF V
<1>8. ASSUME NEW i \in 1..(n + l) PROVE WalkStep(r[i], k, V[i - 1], V[i])
  <2>0. i \in 0..(n + l)
    BY <1>1
  <2>1. CASE i \in 0..n
    <3>1. i \in 1..n /\ i - 1 \in 0..n
      BY <1>1, <2>1
    <3>2. V[i - 1] = W[i - 1] /\ V[i] = W[i] /\ r[i] = q[i]
      BY <1>1, <1>4, <2>1, <3>1
    <3>3. QED
      BY <1>2, <3>1, <3>2
  <2>2. CASE \E j \in 1..l : i = n + j
    <3>1. PICK j \in 1..l : i = n + j
      BY <2>2
    <3>2. j \in 0..l /\ j - 1 \in 0..l /\ i - 1 = n + (j - 1)
      BY <1>1, <3>1
    <3>3. V[n + j] = p[j] /\ V[n + (j - 1)] = p[j - 1] /\ r[n + j] = Marked(u[j], t)
      BY <1>1, <1>5, <3>1, <3>2
    <3>4. WalkStep(Marked(u[j], t), k, p[j - 1], p[j])
      BY <1>3
    <3>5. QED
      BY <3>1, <3>2, <3>3, <3>4
  <2>3. QED
    BY <1>6, <2>0, <2>1, <2>2
<1>9. 0 \in 0..n /\ l \in 0..l
  BY <1>1
<1>10. V[0] = W[0] /\ V[n + l] = p[l]
  BY <1>1, <1>4, <1>5, <1>9
<1>11. Walk(r, k, V)
  BY <1>1, <1>7, <1>8 DEF Walk
<1>12. Joined(V, W, q, p, u)
  BY <1>4, <1>5, <1>10 DEF Joined, n, l
<1>13. QED
  BY <1>11, <1>12

\* Nothing is on the channel: the route is at its end.
LEMMA RouteEmpty ==
    ASSUME NEW b \in Seq(Labels), NearGenesis(b)
    PROVE  \E W : Route(<<>>, b, W) /\ W[0] = b
<1> DEFINE W == [i \in 0..0 |-> b]
<1>1. Len(<<>>) = 0 /\ 1..0 = {} /\ 0..0 = {0}
  OBVIOUS
<1>2. W \in [0..0 -> Seq(Labels)] /\ W[0] = b
  BY <1>1
<1> HIDE DEF W
<1>3. Walk(<<>>, NoToken, W)
  BY <1>1, <1>2 DEF Walk
<1>4. Route(<<>>, b, W)
  BY <1>1, <1>2, <1>3 DEF Route, UpTo
<1>5. QED
  BY <1>2, <1>4

\* A new tip prolongs the daemon's route.
LEMMA RouteMove ==
    ASSUME NEW q \in Seq(Message), NEW a \in Seq(Labels), NEW b \in Seq(Labels),
           NearGenesis(a), NearGenesis(b), Len(a) < Len(b), LowQueue(q, Len(a)),
           NEW W, Route(q, a, W)
    PROVE  \E V : Route(q \o WithToken(Updates(a, b), NoToken), b, V) /\ V[0] = W[0]
<1> DEFINE u == Updates(a, b)
           r == q \o WithToken(u, NoToken)
<1>1. Len(a) \in Nat /\ Len(b) \in Nat /\ Len(a) <= Len(b)
  BY LenProperties
<1>2. Sent(q, u, NoToken, r)
  BY SentParts DEF NoToken
<1>3. PICK p \in [0..Len(u) -> Seq(Labels)] :
         /\ p[0] = a /\ p[Len(u)] = b
         /\ \A i \in 0..Len(u) : NearGenesis(p[i]) /\ UpTo(p[i], b)
         /\ \A i \in 1..Len(u) :
               /\ p[i - 1] = StepFrom(u[i]) /\ p[i] = StepTo(u[i])
               /\ u[i].type = "detach" => Len(u[i].block) > Len(Genesis)
               /\ Len(p[i - 1]) < Len(b)
  <2>1. PICK p \in [0..Len(u) -> Seq(Labels)] :
           /\ p[0] = a /\ p[Len(u)] = b
           /\ \A i \in 0..Len(u) :
                 /\ NearGenesis(p[i])
                 /\ Len(a) < Len(b) => p[i] = b \/ Len(p[i]) < Len(b)
           /\ \A i \in 1..Len(u) :
                 /\ p[i - 1] = StepFrom(u[i]) /\ p[i] = StepTo(u[i])
                 /\ u[i].type = "detach" => Len(u[i].block) > Len(Genesis)
                 /\ Len(a) < Len(b) => Len(p[i - 1]) < Len(b)
    BY <1>1, UpdatesPath
  <2> HIDE DEF u
  <2>2. QED
    BY <2>1 DEF UpTo
<1> HIDE DEF u, r
<1>4. Along(p, u, NoToken, NoToken)
  BY <1>3 DEF Along, WalkStep, Marked, StepFrom, StepTo
<1>5. Walk(q, NoToken, W) /\ p[0] = W[Len(q)]
  BY <1>3 DEF Route
<1>6. PICK V : /\ Walk(r, NoToken, V) /\ V[0] = W[0] /\ V[Len(r)] = b
               /\ \A i \in 0..Len(q) : V[i] = W[i]
               /\ \A j \in 0..Len(u) : V[Len(q) + j] = p[j]
  <2>1. \E V : Walk(r, NoToken, V) /\ Joined(V, W, q, p, u)
    BY <1>2, <1>4, <1>5, JoinWalk, Zenon
  <2>2. p[Len(u)] = b /\ Len(r) = Len(q) + Len(u)
    BY <1>2, <1>3 DEF Sent
  <2>3. QED
    BY <2>1, <2>2 DEF Joined
<1>7. /\ Len(q) \in Nat /\ Len(u) \in Nat /\ Len(r) = Len(q) + Len(u)
      /\ \A i \in 1..Len(q) : r[i] = q[i]
      /\ \A j \in 1..Len(u) : r[Len(q) + j] = Marked(u[j], NoToken)
  BY <1>2 DEF Sent, Marked
<1>8. \A i \in 0..Len(r) : i \in 0..Len(q) \/ \E j \in 1..Len(u) : i = Len(q) + j
  <2>1. Len(q) \in Nat /\ Len(u) \in Nat /\ Len(r) = Len(q) + Len(u)
    BY <1>7
  <2>2. \A i \in 0..(Len(q) + Len(u)) :
           i \in 0..Len(q) \/ \E j \in 1..Len(u) : i = Len(q) + j
    BY <2>1, SplitIndex
  <2>3. QED
    BY <2>1, <2>2
<1>9. ASSUME NEW i \in 0..Len(r) PROVE NearGenesis(V[i]) /\ UpTo(V[i], b)
  <2>1. CASE i \in 0..Len(q)
    <3>1. V[i] = W[i] /\ NearGenesis(W[i]) /\ UpTo(W[i], a) /\ W[i] \in Seq(Labels)
      BY <1>5, <1>6, <2>1 DEF Route, Walk
    <3>2. Len(W[i]) \in Nat
      BY <3>1, LenProperties
    <3>3. QED
      BY <1>1, <3>1, <3>2 DEF UpTo
  <2>2. CASE \E j \in 1..Len(u) : i = Len(q) + j
    <3>1. PICK j \in 1..Len(u) : i = Len(q) + j
      BY <2>2
    <3>2. j \in 0..Len(u)
      BY <1>7
    <3>3. V[i] = p[j]
      BY <1>6, <3>1, <3>2
    <3>4. QED
      BY <1>3, <3>2, <3>3
  <2>3. QED
    BY <1>8, <2>1, <2>2
<1>10. ASSUME NEW i \in 1..Len(r) PROVE RouteStep(r[i], V[i - 1], V[i], b)
  <2>0. i \in 0..Len(r)
    BY <1>7
  <2>1. CASE i \in 0..Len(q)
    <3>1. i \in 1..Len(q) /\ i - 1 \in 0..Len(q)
      BY <1>7, <2>1
    <3>2. /\ V[i - 1] = W[i - 1] /\ V[i] = W[i] /\ r[i] = q[i]
          /\ W[i - 1] \in Seq(Labels)
      BY <1>5, <1>6, <1>7, <2>1, <3>1 DEF Walk
    <3>3. RouteStep(q[i], W[i - 1], W[i], a) /\ Len(q[i].block) <= Len(a)
      BY <3>1 DEF Route, LowQueue
    <3>4. q[i] \in Message
      BY <3>1, ElementOfSeq
    <3>5. q[i].block \in Seq(Labels)
      BY <3>4 DEF Message
    <3>6. Len(q[i].block) \in Nat /\ Len(W[i - 1]) \in Nat
      BY <3>2, <3>5, LenProperties
    <3>7. Len(q[i].block) < Len(b) /\ (Len(W[i - 1]) < Len(a) => Len(W[i - 1]) < Len(b))
      BY <1>1, <3>3, <3>6
    <3>8. QED
      BY <3>2, <3>3, <3>7 DEF RouteStep
  <2>2. CASE \E j \in 1..Len(u) : i = Len(q) + j
    <3>1. PICK j \in 1..Len(u) : i = Len(q) + j
      BY <2>2
    <3>2. j - 1 \in 0..Len(u) /\ i - 1 = Len(q) + (j - 1)
      BY <1>7, <3>1
    <3>3. V[i - 1] = p[j - 1] /\ r[i] = Marked(u[j], NoToken)
      BY <1>6, <1>7, <3>1, <3>2
    <3>4. Len(p[j - 1]) < Len(b) /\ (u[j].type = "detach" => Len(u[j].block) > Len(Genesis))
      BY <1>3
    <3>5. Ordinary(r[i]) /\ r[i].type = u[j].type /\ r[i].block = u[j].block
      BY <3>3 DEF Marked, Ordinary
    <3>6. QED
      BY <3>3, <3>4, <3>5 DEF RouteStep
  <2>3. QED
    BY <1>8, <2>0, <2>1, <2>2
<1>11. Route(r, b, V)
  BY <1>6, <1>9, <1>10 DEF Route
<1>12. QED
  BY <1>6, <1>11 DEF r, u

Stays(V, W, q, u) ==
    /\ V[0] = W[0]
    /\ \A i \in 0..Len(q) : V[i] = W[i]
    /\ \A j \in 0..Len(u) : V[Len(q) + j] = W[Len(q)]

\* What is sent to others leaves a walk where it ends.
LEMMA WalkOther ==
    ASSUME NEW q \in Seq(Message), NEW a \in Seq(Labels), NEW b \in Seq(Labels),
           NEW t \in Nat, NEW k, t # k, NEW W, Walk(q, k, W)
    PROVE  LET u == Updates(a, b)
               r == q \o WithToken(u, t)
           IN  \E V : Walk(r, k, V) /\ Stays(V, W, q, u)
<1> DEFINE u == Updates(a, b)
           r == q \o WithToken(u, t)
           p == [j \in 0..Len(u) |-> W[Len(q)]]
<1>1. Sent(q, u, t, r)
  BY SentParts
<1> HIDE DEF u, r
<1>2. Len(q) \in Nat /\ Len(u) \in Nat
  BY <1>1 DEF Sent
<1>3. W[Len(q)] \in Seq(Labels)
  BY <1>2 DEF Walk
<1>4. p \in [0..Len(u) -> Seq(Labels)] /\ \A j \in 0..Len(u) : p[j] = W[Len(q)]
  BY <1>3
<1> HIDE DEF p
<1>5. p[0] = W[Len(q)]
  BY <1>2, <1>4
<1>6. ASSUME NEW i \in 1..Len(u) PROVE WalkStep(Marked(u[i], t), k, p[i - 1], p[i])
  <2>1. i \in 0..Len(u) /\ i - 1 \in 0..Len(u)
    BY <1>2
  <2>2. p[i] = p[i - 1]
    BY <1>4, <2>1
  <2>3. Marked(u[i], t).token # k
    BY DEF Marked
  <2>4. QED
    BY <2>2, <2>3 DEF WalkStep
<1>7. PICK V : Walk(r, k, V) /\ Joined(V, W, q, p, u)
  <2>1. Along(p, u, t, k)
    BY <1>4, <1>6 DEF Along
  <2>2. QED
    BY <1>1, <1>5, <2>1, JoinWalk, Zenon
<1>8. \A j \in 0..Len(u) : V[Len(q) + j] = W[Len(q)]
  BY <1>4, <1>7 DEF Joined
<1>9. Stays(V, W, q, u)
  BY <1>7, <1>8 DEF Joined, Stays
<1>10. QED
  BY <1>7, <1>9 DEF r, u

\* The answer to game_sendupdates leaves the daemon's route as it is.
LEMMA RouteRequest ==
    ASSUME NEW q \in Seq(Message), NEW a \in Seq(Labels), NEW b \in Seq(Labels),
           NEW t \in Nat \ {0}, NEW W,
           NearGenesis(a), NearGenesis(b), Len(a) <= Len(b), Route(q, b, W)
    PROVE  \E V : Route(q \o WithToken(Updates(a, b), t), b, V) /\ V[0] = W[0]
<1> DEFINE u == Updates(a, b)
           r == q \o WithToken(u, t)
<1>1. t \in Nat /\ t # NoToken /\ Walk(q, NoToken, W) /\ W[Len(q)] = b
  BY DEF NoToken, Route
<1>2. Sent(q, u, t, r)
  BY <1>1, SentParts
<1>3. PICK V : /\ Walk(r, NoToken, V) /\ V[0] = W[0]
               /\ \A i \in 0..Len(q) : V[i] = W[i]
               /\ \A j \in 0..Len(u) : V[Len(q) + j] = W[Len(q)]
  <2>1. \E V : Walk(r, NoToken, V) /\ Stays(V, W, q, u)
    BY <1>1, WalkOther, Zenon
  <2>2. QED
    BY <2>1 DEF Stays
<1>4. \A i \in 1..Len(u) : u[i].type = "detach" => Len(u[i].block) > Len(Genesis)
  BY UpdatesPath
<1> HIDE DEF u, r
<1>5. /\ Len(q) \in Nat /\ Len(u) \in Nat /\ Len(r) = Len(q) + Len(u)
      /\ \A i \in 1..Len(q) : r[i] = q[i]
      /\ \A j \in 1..Len(u) : r[Len(q) + j] = Marked(u[j], t)
  BY <1>2 DEF Sent, Marked
<1>6. \A i \in 0..Len(r) : i \in 0..Len(q) \/ \E j \in 1..Len(u) : i = Len(q) + j
  <2>1. Len(q) \in Nat /\ Len(u) \in Nat /\ Len(r) = Len(q) + Len(u)
    BY <1>5
  <2>2. \A i \in 0..(Len(q) + Len(u)) :
           i \in 0..Len(q) \/ \E j \in 1..Len(u) : i = Len(q) + j
    BY <2>1, SplitIndex
  <2>3. QED
    BY <2>1, <2>2
<1>7. ASSUME NEW j \in 0..Len(u) PROVE V[Len(q) + j] = b
  BY <1>1, <1>3
<1>8. V[Len(r)] = b
  <2>1. Len(u) \in 0..Len(u)
    BY <1>5
  <2>2. QED
    BY <1>5, <1>7, <2>1
<1>9. ASSUME NEW i \in 0..Len(r) PROVE NearGenesis(V[i]) /\ UpTo(V[i], b)
  <2>1. CASE i \in 0..Len(q)
    BY <1>3, <2>1 DEF Route
  <2>2. CASE \E j \in 1..Len(u) : i = Len(q) + j
    <3>1. PICK j \in 1..Len(u) : i = Len(q) + j
      BY <2>2
    <3>2. j \in 0..Len(u)
      BY <1>5
    <3>3. V[i] = b
      BY <1>7, <3>1, <3>2
    <3>4. QED
      BY <3>3 DEF UpTo
  <2>3. QED
    BY <1>6, <2>1, <2>2
<1>10. ASSUME NEW i \in 1..Len(r) PROVE RouteStep(r[i], V[i - 1], V[i], b)
  <2>0. i \in 0..Len(r)
    BY <1>5
  <2>1. CASE i \in 0..Len(q)
    <3>1. i \in 1..Len(q) /\ i - 1 \in 0..Len(q)
      BY <1>5, <2>1
    <3>2. V[i - 1] = W[i - 1] /\ V[i] = W[i] /\ r[i] = q[i]
      BY <1>3, <1>5, <2>1, <3>1
    <3>3. QED
      BY <3>1, <3>2 DEF Route
  <2>2. CASE \E j \in 1..Len(u) : i = Len(q) + j
    <3>1. PICK j \in 1..Len(u) : i = Len(q) + j
      BY <2>2
    <3>2. j \in 0..Len(u)
      BY <1>5
    <3>3. V[i] = b /\ r[i] = Marked(u[j], t)
      BY <1>5, <1>7, <3>1, <3>2
    <3>4. ~Ordinary(r[i]) /\ r[i].type = u[j].type /\ r[i].block = u[j].block
      BY <1>1, <3>3 DEF Marked, Ordinary
    <3>5. QED
      BY <1>4, <3>1, <3>3, <3>4 DEF RouteStep
  <2>3. QED
    BY <1>6, <2>0, <2>1, <2>2
<1>11. Route(r, b, V)
  BY <1>3, <1>8, <1>9, <1>10 DEF Route
<1>12. QED
  BY <1>3, <1>11 DEF r, u

\* With a new token it is a walk from the current block to the tip.
LEMMA WalkRequest ==
    ASSUME NEW q \in Seq(Message), NEW a \in Seq(Labels), NEW b \in Seq(Labels),
           NearGenesis(a), NearGenesis(b), Len(a) <= Len(b), NEW t \in Nat,
           \A i \in 1..Len(q) : q[i].token # t
    PROVE  \E V : Walk(q \o WithToken(Updates(a, b), t), t, V) /\ V[0] = a
<1> DEFINE u == Updates(a, b)
           r == q \o WithToken(u, t)
           W == [i \in 0..Len(q) |-> a]
<1>1. Sent(q, u, t, r)
  BY SentParts
<1>2. PICK p \in [0..Len(u) -> Seq(Labels)] :
         /\ p[0] = a
         /\ \A i \in 1..Len(u) : p[i - 1] = StepFrom(u[i]) /\ p[i] = StepTo(u[i])
  <2>1. PICK p \in [0..Len(u) -> Seq(Labels)] :
           /\ p[0] = a /\ p[Len(u)] = b
           /\ \A i \in 0..Len(u) :
                 /\ NearGenesis(p[i])
                 /\ Len(a) < Len(b) => p[i] = b \/ Len(p[i]) < Len(b)
           /\ \A i \in 1..Len(u) :
                 /\ p[i - 1] = StepFrom(u[i]) /\ p[i] = StepTo(u[i])
                 /\ u[i].type = "detach" => Len(u[i].block) > Len(Genesis)
                 /\ Len(a) < Len(b) => Len(p[i - 1]) < Len(b)
    BY UpdatesPath
  <2> HIDE DEF u
  <2>2. QED
    BY <2>1
<1> HIDE DEF u, r
<1>3. Along(p, u, t, t)
  BY <1>2 DEF Along, WalkStep, Marked, StepFrom, StepTo
<1>4. Len(q) \in Nat /\ Len(u) \in Nat
  BY <1>1 DEF Sent
<1>5. W \in [0..Len(q) -> Seq(Labels)] /\ \A i \in 0..Len(q) : W[i] = a
  OBVIOUS
<1> HIDE DEF W
<1>6. Walk(q, t, W)
  <2>1. ASSUME NEW i \in 1..Len(q) PROVE WalkStep(q[i], t, W[i - 1], W[i])
    <3>1. i \in 0..Len(q) /\ i - 1 \in 0..Len(q)
      BY <1>4
    <3>2. QED
      BY <1>5, <3>1 DEF WalkStep
  <2>2. QED
    BY <1>5, <2>1 DEF Walk
<1>7. p[0] = W[Len(q)] /\ W[0] = a
  BY <1>2, <1>4, <1>5
<1>8. PICK V : Walk(r, t, V) /\ Joined(V, W, q, p, u)
  BY <1>1, <1>3, <1>6, <1>7, JoinWalk, Zenon
<1>9. QED
  BY <1>7, <1>8 DEF Joined, r, u

-----------------------------------------------------------------------------
(***************************************************************************)
(* The open batch: undo data of the durable chain is in the view only if   *)
(* it is durable too, and it is durable for what the view has detached, so *)
(* a crash brings all of it back.                                          *)
(***************************************************************************)
BatchOk(disk, v) ==
    HasState(disk) =>
        /\ HasState(v)
        /\ \A r \in v.undo : OnChain(r.block, disk.block) => r \in disk.undo
        /\ \A c \in Seq(Labels) :
              OnChain(c, disk.block) /\ ~OnChain(c, v.block) => UndoDataOf(disk, c) # {}

\* ... and both are at a block of B.
Held(s, B) == {s.view.block, s.disk.block} \subseteq B /\ BatchOk(s.disk, s.view)

\* A commit of a database that fits what is durable.
LEMMA HeldCommit ==
    ASSUME NEW B, NEW s \in Store, Held(s, B), NEW v \in Database, v.block \in B,
           BatchOk(s.disk, v)
    PROVE  Held(Commit(s, v), B) /\ Held(CommitState(s, v), B)
<1> DEFINE c == Commit(s, v)
<1>1. c \in Store /\ c.view = v /\ c.disk \in {s.disk, v}
  BY CommitFields
<1>2. CommitState(s, v).view = c.view /\ CommitState(s, v).disk = c.disk
  BY <1>1 DEF CommitState, Store
<1> HIDE DEF c
<1>3. BatchOk(v, v)
  BY DEF BatchOk
<1>4. Held(c, B)
  BY <1>1, <1>3 DEF Held
<1>5. QED
  BY <1>2, <1>4 DEF Held, c

\* The operations of TransactionManager and of the height cache.
LEMMA HeldOperations ==
    ASSUME NEW B, NEW s \in Store, Held(s, B)
    PROVE  /\ Held(Flush(s), B) /\ Held(Rollback(s), B)
           /\ NoBlock \in B => Held(Clear(TryAbortTransaction(s)), B)
           /\ \A n \in Nat \ {0} : Held(SetBatchSize(s, n), B)
           /\ Held(FillHeight(s), B)
<1>1. /\ Flush(s).view = s.view /\ Flush(s).disk \in {s.view, s.disk}
      /\ Rollback(s).view = s.disk /\ Rollback(s).disk = s.disk
      /\ FillHeight(s).view = s.view /\ FillHeight(s).disk = s.disk
  BY DEF Flush, Rollback, FillHeight, Store
<1>2. BatchOk(s.view, s.view) /\ BatchOk(s.disk, s.disk)
  BY DEF BatchOk
<1>3. NoBlock \in B => Held(Clear(TryAbortTransaction(s)), B)
  <2> DEFINE a == TryAbortTransaction(s)
  <2>1. a \in Store
    BY DEF TryAbortTransaction, Rollback, Store
  <2> HIDE DEF a
  <2>2. Clear(a).view = EmptyDatabase /\ Clear(a).disk = EmptyDatabase
    BY <2>1 DEF Clear, Store
  <2>3. BatchOk(EmptyDatabase, EmptyDatabase) /\ EmptyDatabase.block = NoBlock
    BY DEF BatchOk, HasState, EmptyDatabase
  <2>4. QED
    BY <2>2, <2>3 DEF Held, a
<1>4. ASSUME NEW n \in Nat \ {0} PROVE Held(SetBatchSize(s, n), B)
  <2> DEFINE t == [s EXCEPT !.batchSize = n]
  <2>1. t \in Store /\ t.view = s.view /\ t.disk = s.disk
    BY DEF Store
  <2>2. SetBatchSize(s, n) \in {t, Flush(t)}
    BY DEF SetBatchSize
  <2> HIDE DEF t
  <2>3. Flush(t).view = t.view /\ Flush(t).disk \in {t.view, t.disk}
    BY <2>1 DEF Flush, Store
  <2>4. QED
    BY <1>2, <2>1, <2>2, <2>3 DEF Held
<1>5. QED
  BY <1>1, <1>2, <1>3, <1>4 DEF Held

\* Dropping undo data.
LEMMA HeldDrop ==
    ASSUME NEW B, NEW s \in Store, Held(s, B),
           NEW v \in Database, v.block = s.view.block, v.undo \subseteq s.view.undo
    PROVE  Held(Commit(s, v), B)
<1>1. v.block \in B
  BY DEF Held
<1>2. BatchOk(s.disk, v)
  BY DEF Held, BatchOk, HasState
<1>3. QED
  BY <1>1, <1>2, HeldCommit

\* The row of undo data of a block.
RowOf(b) == [block |-> b, height |-> Height(b), data |-> Parent(b)]

\* A row of a correct database is that of its block.
LEMMA RowIsRowOf ==
    ASSUME NEW db \in Database, DatabaseCorrect(db), NEW r \in db.undo
    PROVE  /\ r.block \in Seq(Labels) /\ r.height = Len(r.block)
           /\ r = RowOf(r.block) /\ Len(r.block) > Len(Genesis)
<1>1. r \in UndoRow
  BY DEF Database
<1>2. r.block \in Seq(Labels) /\ r = [block |-> r.block, height |-> r.height, data |-> r.data]
  BY <1>1 DEF UndoRow
<1>3. r.height = Len(r.block) /\ r.data = Parent(r.block) /\ Len(r.block) > Len(Genesis)
  BY DEF DatabaseCorrect, StateOf
<1>4. QED
  BY <1>2, <1>3 DEF RowOf

\* What attaching a block commits.
LEMMA AttachView ==
    ASSUME NEW s, GoodStore(s), NEW b \in Seq(Labels) \ {<<>>},
           s.view.block = Parent(b)
    PROVE  \E v \in Database : /\ AttachToState(s, b) = CommitState(s, v)
                               /\ v.block = b /\ v.undo = s.view.undo \cup {RowOf(b)}
<1> DEFINE old == s.view.state
           u == AddUndoData(s.view, b, UndoFor(old, b))
           v == SetCurrentGameState(u, b, ProcessForward(old, b))
           rows == {r \in s.view.undo : r.block # b}
                   \cup {[block |-> b, height |-> Height(b), data |-> UndoFor(old, b)]}
<1>1. s.view \in Database /\ DatabaseCorrect(s.view)
  BY DEF GoodStore, Store
<1>2. /\ Parent(b) \in Seq(Labels) /\ b \in Seq(Labels) /\ b[Len(b)] \in Labels
      /\ Len(b) \in Nat
  BY ParentType
<1>3. old = Parent(b) /\ old \in Seq(Labels)
  BY <1>1, <1>2, BlockchainAssumption DEF HasState, DatabaseCorrect, StateOf
<1>4. rows = s.view.undo \cup {RowOf(b)}
  <2>1. rows = {r \in s.view.undo : r.block # b} \cup {RowOf(b)}
    BY <1>3 DEF RowOf, UndoFor
  <2>2. \A r \in s.view.undo : r.block = b => r = RowOf(b)
    BY <1>1, RowIsRowOf
  <2> HIDE DEF rows
  <2>3. QED
    BY <2>1, <2>2
<1>5. RowOf(b) \in UndoRow
  BY <1>2 DEF RowOf, UndoRow
<1>6. rows \in SUBSET UndoRow
  <2>1. s.view.undo \in SUBSET UndoRow
    BY <1>1 DEF Database
  <2> HIDE DEF rows
  <2>2. QED
    BY <1>4, <1>5, <2>1
<1>7. u = [s.view EXCEPT !.undo = rows]
  BY <1>1 DEF AddUndoData, Database
<1> HIDE DEF rows
<1>8. u \in Database /\ u.undo = rows
  BY <1>1, <1>6, <1>7 DEF Database
<1> HIDE DEF u
<1>9. ProcessForward(old, b) \in Seq(Labels)
  BY <1>2, <1>3 DEF ProcessForward
<1>10. v \in Database /\ v.block = b /\ v.undo = rows
  BY <1>2, <1>8, <1>9 DEF SetCurrentGameState, Database
<1>11. AttachToState(s, b) = CommitState(s, v)
  BY DEF AttachToState, v, u
<1> HIDE DEF v
<1>12. QED
  BY <1>4, <1>10, <1>11

\* What detaching the current block commits.
LEMMA DetachView ==
    ASSUME NEW s, GoodStore(s), NEW b \in Seq(Labels) \ {<<>>},
           s.view.block = b, NEW r \in UndoDataOf(s.view, b)
    PROVE  \E v \in Database : /\ DetachFromState(s, b, r.data) = CommitState(s, v)
                               /\ v.block = Parent(b)
                               /\ v.undo = {x \in s.view.undo : x.block # b}
<1> DEFINE w == SetCurrentGameState(s.view, Parent(b),
                                    ProcessBackwards(s.view.state, b, r.data))
           v == ReleaseUndoData(w, {b})
<1>1. s.view \in Database
  BY DEF GoodStore, Store
<1>2. Parent(b) \in Seq(Labels) /\ r.data \in Seq(Labels)
  BY <1>1, ParentType DEF UndoDataOf, Database, UndoRow
<1>3. w \in Database /\ w.block = Parent(b) /\ w.undo = s.view.undo
  BY <1>1, <1>2 DEF SetCurrentGameState, ProcessBackwards, Database
<1>4. DetachFromState(s, b, r.data) = CommitState(s, v)
  BY DEF DetachFromState
<1> HIDE DEF w
<1>5. v \in Database /\ v.block = Parent(b) /\ v.undo = {x \in s.view.undo : x.block # b}
  BY <1>3 DEF ReleaseUndoData, Database
<1> HIDE DEF v
<1>6. QED
  BY <1>4, <1>5

\* Attaching a block to the state: a row of the durable chain that comes back
\* is the durable one.
LEMMA HeldAttach ==
    ASSUME NEW B, NEW s, GoodStore(s), Held(s, B), NEW b \in Seq(Labels) \ {<<>>},
           s.view.block = Parent(b), b \in B
    PROVE  Held(AttachToState(s, b), B)
<1>1. PICK v \in Database : /\ AttachToState(s, b) = CommitState(s, v)
                            /\ v.block = b /\ v.undo = s.view.undo \cup {RowOf(b)}
  BY AttachView
<1>2. /\ s \in Store /\ s.disk \in Database /\ DatabaseCorrect(s.disk)
      /\ BatchOk(s.disk, s.view)
  BY DEF GoodStore, Store, Held
<1>3. /\ b \in Seq(Labels) /\ Parent(b) \in Seq(Labels) /\ Len(Parent(b)) = Len(b) - 1
      /\ Len(b) \in Nat
  BY ParentType
<1>4. BatchOk(s.disk, v)
  <2> SUFFICES ASSUME HasState(s.disk)
               PROVE  /\ HasState(v)
                      /\ \A r \in v.undo : OnChain(r.block, s.disk.block) => r \in s.disk.undo
                      /\ \A c \in Seq(Labels) :
                            OnChain(c, s.disk.block) /\ ~OnChain(c, v.block)
                            => UndoDataOf(s.disk, c) # {}
    BY DEF BatchOk
  <2>1. /\ \A r \in s.view.undo : OnChain(r.block, s.disk.block) => r \in s.disk.undo
        /\ \A c \in Seq(Labels) :
              OnChain(c, s.disk.block) /\ ~OnChain(c, Parent(b))
              => UndoDataOf(s.disk, c) # {}
    BY <1>2 DEF BatchOk
  <2>2. HasState(v)
    BY <1>1, <1>3, BlockchainAssumption DEF HasState
  <2>3. ASSUME OnChain(b, s.disk.block) PROVE RowOf(b) \in s.disk.undo
    <3>1. ~OnChain(b, Parent(b))
      BY <1>3 DEF OnChain
    <3>2. PICK x \in UndoDataOf(s.disk, b) : TRUE
      BY <1>3, <2>1, <2>3, <3>1
    <3>3. x \in s.disk.undo /\ x.block = b
      BY <3>2 DEF UndoDataOf
    <3>4. x = RowOf(x.block)
      BY <1>2, <3>3, RowIsRowOf
    <3>5. QED
      BY <3>3, <3>4
  <2>4. RowOf(b).block = b
    BY DEF RowOf
  <2>5. \A r \in v.undo : OnChain(r.block, s.disk.block) => r \in s.disk.undo
    BY <1>1, <2>1, <2>3, <2>4
  <2>6. \A c \in Seq(Labels) : ~OnChain(c, v.block) => ~OnChain(c, Parent(b))
    BY <1>1, OnChainOfParent
  <2>7. QED
    BY <2>1, <2>2, <2>5, <2>6
<1>5. QED
  BY <1>1, <1>2, <1>4, HeldCommit

\* Detaching the current block: its row was durable if the block is.
LEMMA HeldDetach ==
    ASSUME NEW B, NEW s, GoodStore(s), Held(s, B), NEW b \in Seq(Labels) \ {<<>>},
           s.view.block = b, NEW r \in UndoDataOf(s.view, b), Parent(b) \in B
    PROVE  Held(DetachFromState(s, b, r.data), B)
<1>1. PICK v \in Database : /\ DetachFromState(s, b, r.data) = CommitState(s, v)
                            /\ v.block = Parent(b)
                            /\ v.undo = {x \in s.view.undo : x.block # b}
  BY DetachView
<1>2. s \in Store /\ BatchOk(s.disk, s.view)
  BY DEF GoodStore, Held
<1>3. b \in Seq(Labels) /\ Parent(b) \in Seq(Labels)
  BY ParentType
<1>4. BatchOk(s.disk, v)
  <2> SUFFICES ASSUME HasState(s.disk)
               PROVE  /\ HasState(v)
                      /\ \A x \in v.undo : OnChain(x.block, s.disk.block) => x \in s.disk.undo
                      /\ \A c \in Seq(Labels) :
                            OnChain(c, s.disk.block) /\ ~OnChain(c, v.block)
                            => UndoDataOf(s.disk, c) # {}
    BY DEF BatchOk
  <2>1. /\ \A x \in s.view.undo : OnChain(x.block, s.disk.block) => x \in s.disk.undo
        /\ \A c \in Seq(Labels) :
              OnChain(c, s.disk.block) /\ ~OnChain(c, b) => UndoDataOf(s.disk, c) # {}
    BY <1>2 DEF BatchOk
  <2>2. HasState(v)
    BY <1>1, <1>3, BlockchainAssumption DEF HasState
  <2>3. \A x \in v.undo : OnChain(x.block, s.disk.block) => x \in s.disk.undo
    BY <1>1, <2>1
  <2>4. ASSUME NEW c \in Seq(Labels), OnChain(c, s.disk.block), ~OnChain(c, v.block)
        PROVE  UndoDataOf(s.disk, c) # {}
    <3>1. CASE OnChain(c, b)
      <4>1. c = b
        BY <1>1, <2>4, <3>1, OnChainTop
      <4>2. r \in s.view.undo /\ r.block = b
        BY DEF UndoDataOf
      <4>3. r \in s.disk.undo
        BY <2>1, <2>4, <4>1, <4>2
      <4>4. QED
        BY <4>1, <4>2, <4>3 DEF UndoDataOf
    <3>2. CASE ~OnChain(c, b)
      BY <2>1, <2>4, <3>2
    <3>3. QED
      BY <3>1, <3>2
  <2>5. QED
    BY <2>2, <2>3, <2>4
<1>5. QED
  BY <1>1, <1>2, <1>4, HeldCommit

\* Starting from scratch leaves the genesis block without undo data.
LEMMA HeldInitial ==
    ASSUME NEW B, NEW s, GoodStore(s), Held(s, B), {NoBlock, Genesis} \subseteq B
    PROVE  LET i == StoreInitialState(s)
           IN  Held(i, B) /\ i.view.block = Genesis /\ i.view.undo = {}
<1> DEFINE c == Clear(TryAbortTransaction(s))
           v == SetCurrentGameState(c.view, Genesis, InitialState)
<1>1. GoodStore(c) /\ c.view = EmptyDatabase
  BY AbortAndClearGood
<1>2. Held(c, B)
  BY HeldOperations DEF GoodStore
<1>3. StoreInitialState(s) = CommitState(c, v)
  BY DEF StoreInitialState
<1>4. c.disk = EmptyDatabase
  <2> DEFINE a == TryAbortTransaction(s)
  <2>1. a \in Store
    BY DEF TryAbortTransaction, Rollback, Store, GoodStore
  <2> HIDE DEF a
  <2>2. Clear(a).disk = EmptyDatabase
    BY <2>1 DEF Clear, Store
  <2>3. QED
    BY <2>2 DEF a
<1> HIDE DEF c
<1>5. c \in Store /\ c.view \in Database
  BY <1>1 DEF GoodStore, Store
<1>6. v \in Database /\ v.block = Genesis /\ v.undo = {}
  <2>1. c.view.undo = {}
    BY <1>1 DEF EmptyDatabase
  <2>2. QED
    BY <1>5, <2>1, BlockchainAssumption DEF SetCurrentGameState, InitialState, StateOf, Database
<1> HIDE DEF v
<1>7. BatchOk(c.disk, v)
  BY <1>4 DEF BatchOk, HasState, EmptyDatabase
<1>8. Held(CommitState(c, v), B)
  BY <1>2, <1>5, <1>6, <1>7, HeldCommit
<1>9. CommitState(c, v).view = v
  <2>1. Commit(c, v) \in Store /\ Commit(c, v).view = v
    BY <1>5, <1>6, CommitFields
  <2>2. QED
    BY <2>1 DEF CommitState, Store
<1>10. QED
  BY <1>3, <1>6, <1>8, <1>9

-----------------------------------------------------------------------------
(***************************************************************************)
(* The hashes in the pruning queue: the last one is at most at height h,   *)
(* and each one below the next.                                            *)
(***************************************************************************)
Below(hs, h) == \A i \in 1..Len(hs) : Height(hs[i]) <= h - (Len(hs) - i)

\* Higher up, they are still below.
LEMMA BelowHigher ==
    ASSUME NEW hs \in Seq(Seq(Labels)), NEW h \in Int, NEW k \in Int, h <= k,
           Below(hs, h)
    PROVE  Below(hs, k)
<1> SUFFICES ASSUME NEW i \in 1..Len(hs) PROVE Len(hs[i]) <= k - (Len(hs) - i)
  BY DEF Below
<1>1. Len(hs) \in Nat /\ hs[i] \in Seq(Labels)
  BY LenProperties, ElementOfSeq
<1>2. Len(hs[i]) \in Nat /\ Len(hs[i]) <= h - (Len(hs) - i)
  BY <1>1, LenProperties DEF Below
<1>3. i \in Int
  OBVIOUS
<1> DEFINE n == Len(hs)
           x == Len(hs[i])
<1>4. n \in Nat /\ x \in Nat /\ x <= h - (n - i)
  BY <1>1, <1>2
<1> HIDE DEF n, x
<1>5. x <= k - (n - i)
  BY <1>3, <1>4
<1>6. QED
  BY <1>5 DEF n, x

\* A block is pushed that is one higher.
LEMMA BelowPush ==
    ASSUME NEW q \in Queue, NEW b \in Seq(Labels), Below(q.hashes, Len(b) - 1)
    PROVE  Below(Push(q, b).hashes, Len(b))
<1> DEFINE hs == q.hashes
           r == Append(hs, b)
<1>1. hs \in Seq(Seq(Labels)) /\ Len(hs) \in Nat /\ Len(b) \in Nat
  BY QueueTypes, LenProperties
<1>2. Push(q, b).hashes = r
  BY DEF Push, Queue
<1>3. /\ Below(hs, Len(b) - 1)
      /\ \A i \in 1..Len(hs) : hs[i] \in Seq(Labels)
  BY <1>1, ElementOfSeq
<1> HIDE DEF hs
<1>4. /\ Len(r) = Len(hs) + 1 /\ r[Len(hs) + 1] = b
      /\ \A i \in 1..Len(hs) : r[i] = hs[i]
  BY <1>1, AppendProperties
<1> HIDE DEF r
<1>5. ASSUME NEW i \in 1..Len(r) PROVE Len(r[i]) <= Len(b) - (Len(r) - i)
  <2>1. CASE i = Len(r)
    BY <1>1, <1>4, <2>1
  <2>2. CASE i # Len(r)
    <3>1. i \in 1..Len(hs) /\ i \in Nat
      BY <1>1, <1>4, <2>2
    <3>2. Len(hs[i]) \in Nat /\ r[i] = hs[i] /\ Len(hs[i]) <= Len(b) - 1 - (Len(hs) - i)
      BY <1>3, <1>4, <3>1, LenProperties DEF Below
    <3>3. Len(b) - 1 - (Len(hs) - i) = Len(b) - (Len(r) - i)
      BY <1>1, <1>4, <3>1
    <3>4. QED
      BY <3>2, <3>3
  <2>3. QED
    BY <2>1, <2>2
<1>6. QED
  BY <1>2, <1>5 DEF Below

\* Hashes are taken from the front.
LEMMA BelowDrop ==
    ASSUME NEW q \in Queue, NEW h \in Int, Below(q.hashes, h),
           NEW k \in 0..Len(q.hashes)
    PROVE  /\ Below(DropFront(q, k).hashes, h)
           /\ Len(DropFront(q, k).hashes) = Len(q.hashes) - k
<1> DEFINE hs == q.hashes
           r == SubSeq(hs, k + 1, Len(hs))
<1>1. hs \in Seq(Seq(Labels)) /\ Len(hs) \in Nat /\ k \in Nat /\ k <= Len(hs)
  BY QueueTypes
<1>2. DropFront(q, k).hashes = r
  BY DEF DropFront, Queue
<1>3. Below(hs, h) /\ \A i \in 1..Len(hs) : hs[i] \in Seq(Labels)
  BY <1>1, ElementOfSeq
<1> HIDE DEF hs
<1>4. Len(r) = Len(hs) - k /\ \A i \in 1..(Len(hs) - k) : r[i] = hs[k + i]
  <2>1. /\ k + 1 \in Int /\ Len(hs) \in Int
        /\ \A i \in (k + 1)..Len(hs) : hs[i] \in Seq(Labels)
    <3>1. \A i \in (k + 1)..Len(hs) : i \in 1..Len(hs)
      BY <1>1
    <3>2. QED
      BY <1>1, <1>3, <3>1
  <2>2. /\ Len(r) = IF k + 1 <= Len(hs) THEN Len(hs) - (k + 1) + 1 ELSE 0
        /\ \A i \in 1..(Len(hs) - (k + 1) + 1) : r[i] = hs[(k + 1) + i - 1]
    <3> DEFINE m == k + 1
               n == Len(hs)
    <3>1. m \in Int /\ n \in Int /\ \A i \in m..n : hs[i] \in Seq(Labels)
      BY <2>1
    <3> HIDE DEF m, n
    <3>2. /\ Len(SubSeq(hs, m, n)) = IF m <= n THEN n - m + 1 ELSE 0
          /\ \A i \in 1..(n - m + 1) : SubSeq(hs, m, n)[i] = hs[m + i - 1]
      BY <3>1, SubSeqProperties
    <3>3. QED
      BY <3>2 DEF m, n
  <2>3. ASSUME NEW i \in 1..(Len(hs) - k) PROVE r[i] = hs[k + i]
    <3>1. i \in 1..(Len(hs) - (k + 1) + 1) /\ (k + 1) + i - 1 = k + i
      BY <1>1
    <3> HIDE DEF r
    <3>2. QED
      BY <2>2, <3>1
  <2>4. (IF k + 1 <= Len(hs) THEN Len(hs) - (k + 1) + 1 ELSE 0) = Len(hs) - k
    BY <1>1
  <2> HIDE DEF r
  <2>5. Len(r) = Len(hs) - k
    BY <2>2, <2>4
  <2>6. QED
    BY <2>3, <2>5
<1> HIDE DEF r
<1>5. ASSUME NEW i \in 1..Len(r) PROVE Len(r[i]) <= h - (Len(r) - i)
  <2>1. k + i \in 1..Len(hs) /\ r[i] = hs[k + i] /\ Len(hs) - (k + i) = Len(r) - i
    BY <1>1, <1>4
  <2>2. Len(hs[k + i]) <= h - (Len(hs) - (k + i))
    BY <1>3, <2>1 DEF Below
  <2>3. QED
    BY <2>1, <2>2
<1>6. QED
  BY <1>2, <1>4, <1>5 DEF Below, hs

\* A block is detached.
LEMMA BelowDetach ==
    ASSUME NEW q \in Queue, NEW h \in Int, Below(q.hashes, h)
    PROVE  /\ Below(DetachBlock(q).hashes, h - 1)
           /\ Len(DetachBlock(q).hashes) = IF q.hashes = <<>> THEN 0 ELSE Len(q.hashes) - 1
           /\ DetachBlock(q).nBlocks = q.nBlocks
<1> DEFINE hs == q.hashes
           r == SubSeq(hs, 1, Len(hs) - 1)
<1>1. hs \in Seq(Seq(Labels)) /\ Len(hs) \in Nat
  BY QueueTypes
<1>2. /\ DetachBlock(q).hashes = IF hs = <<>> THEN hs ELSE r
      /\ DetachBlock(q).nBlocks = q.nBlocks
  BY DEF DetachBlock, Queue
<1>3. Below(hs, h) /\ \A i \in 1..Len(hs) : hs[i] \in Seq(Labels)
  BY <1>1, ElementOfSeq
<1> HIDE DEF hs
<1>4. CASE hs = <<>>
  <2>1. Len(hs) = 0 /\ 1..0 = {}
    BY <1>4
  <2>2. QED
    BY <1>2, <1>4, <2>1 DEF Below, hs
<1>5. CASE hs # <<>>
  <2>1. Len(hs) \in Nat \ {0}
    BY <1>1, <1>5, EmptySeq, LenProperties
  <2>2. Len(r) = Len(hs) - 1 /\ \A i \in 1..(Len(hs) - 1) : r[i] = hs[i]
    <3>1. 1 \in 1..(Len(hs) + 1) /\ Len(hs) - 1 \in 0..Len(hs)
      BY <2>1
    <3>2. /\ Len(r) = IF 1 <= Len(hs) - 1 THEN (Len(hs) - 1) - 1 + 1 ELSE 0
          /\ \A i \in 1..((Len(hs) - 1) - 1 + 1) : r[i] = hs[1 + i - 1]
      BY <1>1, <3>1, SubSeqProperties
    <3>3. ASSUME NEW i \in 1..(Len(hs) - 1) PROVE r[i] = hs[i]
      <4>1. i \in 1..((Len(hs) - 1) - 1 + 1) /\ 1 + i - 1 = i
        BY <2>1
      <4> HIDE DEF r
      <4>2. QED
        BY <3>2, <4>1
    <3>4. (IF 1 <= Len(hs) - 1 THEN (Len(hs) - 1) - 1 + 1 ELSE 0) = Len(hs) - 1
      <4> DEFINE n == Len(hs)
      <4>1. n \in Nat \ {0}
        BY <2>1
      <4> HIDE DEF n
      <4>2. (IF 1 <= n - 1 THEN (n - 1) - 1 + 1 ELSE 0) = n - 1
        BY <4>1
      <4>3. QED
        BY <4>2 DEF n
    <3> HIDE DEF r
    <3>5. Len(r) = Len(hs) - 1
      BY <3>2, <3>4
    <3>6. QED
      BY <3>3, <3>5
  <2> HIDE DEF r
  <2>3. ASSUME NEW i \in 1..Len(r) PROVE Len(r[i]) <= (h - 1) - (Len(r) - i)
    <3>1. i \in 1..Len(hs) /\ r[i] = hs[i] /\ h - (Len(hs) - i) = (h - 1) - (Len(r) - i)
      BY <2>1, <2>2
    <3>2. Len(hs[i]) <= h - (Len(hs) - i)
      BY <1>3, <3>1 DEF Below
    <3>3. QED
      BY <3>1, <3>2
  <2>4. QED
    BY <1>2, <1>5, <2>2, <2>3 DEF Below, hs
<1>6. QED
  BY <1>4, <1>5

\* t is s without some rows of undo data ...
Trims(s, t, B) ==
    /\ Held(t, B) /\ t.view.block = s.view.block
    /\ t.view.undo \subseteq s.view.undo

\* ... which are at most at height h.
Deep(s, t, h) ==
    \A r \in s.view.undo : r \in t.view.undo \/ Height(r.block) <= h

\* What the first pruning drops is below the queue.
LEMMA InitialPruneView ==
    ASSUME NEW B, NEW q \in Queue, NEW b \in Seq(Labels),
           NEW s, GoodStore(s), Held(s, B)
    PROVE  /\ Trims(s, InitialPruneStore(q, b, s), B)
           /\ Deep(s, InitialPruneStore(q, b, s), Len(b) - q.nBlocks)
           /\ InitialPruneStore(q, b, s).disk \in {s.disk, InitialPruneStore(q, b, s).view}
<1> DEFINE f == FrontHeight(q, b)
           v == PruneUndoData(s.view, f - 1)
<1>1. s \in Store /\ s.view \in Database /\ DatabaseCorrect(s.view)
  BY DEF GoodStore, Store
<1>2. f = Len(b) + 1 - Len(q.hashes) /\ Len(b) \in Nat /\ Len(q.hashes) \in Nat
      /\ q.nBlocks \in Nat
  BY QueueTypes, LenProperties DEF FrontHeight
<1>3. CASE FillsUp(q) /\ f > 0
  <2>1. InitialPruneStore(q, b, s) = Commit(s, v)
    BY <1>3 DEF InitialPruneStore
  <2>2. /\ v \in Database /\ v.block = s.view.block
        /\ v.undo = {r \in s.view.undo : r.height > f - 1}
    BY <1>1 DEF PruneUndoData, Database
  <2> HIDE DEF v, f
  <2>3. Held(Commit(s, v), B)
    BY <1>1, <2>2, HeldDrop
  <2>4. Commit(s, v).view = v /\ Commit(s, v).disk \in {s.disk, v}
    BY <1>1, <2>2, CommitFields
  <2>5. ASSUME NEW r \in s.view.undo, r \notin v.undo
        PROVE  Len(r.block) <= Len(b) - q.nBlocks
    <3>1. r.block \in Seq(Labels) /\ r.height = Len(r.block)
      BY <1>1, RowIsRowOf
    <3>2. ~(Len(r.block) > f - 1) /\ Len(r.block) \in Nat
      BY <2>2, <2>5, <3>1, LenProperties
    <3>3. q.nBlocks <= Len(q.hashes)
      BY <1>2, <1>3 DEF FillsUp
    <3> DEFINE x == Len(r.block)
               n == q.nBlocks
               l == Len(q.hashes)
               y == Len(b)
    <3>4. /\ x \in Nat /\ n \in Nat /\ l \in Nat /\ y \in Nat /\ f = y + 1 - l
          /\ ~(x > f - 1) /\ n <= l
      BY <1>2, <3>2, <3>3
    <3> HIDE DEF x, n, l, y
    <3>5. x <= y - n
      BY <3>4
    <3>6. QED
      BY <3>5 DEF x, n, y
  <2>6. Trims(s, Commit(s, v), B)
    BY <2>2, <2>3, <2>4 DEF Trims
  <2>7. Deep(s, Commit(s, v), Len(b) - q.nBlocks)
    BY <2>4, <2>5 DEF Deep
  <2>8. QED
    BY <2>1, <2>4, <2>6, <2>7
<1>4. CASE ~(FillsUp(q) /\ f > 0)
  <2>1. InitialPruneStore(q, b, s) = s
    BY <1>4 DEF InitialPruneStore
  <2>2. QED
    BY <2>1 DEF Trims, Deep
<1>5. QED
  BY <1>3, <1>4

\* A hash in front of a queue below h is nBlocks deep.
LEMMA TooLongDeep ==
    ASSUME NEW q \in Queue, NEW h \in Int, Below(q.hashes, h),
           NEW i \in 1..Len(q.hashes), i <= Len(q.hashes) - q.nBlocks
    PROVE  Len(q.hashes[i]) <= h - q.nBlocks
<1> DEFINE n == Len(q.hashes)
           x == Len(q.hashes[i])
           k == q.nBlocks
<1>1. n \in Nat /\ k \in Nat /\ q.hashes[i] \in Seq(Labels)
  BY QueueTypes, ElementOfSeq
<1>2. x \in Nat /\ x <= h - (n - i) /\ i \in Int /\ i <= n - k
  BY <1>1, LenProperties DEF Below
<1> HIDE DEF n, x, k
<1>3. x <= h - k
  BY <1>1, <1>2
<1>4. QED
  BY <1>3 DEF x, k

\* PruneIfTooLong drops what is in front of the queue.
LEMMA TooLongView ==
    ASSUME NEW B, NEW q \in Queue, NEW s, GoodStore(s), Held(s, B), NEW h \in Int
    PROVE  /\ Trims(s, PruneIfTooLongStore(q, s), B)
           /\ Below(q.hashes, h) => Deep(s, PruneIfTooLongStore(q, s), h - q.nBlocks)
<1> DEFINE E == Excess(q)
           F == {q.hashes[i] : i \in 1..E}
           v == ReleaseUndoData(s.view, F)
<1>1. s \in Store /\ s.view \in Database
  BY DEF GoodStore, Store
<1>2. Len(q.hashes) \in Nat /\ q.nBlocks \in Nat
  BY QueueTypes
<1>3. CASE E # 0
  <2>1. PruneIfTooLongStore(q, s) = Commit(s, v)
    BY <1>3 DEF PruneIfTooLongStore
  <2>2. E = Len(q.hashes) - q.nBlocks /\ E \in Nat /\ E <= Len(q.hashes)
    BY <1>2, <1>3 DEF Excess
  <2>3. /\ v \in Database /\ v.block = s.view.block
        /\ v.undo = {r \in s.view.undo : r.block \notin F}
    BY <1>1 DEF ReleaseUndoData, Database
  <2> HIDE DEF v, E
  <2>4. Held(Commit(s, v), B)
    BY <1>1, <2>3, HeldDrop
  <2>5. Commit(s, v).view = v
    BY <1>1, <2>3, CommitFields
  <2>6. ASSUME Below(q.hashes, h), NEW r \in s.view.undo, r \notin v.undo
        PROVE  Len(r.block) <= h - q.nBlocks
    <3>1. PICK i \in 1..E : r.block = q.hashes[i]
      BY <2>3, <2>6
    <3>2. i \in 1..Len(q.hashes) /\ i <= Len(q.hashes) - q.nBlocks
      BY <1>2, <2>2
    <3>3. Len(q.hashes[i]) <= h - q.nBlocks
      BY <2>6, <3>2, TooLongDeep
    <3>4. QED
      BY <3>1, <3>3
  <2>7. Trims(s, Commit(s, v), B)
    BY <2>3, <2>4, <2>5 DEF Trims
  <2>8. Below(q.hashes, h) => Deep(s, Commit(s, v), h - q.nBlocks)
    BY <2>5, <2>6 DEF Deep
  <2>9. QED
    BY <2>1, <2>7, <2>8
<1>4. CASE E = 0
  <2>1. PruneIfTooLongStore(q, s) = s
    BY <1>4 DEF PruneIfTooLongStore
  <2>2. QED
    BY <2>1 DEF Trims, Deep
<1>5. QED
  BY <1>3, <1>4

\* AttachBlock drops what is at least nBlocks below the attached block.
LEMMA AttachBlockView ==
    ASSUME NEW B, NEW q \in Queue, NEW b \in Seq(Labels),
           NEW s, GoodStore(s), Held(s, B)
    PROVE  /\ Trims(s, AttachBlockStore(q, b, s), B)
           /\ Below(Push(q, b).hashes, Len(b)) =>
                 Deep(s, AttachBlockStore(q, b, s), Len(b) - q.nBlocks)
<1> DEFINE p == Push(q, b)
           j == InitialPrune(p)
           s1 == InitialPruneStore(p, b, s)
           t == PruneIfTooLongStore(j, s1)
<1>1. p \in Queue /\ j \in Queue /\ j.hashes = p.hashes /\ Len(b) \in Int
  BY QueueTypes, LenProperties
<1>2. p.nBlocks = q.nBlocks /\ j.nBlocks = q.nBlocks
  BY <1>1 DEF Push, InitialPrune, Queue
<1>3. AttachBlockStore(q, b, s) = t
  BY DEF AttachBlockStore
<1> HIDE DEF p, j
<1>4. Trims(s, s1, B) /\ Deep(s, s1, Len(b) - p.nBlocks)
  BY <1>1, InitialPruneView
<1>5. GoodStore(s1)
  BY <1>1, InitialPruneGood DEF SameBlock
<1> HIDE DEF s1
<1>6. Held(s1, B)
  BY <1>4 DEF Trims
<1>7. /\ Trims(s1, t, B)
      /\ Below(j.hashes, Len(b)) => Deep(s1, t, Len(b) - j.nBlocks)
  BY <1>1, <1>5, <1>6, TooLongView
<1> HIDE DEF t
<1>8. Trims(s, t, B)
  BY <1>4, <1>7 DEF Trims
<1>9. Below(p.hashes, Len(b)) => Deep(s, t, Len(b) - q.nBlocks)
  BY <1>1, <1>2, <1>4, <1>7 DEF Deep
<1>10. QED
  BY <1>3, <1>8, <1>9 DEF p

\* ... and keeps the rest of its queue below that block.
LEMMA AttachBlockQueue ==
    ASSUME NEW q \in Queue, NEW b \in Seq(Labels), Below(q.hashes, Len(b) - 1)
    PROVE  /\ AttachBlock(q, b) \in Queue /\ AttachBlock(q, b).nBlocks = q.nBlocks
           /\ Below(Push(q, b).hashes, Len(b))
           /\ Below(AttachBlock(q, b).hashes, Len(b))
           /\ Len(AttachBlock(q, b).hashes) \in Nat
           /\ Len(AttachBlock(q, b).hashes) <= q.nBlocks
           /\ Len(AttachBlock(q, b).hashes) <= Len(q.hashes) + 1
<1> DEFINE p == Push(q, b)
           j == InitialPrune(p)
           E == Excess(j)
           a == DropFront(j, E)
<1>1. AttachBlock(q, b) = a
  BY DEF AttachBlock, PruneIfTooLong
<1>2. Below(p.hashes, Len(b))
  BY BelowPush
<1>3. /\ p \in Queue /\ j \in Queue /\ j.hashes = p.hashes
      /\ Len(q.hashes) \in Nat /\ q.nBlocks \in Nat /\ Len(b) \in Nat /\ Len(b) \in Int
  BY QueueTypes, LenProperties
<1>4. Len(p.hashes) = Len(q.hashes) + 1
  <2>1. p.hashes = Append(q.hashes, b) /\ q.hashes \in Seq(Seq(Labels))
    BY QueueTypes DEF Push, Queue
  <2>2. QED
    BY <2>1, AppendProperties
<1>5. p.nBlocks = q.nBlocks /\ j.nBlocks = q.nBlocks
  BY <1>3 DEF Push, InitialPrune, Queue
<1> HIDE DEF p, j
<1>6. /\ E \in 0..Len(j.hashes)
      /\ E = IF Len(j.hashes) > j.nBlocks THEN Len(j.hashes) - j.nBlocks ELSE 0
  BY <1>3, QueueTypes DEF Excess
<1>7. a.nBlocks = j.nBlocks
  BY <1>3 DEF DropFront, Queue
<1> HIDE DEF E
<1>8. a \in Queue
  BY <1>3, <1>6, QueueTypes
<1>9. Below(a.hashes, Len(b)) /\ Len(a.hashes) = Len(j.hashes) - E
  BY <1>2, <1>3, <1>6, BelowDrop
<1> HIDE DEF a
<1> DEFINE n == Len(j.hashes)
           l == Len(a.hashes)
           m == Len(q.hashes)
           k == q.nBlocks
<1>10. /\ n = m + 1 /\ m \in Nat /\ k \in Nat /\ l = n - E /\ E \in 0..n
       /\ E = IF n > k THEN n - k ELSE 0
  BY <1>3, <1>4, <1>5, <1>6, <1>9
<1> HIDE DEF n, l, m, k
<1>11. l \in Nat /\ l <= k /\ l <= m + 1
  BY <1>10
<1>12. QED
  BY <1>1, <1>2, <1>5, <1>7, <1>8, <1>9, <1>11 DEF l, k, m, p

\* SetDesiredSize drops what is at least the new size below.
LEMMA SetDesiredSizeView ==
    ASSUME NEW B, NEW q \in Queue, NEW n \in Nat, NEW h \in Int,
           NEW s, GoodStore(s), Held(s, B)
    PROVE  /\ Trims(s, SetDesiredSizeStore(q, n, s), B)
           /\ SetDesiredSize(q, n) \in Queue /\ SetDesiredSize(q, n).nBlocks = n
           /\ Below(q.hashes, h) =>
                 /\ Deep(s, SetDesiredSizeStore(q, n, s), h - n)
                 /\ Below(SetDesiredSize(q, n).hashes, h)
           /\ Len(SetDesiredSize(q, n).hashes) \in Nat
           /\ Len(SetDesiredSize(q, n).hashes) <= n
           /\ Len(SetDesiredSize(q, n).hashes) <= Len(q.hashes)
<1> DEFINE j == [q EXCEPT !.nBlocks = n]
           t == PruneIfTooLongStore(j, s)
           E == Excess(j)
           a == DropFront(j, E)
<1>1. j \in Queue /\ j.nBlocks = n /\ j.hashes = q.hashes
  BY DEF Queue
<1>2. SetDesiredSizeStore(q, n, s) = t /\ SetDesiredSize(q, n) = a
  BY DEF SetDesiredSizeStore, SetDesiredSize, PruneIfTooLong
<1> HIDE DEF j
<1>3. Trims(s, t, B) /\ (Below(j.hashes, h) => Deep(s, t, h - j.nBlocks))
  BY <1>1, TooLongView
<1> HIDE DEF t
<1>5. /\ E \in 0..Len(j.hashes) /\ Len(j.hashes) \in Nat
      /\ E = IF Len(j.hashes) > j.nBlocks THEN Len(j.hashes) - j.nBlocks ELSE 0
  BY <1>1, QueueTypes DEF Excess
<1>6. a.nBlocks = n
  BY <1>1 DEF DropFront, Queue
<1> HIDE DEF E
<1>7. a \in Queue
  BY <1>1, <1>5, QueueTypes
<1>8. Below(j.hashes, h) => Below(a.hashes, h)
  BY <1>1, <1>5, BelowDrop
<1>a. Len(a.hashes) = Len(j.hashes) - E
  <2>1. j.hashes \in Seq(Seq(Labels))
    BY <1>1, QueueTypes
  <2>2. a.hashes = SubSeq(j.hashes, E + 1, Len(j.hashes))
    BY <1>1 DEF DropFront, Queue
  <2> DEFINE m == Len(j.hashes)
  <2>3. m \in Nat /\ E \in 0..m
    BY <1>5
  <2>4. Len(SubSeq(j.hashes, E + 1, m)) = IF E + 1 <= m THEN m - (E + 1) + 1 ELSE 0
    <3>1. E + 1 \in 1..(m + 1) /\ m \in 0..m
      <4> HIDE DEF m
      <4>1. QED
        BY <2>3
    <3>2. QED
      BY <2>1, <3>1, SubSeqProperties
  <2>5. (IF E + 1 <= m THEN m - (E + 1) + 1 ELSE 0) = m - E
    <3> HIDE DEF m
    <3>1. QED
      BY <2>3
  <2>6. QED
    BY <2>2, <2>4, <2>5
<1> HIDE DEF a
<1> DEFINE m == Len(j.hashes)
           l == Len(a.hashes)
<1>9. m \in Nat /\ l = m - E /\ E \in 0..m /\ E = IF m > n THEN m - n ELSE 0
  BY <1>1, <1>5, <1>a
<1> HIDE DEF l, m
<1>10. l \in Nat /\ l <= n /\ l <= m
  BY <1>9
<1>11. QED
  BY <1>1, <1>2, <1>3, <1>6, <1>7, <1>8, <1>10 DEF l, m

-----------------------------------------------------------------------------
(***************************************************************************)
(* The undo data of the last n blocks of the current chain is there.       *)
(***************************************************************************)
UndoKept(db, n) ==
    \A c \in Seq(Labels) :
        (/\ OnChain(c, db.block)
         /\ Height(c) > Height(Genesis)
         /\ Height(c) > Height(db.block) - n) => UndoDataOf(db, c) # {}

\* Rows are dropped that are at least n deep, and m of the others count on.
LEMMA KeptDrop ==
    ASSUME NEW db, NEW db2, db.block \in Seq(Labels), db2.block = db.block,
           NEW n \in Nat, NEW m \in Nat, NEW l \in Nat, m <= n, m <= l,
           \A r \in db.undo : r \in db2.undo \/ Len(r.block) <= Len(db.block) - n,
           UndoKept(db, l)
    PROVE  UndoKept(db2, m)
<1> SUFFICES ASSUME NEW c \in Seq(Labels), OnChain(c, db.block),
                    Len(c) > Len(Genesis), Len(c) > Len(db.block) - m
             PROVE  UndoDataOf(db2, c) # {}
  BY DEF UndoKept
<1> DEFINE x == Len(c)
           y == Len(db.block)
<1>1. x \in Nat /\ y \in Nat /\ x > y - m
  BY LenProperties
<1> HIDE DEF x, y
<1>2. x > y - l /\ ~(x <= y - n)
  BY <1>1
<1>3. PICK r \in UndoDataOf(db, c) : TRUE
  BY <1>2 DEF UndoKept, x, y
<1>4. r \in db.undo /\ r.block = c
  BY <1>3 DEF UndoDataOf
<1>5. r \in db2.undo
  BY <1>2, <1>4 DEF x, y
<1>6. QED
  BY <1>4, <1>5 DEF UndoDataOf

\* A block is attached with its undo data.
LEMMA KeptAttach ==
    ASSUME NEW db, NEW v, NEW b \in Seq(Labels) \ {<<>>}, db.block = Parent(b),
           v.block = b, v.undo = db.undo \cup {RowOf(b)}, NEW n \in Nat,
           UndoKept(db, n)
    PROVE  UndoKept(v, n + 1)
<1>1. /\ b \in Seq(Labels) /\ Parent(b) \in Seq(Labels) /\ Len(Parent(b)) = Len(b) - 1
      /\ Len(b) \in Nat
  BY ParentType
<1> SUFFICES ASSUME NEW c \in Seq(Labels), OnChain(c, b),
                    Len(c) > Len(Genesis), Len(c) > Len(b) - (n + 1)
             PROVE  UndoDataOf(v, c) # {}
  BY DEF UndoKept
<1>2. CASE c = b
  <2>1. RowOf(b) \in v.undo /\ RowOf(b).block = b
    BY DEF RowOf
  <2>2. QED
    BY <1>2, <2>1 DEF UndoDataOf
<1>3. CASE c # b
  <2>1. OnChain(c, Parent(b))
    BY <1>3, OnChainTop
  <2>2. Len(c) > Len(Parent(b)) - n
    <3> DEFINE x == Len(c)
               y == Len(b)
               z == Len(Parent(b))
    <3>1. x \in Nat /\ y \in Nat /\ z = y - 1 /\ x > y - (n + 1)
      BY <1>1, LenProperties
    <3> HIDE DEF x, y, z
    <3>2. x > z - n
      BY <3>1
    <3>3. QED
      BY <3>2 DEF x, z
  <2>3. PICK r \in UndoDataOf(db, c) : TRUE
    BY <2>1, <2>2 DEF UndoKept
  <2>4. QED
    BY <2>3 DEF UndoDataOf
<1>4. QED
  BY <1>2, <1>3

\* A block is detached.
LEMMA KeptDetach ==
    ASSUME NEW db, NEW v, NEW b \in Seq(Labels) \ {<<>>}, db.block = b,
           v.block = Parent(b), v.undo = {x \in db.undo : x.block # b},
           NEW n \in Nat, NEW m \in Nat, m = 0 \/ m + 1 <= n, UndoKept(db, n)
    PROVE  UndoKept(v, m)
<1>1. /\ b \in Seq(Labels) /\ Parent(b) \in Seq(Labels) /\ Len(Parent(b)) = Len(b) - 1
      /\ Len(b) \in Nat
  BY ParentType
<1> SUFFICES ASSUME NEW c \in Seq(Labels), OnChain(c, Parent(b)),
                    Len(c) > Len(Genesis), Len(c) > Len(Parent(b)) - m
             PROVE  UndoDataOf(v, c) # {}
  BY DEF UndoKept
<1> DEFINE x == Len(c)
           y == Len(b)
           z == Len(Parent(b))
<1>2. x \in Nat /\ y \in Nat /\ z = y - 1 /\ x > z - m /\ x <= z
  BY <1>1, LenProperties DEF OnChain
<1> HIDE DEF x, y, z
<1>3. x > y - n /\ x # y
  BY <1>2
<1>4. OnChain(c, b)
  BY OnChainOfParent
<1>5. PICK r \in UndoDataOf(db, c) : TRUE
  BY <1>3, <1>4 DEF UndoKept, x, y
<1>6. r \in db.undo /\ r.block = c /\ c # b
  BY <1>3, <1>5 DEF UndoDataOf, x, y
<1>7. QED
  BY <1>6 DEF UndoDataOf

\* Nothing to keep.
LEMMA KeptNone ==
    ASSUME NEW db, db.block \in Seq(Labels)
    PROVE  /\ UndoKept(db, 0)
           /\ db.block = Genesis => \A n \in Nat : UndoKept(db, n)
<1>1. UndoKept(db, 0)
  <2> SUFFICES ASSUME NEW c \in Seq(Labels), Len(c) <= Len(db.block),
                      Len(c) > Len(db.block) - 0
               PROVE  FALSE
    BY DEF UndoKept, OnChain
  <2>1. Len(c) \in Nat /\ Len(db.block) \in Nat
    BY LenProperties
  <2>2. QED
    BY <2>1
<1>2. ASSUME db.block = Genesis, NEW n \in Nat PROVE UndoKept(db, n)
  <2> SUFFICES ASSUME NEW c \in Seq(Labels), Len(c) <= Len(Genesis),
                      Len(c) > Len(Genesis)
               PROVE  FALSE
    BY <1>2 DEF UndoKept, OnChain
  <2>1. Len(c) \in Nat /\ Len(Genesis) \in Nat
    BY LenProperties, BlockchainAssumption
  <2>2. QED
    BY <2>1
<1>3. QED
  BY <1>1, <1>2

\* ... or none to keep it for.
LEMMA KeptFewer ==
    ASSUME NEW db, db.block \in Seq(Labels), NEW n \in Nat, NEW m \in Nat, m <= n,
           UndoKept(db, n)
    PROVE  UndoKept(db, m)
<1>1. \A r \in db.undo : r \in db.undo \/ Len(r.block) <= Len(db.block) - n
  OBVIOUS
<1>2. QED
  BY <1>1, KeptDrop

-----------------------------------------------------------------------------
(***************************************************************************)
(* The invariant.  A walk and a route are known by where they start: the   *)
(* block w the next ordinary notification starts from.                     *)
(***************************************************************************)
OnWalk(q, t, a) == \E W : Walk(q, t, W) /\ W[0] = a

OnRoute(q, b, w) == \E W : Route(q, b, W) /\ W[0] = w

\* The blocks the storage may be at: the tip itself only once the ordinary
\* notifications have come to it, or as the genesis block.
SettledBlocks(b, w) ==
    {x \in Seq(Labels) : /\ OnChain(Genesis, x)
                         /\ x = Genesis \/ w = b \/ Height(x) < Height(b)}
    \cup {NoBlock}

Hashes(p) == IF p = NoPruning THEN <<>> ELSE p.hashes

\* The route is at the current block, or still below the genesis block whose
\* state was stored already.
At(w, c) == w = c \/ (c = Genesis /\ Height(w) < Height(Genesis))

\* What the hashes hs say of the database, in sync state st.
Kept(st, db, hs, q, k, b, w) ==
    /\ st = "UNKNOWN" => hs = <<>>
    /\ st = "PREGENESIS" =>
          ~HasState(db) /\ Height(w) < Height(Genesis) /\ Below(hs, Height(w))
    /\ st = "UP_TO_DATE" =>
          /\ HasState(db) /\ UndoKept(db, Len(hs))
          /\ At(w, db.block) /\ Below(hs, Height(w))
    /\ st \in {"OUT_OF_SYNC", "CATCHING_UP"} =>
          /\ HasState(db) /\ UndoKept(db, Len(hs))
          /\ Below(hs, Height(db.block)) /\ Height(b) > Height(Genesis)
    /\ st = "CATCHING_UP" => OnWalk(q, k, db.block)

LowTokens(q, t) == \A i \in 1..Len(q) : q[i].token <= t

PruneInv ==
    /\ LowTokens(queue, lastToken)
    /\ state = "CATCHING_UP" => reqToken # NoToken
    /\ \E w \in Seq(Labels) :
          /\ OnRoute(queue, tip, w)
          /\ Held(store, SettledBlocks(tip, w))
          /\ Undisturbed => Kept(state, store.view, Hashes(pruning), queue,
                                 reqToken, tip, w)

\* The rows db2 lacks are off its chain or at least n deep.
Keeps(db, db2, n) ==
    \A r \in db.undo :
        \/ r \in db2.undo
        \/ ~HasState(db2) \/ ~OnChain(r.block, db2.block)
        \/ Height(db2.block) - Height(r.block) >= n

\* What is to be shown of a step.
PruneStep ==
    /\ PruneInv'
    /\ Undisturbed' /\ pruning' # NoPruning =>
          Keeps(store.view, store'.view, pruning'.nBlocks)

\* A route starts near the genesis block and at most at the tip.
LEMMA OnRouteStart ==
    ASSUME NEW q \in Seq(Message), NEW b, NEW w, OnRoute(q, b, w)
    PROVE  /\ w \in Seq(Labels) /\ NearGenesis(w) /\ UpTo(w, b)
           /\ b \in Seq(Labels) /\ NearGenesis(b)
<1>1. PICK W : Route(q, b, W) /\ W[0] = w
  BY DEF OnRoute
<1>2. 0 \in 0..Len(q) /\ Len(q) \in 0..Len(q)
  BY LenProperties
<1>3. QED
  BY <1>1, <1>2 DEF Route, Walk

\* The route and the walk of a message m that is taken from the queue.
Takes(m, w, x, b) ==
    /\ w \in Seq(Labels) /\ NearGenesis(w) /\ UpTo(w, b)
    /\ x \in Seq(Labels) /\ NearGenesis(x) /\ UpTo(x, b)
    /\ WalkStep(m, NoToken, w, x) /\ RouteStep(m, w, x, b)

\* Taking the first message is the first step of the route.
LEMMA OnRouteTail ==
    ASSUME NEW q \in Seq(Message), q # <<>>, NEW b, NEW w, OnRoute(q, b, w)
    PROVE  \E x : OnRoute(Tail(q), b, x) /\ Takes(Head(q), w, x, b)
<1>1. PICK W : Route(q, b, W) /\ W[0] = w
  BY DEF OnRoute
<1>2. /\ Route(Tail(q), b, Onward(W, q))
      /\ WalkStep(Head(q), NoToken, W[0], W[1])
      /\ RouteStep(Head(q), W[0], W[1], b)
      /\ Onward(W, q)[0] = W[1]
      /\ W[0] \in Seq(Labels) /\ W[1] \in Seq(Labels)
      /\ NearGenesis(W[0]) /\ UpTo(W[0], b)
      /\ NearGenesis(W[1]) /\ UpTo(W[1], b)
  BY <1>1, RouteTail, Zenon
<1>3. OnRoute(Tail(q), b, W[1])
  BY <1>2 DEF OnRoute
<1>4. Takes(Head(q), w, W[1], b)
  BY <1>1, <1>2 DEF Takes
<1>5. QED
  BY <1>3, <1>4

\* Taking the first message is the first step of a walk known by its start.
LEMMA OnWalkTail ==
    ASSUME NEW q \in Seq(Message), q # <<>>, NEW t, NEW a, OnWalk(q, t, a)
    PROVE  \E x \in Seq(Labels) : OnWalk(Tail(q), t, x) /\ WalkStep(Head(q), t, a, x)
<1>1. PICK W : Walk(q, t, W) /\ W[0] = a
  BY DEF OnWalk
<1>2. /\ Walk(Tail(q), t, Onward(W, q))
      /\ WalkStep(Head(q), t, W[0], W[1])
      /\ Onward(W, q)[0] = W[1]
      /\ W[0] \in Seq(Labels) /\ W[1] \in Seq(Labels)
  BY <1>1, WalkTail, Zenon
<1>3. OnWalk(Tail(q), t, W[1])
  BY <1>2 DEF OnWalk
<1>4. QED
  BY <1>1, <1>2, <1>3

\* What is settled stays so when a message is taken.
LEMMA SettledTakes ==
    ASSUME NEW m, NEW w, NEW x, NEW b \in Seq(Labels), Takes(m, w, x, b)
    PROVE  SettledBlocks(b, w) \subseteq SettledBlocks(b, x)
<1>1. w = b => x = b
  <2>1. Len(b) \in Nat
    BY LenProperties
  <2>2. w = b => m.token # NoToken
    BY <2>1 DEF Takes, RouteStep, Ordinary
  <2>3. QED
    BY <2>2 DEF Takes, WalkStep
<1>2. QED
  BY <1>1 DEF SettledBlocks

\* Held for more blocks.
LEMMA HeldMore ==
    ASSUME NEW s, NEW A, NEW B, A \subseteq B, Held(s, A)
    PROVE  Held(s, B)
BY DEF Held

\* What a settled block is.
LEMMA SettledBlock ==
    ASSUME NEW b, NEW w, NEW x \in SettledBlocks(b, w), x # NoBlock
    PROVE  /\ x \in Seq(Labels) /\ OnChain(Genesis, x) /\ NearGenesis(x)
           /\ Len(Genesis) <= Len(x)
           /\ x = Genesis \/ w = b \/ Len(x) < Len(b)
<1>1. x \in Seq(Labels) /\ OnChain(Genesis, x)
      /\ (x = Genesis \/ w = b \/ Len(x) < Len(b))
  BY DEF SettledBlocks
<1>2. QED
  BY <1>1 DEF NearGenesis, OnChain

\* The initial state can always be stored.
LEMMA SettledGenesis ==
    ASSUME NEW b, NEW w
    PROVE  {NoBlock, Genesis} \subseteq SettledBlocks(b, w)
<1>1. OnChain(Genesis, Genesis)
  <2>1. Len(Genesis) \in Nat /\ Genesis \in Seq(Labels)
    BY BlockchainAssumption, LenProperties
  <2>2. QED
    BY <2>1, OnChainParts
<1>2. QED
  BY <1>1, BlockchainAssumption DEF SettledBlocks

\* At the genesis height there is only the genesis block.
LEMMA AtGenesis ==
    ASSUME NEW b \in Seq(Labels), NearGenesis(b)
    PROVE  /\ Len(b) = Len(Genesis) => b = Genesis
           /\ Len(Genesis) <= Len(b) /\ b # Genesis => Len(Genesis) < Len(b)
<1>1. Len(b) \in Nat /\ Len(Genesis) \in Nat /\ Genesis \in Seq(Labels)
  BY BlockchainAssumption, LenProperties
<1>2. ASSUME Len(b) = Len(Genesis) PROVE b = Genesis
  <2>1. Prefix(b, Len(b)) = b /\ Prefix(Genesis, Len(Genesis)) = Genesis
    BY <1>1, PrefixSelf
  <2>2. QED
    BY <1>2, <2>1 DEF NearGenesis, OnChain
<1>3. QED
  BY <1>1, <1>2

\* No undo data is needed for the genesis block's chain, nor without a state.
LEMMA KeepsNone ==
    ASSUME NEW db \in Database, DatabaseCorrect(db), NEW db2, NEW n,
           db2.block \in {Genesis, NoBlock}
    PROVE  Keeps(db, db2, n)
<1> SUFFICES ASSUME NEW r \in db.undo, db2.block = Genesis PROVE ~OnChain(r.block, Genesis)
  BY DEF Keeps, HasState
<1>1. r.block \in Seq(Labels) /\ Len(r.block) > Len(Genesis)
  BY RowIsRowOf
<1>2. Len(r.block) \in Nat /\ Len(Genesis) \in Nat
  BY <1>1, BlockchainAssumption, LenProperties
<1>3. QED
  BY <1>1, <1>2 DEF OnChain

\* Rows at least n deep are dropped.
LEMMA KeepsDeep ==
    ASSUME NEW db, NEW s, NEW t, GoodStore(s), db.undo \subseteq s.view.undo,
           NEW n \in Nat, HasState(t.view) => t.view.block \in Seq(Labels),
           HasState(t.view) => Deep(s, t, Len(t.view.block) - n)
    PROVE  Keeps(db, t.view, n)
<1> SUFFICES ASSUME NEW r \in db.undo, r \notin t.view.undo, HasState(t.view)
             PROVE  Len(t.view.block) - Len(r.block) >= n
  BY DEF Keeps
<1>1. r \in s.view.undo /\ s.view \in Database /\ DatabaseCorrect(s.view)
  BY DEF GoodStore, Store
<1>2. r.block \in Seq(Labels)
  BY <1>1, RowIsRowOf
<1> DEFINE x == Len(r.block)
           y == Len(t.view.block)
<1>3. x \in Nat /\ y \in Nat
  BY <1>2, LenProperties
<1>4. x <= y - n
  BY <1>1 DEF Deep
<1> HIDE DEF x, y
<1>5. y - x >= n
  BY <1>3, <1>4
<1>6. QED
  BY <1>5 DEF x, y

\* What ReinitialiseState makes of database db: db2 and sync state st.
Restarted(db, db2, st, b) ==
    \/ /\ ~HasState(db) /\ Height(b) < Height(Genesis)
       /\ db2 = db /\ st = "PREGENESIS"
    \/ /\ \/ HasState(db) /\ db2 = db
          \/ ~HasState(db) /\ Height(b) >= Height(Genesis) /\ db2.block = Genesis
       /\ st = IF db2.block = b THEN "UP_TO_DATE" ELSE "OUT_OF_SYNC"

\* ReinitialiseState keeps the view or starts from the initial state.
LEMMA ReinitHeldIn ==
    ASSUME NEW s, GoodStore(s), ReinitialiseState(s), NEW B,
           {NoBlock, Genesis} \subseteq B, Held(s, B)
    PROVE  /\ Held(store', B)
           /\ Restarted(s.view, store'.view, state', tip)
           /\ HasState(s.view) /\ state' = "OUT_OF_SYNC" => store' = s
<1> DEFINE i == StoreInitialState(s)
<1>1. GoodStore(i)
  BY StoreInitialStateGood
<1>2. Held(i, B) /\ i.view.block = Genesis
  BY HeldInitial
<1> HIDE DEF i
<1>3. ASSUME NEW c, GoodStore(c), Held(c, B), SyncFromCurrentState(c)
      PROVE  /\ Held(store', B) /\ store'.view = c.view
             /\ state' = IF store'.view.block = tip THEN "UP_TO_DATE" ELSE "OUT_OF_SYNC"
             /\ state' = "OUT_OF_SYNC" => store' = c
  <2>1. c \in Store /\ 1 \in Nat \ {0}
    BY <1>3 DEF GoodStore
  <2>2. SetBatchSize(c, 1).view = c.view
    BY <1>3, <2>1, SetBatchSizeGood
  <2>3. Held(SetBatchSize(c, 1), B)
    BY <1>3, <2>1, HeldOperations
  <2>4. QED
    BY <1>3, <2>2, <2>3 DEF SyncFromCurrentState
<1>4. CASE HasState(s.view) /\ SyncFromCurrentState(s)
  BY <1>3, <1>4 DEF Restarted
<1>5. CASE ~HasState(s.view) /\ Len(tip) < Len(Genesis)
           /\ state' = "PREGENESIS" /\ store' = s
  BY <1>5 DEF Restarted
<1>6. CASE ~HasState(s.view) /\ Len(tip) >= Len(Genesis) /\ SyncFromCurrentState(i)
  BY <1>1, <1>2, <1>3, <1>6 DEF Restarted
<1>7. QED
  BY <1>4, <1>5, <1>6 DEF ReinitialiseState, i

\* ... among the blocks that are settled.
LEMMA ReinitHeld ==
    ASSUME NEW s, GoodStore(s), ReinitialiseState(s), NEW w,
           Held(s, SettledBlocks(tip, w))
    PROVE  /\ Held(store', SettledBlocks(tip, w))
           /\ Restarted(s.view, store'.view, state', tip)
BY SettledGenesis, ReinitHeldIn

\* When hashes hs may outlive ReinitialiseState.
ReinitReady(db, hs, b, w) ==
    /\ HasState(db) => Below(hs, Height(db.block)) /\ UndoKept(db, Len(hs))
    /\ b = Genesis \/ ~HasState(db) => Below(hs, Height(w))
    /\ ~HasState(db) => Below(hs, Height(Genesis))

\* Then they fit whatever ReinitialiseState makes of the database.
LEMMA ReinitKept ==
    ASSUME NEW b \in Seq(Labels), NearGenesis(b), NEW w \in Seq(Labels), UpTo(w, b),
           NEW db, NEW db2, NEW st, NEW hs, NEW q, NEW k, Len(hs) \in Nat,
           Restarted(db, db2, st, b), ReinitReady(db, hs, b, w),
           db2.block \in SettledBlocks(b, w), Low(db2, Len(b))
    PROVE  Kept(st, db2, hs, q, k, b, w)
<1>1. /\ Len(b) \in Nat /\ Len(w) \in Nat /\ Len(Genesis) \in Nat
      /\ Genesis \in Seq(Labels) /\ Genesis # NoBlock /\ NoBlock \notin Seq(Labels)
  BY BlockchainAssumption, LenProperties
<1>2. CASE ~HasState(db) /\ Len(b) < Len(Genesis) /\ db2 = db /\ st = "PREGENESIS"
  <2>1. Len(w) < Len(Genesis)
    BY <1>1, <1>2 DEF UpTo
  <2>2. Below(hs, Len(w))
    BY <1>2 DEF ReinitReady
  <2>3. QED
    BY <1>2, <2>1, <2>2 DEF Kept
<1>3. CASE /\ \/ HasState(db) /\ db2 = db
              \/ ~HasState(db) /\ Height(b) >= Height(Genesis) /\ db2.block = Genesis
           /\ st = IF db2.block = b THEN "UP_TO_DATE" ELSE "OUT_OF_SYNC"
  <2>1. HasState(db2)
    BY <1>1, <1>3 DEF HasState
  <2>2. /\ db2.block \in Seq(Labels) /\ Len(Genesis) <= Len(db2.block)
        /\ db2.block = Genesis \/ w = b \/ Len(db2.block) < Len(b)
    BY <2>1, SettledBlock DEF HasState
  <2>3. Len(db2.block) <= Len(b) /\ Len(db2.block) \in Nat
    BY <2>1, <2>2, LenProperties DEF Low
  <2>4. UndoKept(db2, Len(hs)) /\ Below(hs, Len(db2.block))
    <3>1. CASE HasState(db) /\ db2 = db
      BY <3>1 DEF ReinitReady
    <3>2. CASE ~HasState(db) /\ db2.block = Genesis
      <4>1. UndoKept(db2, Len(hs))
        BY <2>2, <3>2, KeptNone
      <4>2. QED
        BY <3>2, <4>1 DEF ReinitReady
    <3>3. QED
      BY <1>3, <3>1, <3>2
  <2>5. CASE db2.block = b
    <3>1. st = "UP_TO_DATE"
      BY <1>3, <2>5
    <3>2. CASE w = b
      BY <2>1, <2>4, <2>5, <3>1, <3>2 DEF Kept, At
    <3>3. CASE w # b
      <4>1. b = Genesis
        BY <1>1, <2>2, <2>5, <3>3
      <4>2. Len(w) < Len(Genesis)
        BY <3>3, <4>1 DEF UpTo
      <4>3. Below(hs, Len(w))
        BY <4>1 DEF ReinitReady
      <4>4. QED
        BY <2>1, <2>4, <2>5, <3>1, <4>1, <4>2, <4>3 DEF Kept, At
    <3>4. QED
      BY <3>2, <3>3
  <2>6. CASE db2.block # b
    <3>1. st = "OUT_OF_SYNC"
      BY <1>3, <2>6
    <3>2. Len(b) > Len(Genesis)
      <4>1. CASE Len(b) = Len(Genesis)
        <5>1. Len(db2.block) = Len(Genesis)
          BY <1>1, <2>2, <2>3, <4>1
        <5>2. NearGenesis(db2.block)
          BY <2>1, SettledBlock DEF HasState
        <5>3. QED
          BY <2>2, <2>6, <4>1, <5>1, <5>2, AtGenesis
      <4>2. QED
        BY <1>1, <2>2, <2>3, <4>1
    <3>3. QED
      BY <2>1, <2>4, <3>1, <3>2 DEF Kept
  <2>7. QED
    BY <2>5, <2>6
<1>4. QED
  BY <1>2, <1>3 DEF Restarted

\* No hashes are always fit.
LEMMA ReadyEmpty ==
    ASSUME NEW db, HasState(db) => db.block \in Seq(Labels), NEW b, NEW w
    PROVE  ReinitReady(db, <<>>, b, w)
<1>1. Len(<<>>) = 0 /\ 1..0 = {}
  OBVIOUS
<1>2. \A h : Below(<<>>, h)
  BY <1>1 DEF Below
<1>3. HasState(db) => UndoKept(db, 0)
  BY KeptNone
<1>4. QED
  BY <1>1, <1>2, <1>3 DEF ReinitReady

\* Nor do those of a sync state that has them.
LEMMA ReadyKept ==
    ASSUME NEW st \in States, NEW db, HasState(db) => db.block \in Seq(Labels),
           NEW hs \in Seq(Seq(Labels)), NEW q, NEW k,
           NEW b, NEW w \in Seq(Labels), Kept(st, db, hs, q, k, b, w)
    PROVE  ReinitReady(db, hs, b, w)
<1>1. Len(w) \in Int /\ Len(Genesis) \in Int
  BY BlockchainAssumption, LenProperties
<1>2. CASE st = "UNKNOWN"
  BY <1>2, ReadyEmpty DEF Kept
<1>3. CASE st = "PREGENESIS"
  <2>1. ~HasState(db) /\ Len(w) < Len(Genesis) /\ Below(hs, Len(w))
    BY <1>3 DEF Kept
  <2>2. Below(hs, Len(Genesis))
    BY <1>1, <2>1, BelowHigher
  <2>3. QED
    BY <2>1, <2>2 DEF ReinitReady
<1>4. CASE st = "UP_TO_DATE"
  <2>1. HasState(db) /\ UndoKept(db, Len(hs)) /\ At(w, db.block) /\ Below(hs, Len(w))
    BY <1>4 DEF Kept
  <2>2. Below(hs, Len(db.block))
    <3>1. CASE w = db.block
      BY <2>1, <3>1
    <3>2. CASE db.block = Genesis /\ Len(w) < Len(Genesis)
      BY <1>1, <2>1, <3>2, BelowHigher
    <3>3. QED
      BY <2>1, <3>1, <3>2 DEF At
  <2>3. QED
    BY <2>1, <2>2 DEF ReinitReady
<1>5. CASE st \in {"OUT_OF_SYNC", "CATCHING_UP"}
  <2>1. /\ HasState(db) /\ UndoKept(db, Len(hs)) /\ Below(hs, Len(db.block))
        /\ Len(b) > Len(Genesis)
    BY <1>5 DEF Kept
  <2>2. b # Genesis
    BY <1>1, <2>1
  <2>3. QED
    BY <2>1, <2>2 DEF ReinitReady
<1>6. QED
  BY <1>2, <1>3, <1>4, <1>5 DEF States

-----------------------------------------------------------------------------
(***************************************************************************)
(* The steps.                                                              *)
(***************************************************************************)

\* The hashes of the pruning queue.
LEMMA HashesType ==
    ASSUME NEW p \in Queue \cup {NoPruning}
    PROVE  /\ Hashes(p) \in Seq(Seq(Labels)) /\ Len(Hashes(p)) \in Nat
           /\ p # NoPruning => p \in Queue /\ Hashes(p) = p.hashes
<1>1. <<>> \in Seq(Seq(Labels)) /\ Len(<<>>) = 0 /\ 0 \in Nat
  OBVIOUS
<1>2. CASE p = NoPruning
  BY <1>1, <1>2 DEF Hashes
<1>3. CASE p # NoPruning
  <2>1. p \in Queue /\ Hashes(p) = p.hashes
    BY <1>3 DEF Hashes
  <2>2. QED
    BY <1>3, <2>1, QueueTypes
<1>4. QED
  BY <1>2, <1>3

\* After ReinitialiseState.
LEMMA PrunedReinit ==
    ASSUME NEW s, GoodStore(s), LowStore(s, Len(tip)), ReinitialiseState(s),
           tip \in Seq(Labels), tip' = tip, queue' \in Seq(Message),
           NEW x, OnRoute(queue', tip, x), LowTokens(queue', lastToken'),
           Held(s, SettledBlocks(tip, x)), pruning' \in Queue \cup {NoPruning},
           Undisturbed' => ReinitReady(s.view, Hashes(pruning'), tip, x)
    PROVE  PruneInv' /\ Restarted(s.view, store'.view, state', tip)
<1>1. x \in Seq(Labels) /\ UpTo(x, tip) /\ NearGenesis(tip)
  BY OnRouteStart
<1>2. /\ Held(store', SettledBlocks(tip, x))
      /\ Restarted(s.view, store'.view, state', tip)
  BY ReinitHeld
<1>3. LowStore(store', Height(tip))
  BY LowReinitialise
<1>4. store'.view.block \in SettledBlocks(tip, x) /\ Low(store'.view, Len(tip))
  BY <1>2, <1>3 DEF Held, LowStore
<1>5. Len(Hashes(pruning')) \in Nat
  BY HashesType
<1>6. Undisturbed' => Kept(state', store'.view, Hashes(pruning'), queue', reqToken',
                           tip, x)
  BY <1>1, <1>2, <1>4, <1>5, ReinitKept
<1>7. state' # "CATCHING_UP"
  BY <1>2 DEF Restarted
<1>8. PruneInv'
  BY <1>1, <1>2, <1>6, <1>7 DEF PruneInv
<1>9. QED
  BY <1>2, <1>8

\* ... nothing has been dropped.
LEMMA KeepsRestarted ==
    ASSUME NEW db \in Database, DatabaseCorrect(db), NEW db1, NEW db2, NEW st, NEW b,
           Restarted(db1, db2, st, b), NEW n, Keeps(db, db1, n)
    PROVE  Keeps(db, db2, n)
<1>1. CASE db2 = db1
  BY <1>1
<1>2. CASE db2.block = Genesis
  BY <1>2, KeepsNone
<1>3. QED
  BY <1>1, <1>2 DEF Restarted

\* A database keeps all of its own rows.
LEMMA KeepsSame ==
    ASSUME NEW db, NEW n
    PROVE  Keeps(db, db, n)
BY DEF Keeps

\* What every handler starts from.
HandlerStart(w, x) ==
    /\ OnRoute(queue', tip, x) /\ Takes(Head(queue), w, x, tip)
    /\ Held(store, SettledBlocks(tip, x))
    /\ Undisturbed => Kept(state, store.view, Hashes(pruning), queue, reqToken, tip, w)

\* The tokens of what is left of a queue.
LEMMA LowTokensTail ==
    ASSUME NEW q \in Seq(Message), q # <<>>, NEW t, LowTokens(q, t)
    PROVE  LowTokens(Tail(q), t)
<1>1. /\ Len(Tail(q)) = Len(q) - 1 /\ Len(q) \in Nat \ {0}
      /\ \A i \in 1..(Len(q) - 1) : Tail(q)[i] = q[i + 1]
  BY TailParts
<1>2. ASSUME NEW i \in 1..Len(Tail(q)) PROVE Tail(q)[i].token <= t
  <2>1. i \in 1..(Len(q) - 1) /\ i + 1 \in 1..Len(q)
    BY <1>1
  <2>2. Tail(q)[i] = q[i + 1] /\ q[i + 1].token <= t
    BY <1>1, <2>1 DEF LowTokens
  <2>3. QED
    BY <2>2
<1>3. QED
  BY <1>2 DEF LowTokens

\* Every handler takes the first message, and the invariant says where it is.
LEMMA ReceivePruned ==
    ASSUME IInv, PruneInv, NEW type \in Topics, Receive(type)
    PROVE  /\ \E w, x : HandlerStart(w, x)
           /\ tip' = tip /\ tip \in Seq(Labels)
           /\ queue' \in Seq(Message) /\ LowTokens(queue', lastToken')
           /\ state = "CATCHING_UP" => reqToken' # NoToken
           /\ queue \in Seq(Message) /\ queue # <<>> /\ queue' = Tail(queue)
           /\ Head(queue).type = type
<1>1. /\ queue \in Seq(Message) /\ queue # <<>> /\ queue' = Tail(queue)
      /\ tip' = tip /\ tip \in Seq(Labels) /\ lastToken' = lastToken
      /\ reqToken' = reqToken /\ Head(queue).type = type
  BY DEF IInv, TypeOK, Receive
<1>2. PICK w \in Seq(Labels) :
         /\ OnRoute(queue, tip, w)
         /\ Held(store, SettledBlocks(tip, w))
         /\ Undisturbed => Kept(state, store.view, Hashes(pruning), queue,
                                reqToken, tip, w)
  BY DEF PruneInv
<1>3. PICK x : OnRoute(Tail(queue), tip, x) /\ Takes(Head(queue), w, x, tip)
  BY <1>1, <1>2, OnRouteTail
<1>4. Held(store, SettledBlocks(tip, x))
  BY <1>1, <1>2, <1>3, SettledTakes, HeldMore
<1>5. HandlerStart(w, x)
  BY <1>1, <1>2, <1>3, <1>4 DEF HandlerStart
<1>6. LowTokens(queue', lastToken') /\ queue' \in Seq(Message)
  BY <1>1, LowTokensTail, TailParts DEF PruneInv
<1>7. QED
  BY <1>1, <1>5, <1>6 DEF PruneInv

\* A gap in the sequence numbers: the pruning queue is reset.
LEMMA MissedNotificationsPruned ==
    ASSUME IInv, IInv', CatchInv, PruneInv, NEW type \in Topics,
           MissedNotifications(type)
    PROVE  PruneStep
<1>1. Receive(type) /\ ReinitialiseState(store) /\ GoodStore(store)
  BY DEF MissedNotifications, IInv
<1>2. PICK w, x : HandlerStart(w, x)
  BY <1>1, ReceivePruned
<1>3. /\ tip' = tip /\ tip \in Seq(Labels) /\ queue' \in Seq(Message)
      /\ LowTokens(queue', lastToken')
  BY <1>1, ReceivePruned
<1>4. OnRoute(queue', tip, x) /\ Held(store, SettledBlocks(tip, x))
  BY <1>2 DEF HandlerStart
<1>5. /\ store.view \in Database /\ DatabaseCorrect(store.view)
      /\ HasState(store.view) => store.view.block \in Seq(Labels)
  BY <1>1 DEF GoodStore, Store, Database, HasState
<1>6. LowStore(store, Len(tip))
  BY DEF CatchInv
<1>7. pruning' \in Queue \cup {NoPruning} /\ pruning \in Queue \cup {NoPruning}
  BY DEF IInv, TypeOK
<1>8. Hashes(pruning') = <<>>
  <2>1. CASE pruning = NoPruning
    BY <2>1 DEF MissedNotifications, Hashes
  <2>2. CASE pruning # NoPruning
    <3>1. pruning' = Reset(pruning) /\ pruning \in Queue
      BY <1>7, <2>2 DEF MissedNotifications
    <3>2. Reset(pruning).hashes = <<>>
      BY <3>1 DEF Reset, Queue
    <3>3. QED
      BY <3>1, <3>2 DEF Hashes
  <2>3. QED
    BY <2>1, <2>2
<1>9. ReinitReady(store.view, Hashes(pruning'), tip, x)
  BY <1>5, <1>8, ReadyEmpty
<1>10. PruneInv' /\ Restarted(store.view, store'.view, state', tip)
  BY <1>1, <1>3, <1>4, <1>6, <1>7, <1>9, PrunedReinit
<1>11. Keeps(store.view, store'.view, pruning'.nBlocks)
  BY <1>5, <1>10, KeepsSame, KeepsRestarted
<1>12. QED
  BY <1>10, <1>11 DEF PruneStep

\* The ReinitialiseState of Start, whatever came in before it.
LEMMA StartReinitialisePruned ==
    ASSUME IInv, CatchInv, PruneInv, StartReinitialise
    PROVE  PruneStep
<1>1. ReinitialiseState(store) /\ GoodStore(store)
  BY DEF StartReinitialise, IInv
<1>2. /\ tip' = tip /\ queue' = queue /\ lastToken' = lastToken
      /\ reqToken' = reqToken /\ pruning' = pruning /\ used' = used
  BY DEF StartReinitialise, daemonVars
<1>3. PICK w \in Seq(Labels) :
         /\ OnRoute(queue, tip, w)
         /\ Held(store, SettledBlocks(tip, w))
         /\ Undisturbed => Kept(state, store.view, Hashes(pruning), queue,
                                reqToken, tip, w)
  BY DEF PruneInv
<1>4. /\ store.view \in Database /\ DatabaseCorrect(store.view)
      /\ HasState(store.view) => store.view.block \in Seq(Labels)
  BY <1>1 DEF GoodStore, Store, Database, HasState
<1>5. /\ tip \in Seq(Labels) /\ queue \in Seq(Message) /\ state \in States
      /\ pruning \in Queue \cup {NoPruning}
  BY DEF IInv, TypeOK
<1>6. LowStore(store, Len(tip)) /\ LowTokens(queue, lastToken)
  BY DEF CatchInv, PruneInv
<1>7. Undisturbed => ReinitReady(store.view, Hashes(pruning), tip, w)
  <2>1. Hashes(pruning) \in Seq(Seq(Labels))
    BY <1>5, HashesType
  <2>2. QED
    BY <1>3, <1>4, <1>5, <2>1, ReadyKept
<1>8. Undisturbed' => Undisturbed
  BY <1>2 DEF Undisturbed
<1>9. PruneInv' /\ Restarted(store.view, store'.view, state', tip)
  BY <1>1, <1>2, <1>3, <1>5, <1>6, <1>7, <1>8, PrunedReinit
<1>10. Keeps(store.view, store'.view, pruning'.nBlocks)
  BY <1>4, <1>9, KeepsSame, KeepsRestarted
<1>11. QED
  BY <1>9, <1>10 DEF PruneStep

\* A message that is not for Game leaves it where it is.
LEMMA IgnoreNotificationPruned ==
    ASSUME IInv, PruneInv, NEW type \in Topics, IgnoreNotification(type)
    PROVE  PruneStep
<1>1. /\ Receive(type) /\ ~IsReqtokenRelevant(Head(queue))
      /\ state' = state /\ store' = store /\ pruning' = pruning /\ used' = used
      /\ reqToken' = reqToken
  BY DEF IgnoreNotification, Receive
<1>2. PICK w, x : HandlerStart(w, x)
  BY <1>1, ReceivePruned
<1>3. /\ tip' = tip /\ queue \in Seq(Message) /\ queue # <<>> /\ queue' = Tail(queue)
      /\ LowTokens(queue', lastToken') /\ (state = "CATCHING_UP" => reqToken' # NoToken)
  BY <1>1, ReceivePruned
<1> DEFINE hs == Hashes(pruning)
<1>4. /\ OnRoute(queue', tip, x) /\ Takes(Head(queue), w, x, tip)
      /\ Held(store, SettledBlocks(tip, x))
      /\ Undisturbed => Kept(state, store.view, hs, queue, reqToken, tip, w)
  BY <1>2 DEF HandlerStart
<1>5. x \in Seq(Labels)
  BY <1>4 DEF Takes
<1>6. state # "CATCHING_UP" => x = w
  BY <1>1, <1>4 DEF IsReqtokenRelevant, Takes, WalkStep
<1>7. state = "CATCHING_UP" /\ OnWalk(queue, reqToken, store.view.block)
      => OnWalk(Tail(queue), reqToken, store.view.block)
  <2> SUFFICES ASSUME state = "CATCHING_UP", OnWalk(queue, reqToken, store.view.block)
               PROVE  OnWalk(Tail(queue), reqToken, store.view.block)
    OBVIOUS
  <2>1. PICK y \in Seq(Labels) : /\ OnWalk(Tail(queue), reqToken, y)
                                 /\ WalkStep(Head(queue), reqToken, store.view.block, y)
    BY <1>3, OnWalkTail
  <2>2. QED
    BY <1>1, <2>1 DEF WalkStep, IsReqtokenRelevant
<1> HIDE DEF hs
<1>8. Undisturbed => Kept(state, store.view, hs, queue', reqToken, tip, x)
  BY <1>3, <1>4, <1>6, <1>7 DEF Kept
<1>9. (Undisturbed' => Undisturbed)
  BY <1>1 DEF Undisturbed
<1>10. PruneInv'
  BY <1>1, <1>3, <1>4, <1>5, <1>8, <1>9 DEF PruneInv, hs
<1>11. QED
  BY <1>1, <1>10, KeepsSame DEF PruneStep

\* A loss disturbs.
LEMMA LosePruned ==
    ASSUME IInv, PruneInv, Lose
    PROVE  PruneStep
<1>1. /\ queue \in Seq(Message) /\ queue # <<>> /\ queue' = Tail(queue)
      /\ tip \in Seq(Labels) /\ tip' = tip /\ lastToken' = lastToken
      /\ state' = state /\ reqToken' = reqToken /\ store' = store
  BY DEF IInv, TypeOK, Lose, syncVars
<1>2. ~Undisturbed'
  <2>1. used \in [Bounds -> Nat] /\ "losses" \in Bounds
    BY DEF IInv, TypeOK, Bounds
  <2>2. used' = [used EXCEPT !["losses"] = @ + 1]
    BY DEF Lose, Use
  <2>3. used'["losses"] = used["losses"] + 1 /\ used["losses"] \in Nat
    BY <2>1, <2>2
  <2>4. used'["losses"] # 0
    BY <2>3
  <2>5. QED
    BY <2>4 DEF Undisturbed
<1>3. PICK w \in Seq(Labels) :
         OnRoute(queue, tip, w) /\ Held(store, SettledBlocks(tip, w))
  BY DEF PruneInv
<1>4. PICK x : OnRoute(Tail(queue), tip, x) /\ Takes(Head(queue), w, x, tip)
  BY <1>1, <1>3, OnRouteTail
<1>5. Held(store, SettledBlocks(tip, x)) /\ x \in Seq(Labels)
  BY <1>1, <1>3, <1>4, SettledTakes, HeldMore DEF Takes
<1>6. LowTokens(Tail(queue), lastToken)
  BY <1>1, LowTokensTail DEF PruneInv
<1>7. state = "CATCHING_UP" => reqToken # NoToken
  BY DEF PruneInv
<1>8. PruneInv'
  BY <1>1, <1>2, <1>4, <1>5, <1>6, <1>7 DEF PruneInv
<1>9. QED
  BY <1>2, <1>8 DEF PruneStep

\* The tokens of a queue to which messages with token t are added.
LEMMA LowTokensSent ==
    ASSUME NEW q \in Seq(Message), NEW a \in Seq(Labels), NEW b \in Seq(Labels),
           NEW t \in Nat, NEW k, LowTokens(q, k), t <= k
    PROVE  LowTokens(q \o WithToken(Updates(a, b), t), k)
<1> DEFINE u == Updates(a, b)
           r == q \o WithToken(u, t)
<1>1. Sent(q, u, t, r)
  BY SentParts
<1> HIDE DEF u, r
<1>2. /\ Len(q) \in Nat /\ Len(u) \in Nat /\ Len(r) = Len(q) + Len(u)
      /\ \A i \in 1..Len(q) : r[i] = q[i]
      /\ \A i \in 1..Len(u) : r[Len(q) + i] = Marked(u[i], t)
  BY <1>1 DEF Sent, Marked
<1>a. \A i \in 1..Len(u) : Marked(u[i], t).token = t
  BY DEF Marked
<1>3. ASSUME NEW i \in 1..Len(r) PROVE r[i].token <= k
  <2>0. i \in 0..(Len(q) + Len(u))
    BY <1>2
  <2>1. CASE i \in 0..Len(q)
    <3>1. i \in 1..Len(q)
      BY <1>2, <2>1
    <3>2. QED
      BY <1>2, <3>1 DEF LowTokens
  <2>2. CASE \E j \in 1..Len(u) : i = Len(q) + j
    <3>1. PICK j \in 1..Len(u) : i = Len(q) + j
      BY <2>2
    <3>2. r[i] = Marked(u[j], t)
      BY <1>2, <3>1
    <3>3. QED
      BY <1>a, <3>2
  <2>3. QED
    BY <1>2, <2>0, <2>1, <2>2, SplitIndex
<1>4. QED
  BY <1>3 DEF LowTokens, r, u

\* The daemon moves on to a higher block.
LEMMA DaemonMovePruned ==
    ASSUME ~AllowInvalidate, IInv, FollowInv, CatchInv, PruneInv, NEW b \in Blocks,
           DaemonMove(b)
    PROVE  PruneStep
<1> DEFINE hs == Hashes(pruning)
           r == queue \o WithToken(Updates(tip, b), NoToken)
<1>1. /\ queue \in Seq(Message) /\ tip \in Seq(Labels) /\ tip' = b
      /\ lastToken \in Nat /\ Len(tip) < Len(b)
      /\ lastToken' = lastToken /\ state' = state /\ reqToken' = reqToken
      /\ store' = store /\ pruning' = pruning
      /\ queue' = IF phase = "stopped" THEN queue ELSE r
  BY DEF IInv, TypeOK, DaemonMove, syncVars
<1>2. b \in Seq(Labels) /\ NearGenesis(b)
  BY BlockType
<1>3. Len(tip) \in Nat /\ Len(b) \in Nat
  BY <1>1, <1>2, LenProperties
<1>4. Undisturbed' => Undisturbed
  <2>1. used \in [Bounds -> Nat] /\ used' = [used EXCEPT !["moves"] = @ + 1]
    BY DEF IInv, TypeOK, DaemonMove, Use
  <2>2. {"losses", "fails", "moves"} \subseteq Bounds /\ "moves" # "losses"
        /\ "moves" # "fails"
    BY DEF Bounds
  <2>3. used'["losses"] = used["losses"] /\ used'["fails"] = used["fails"]
    BY <2>1, <2>2
  <2>4. QED
    BY <2>3 DEF Undisturbed
<1>5. PICK w \in Seq(Labels) :
         /\ OnRoute(queue, tip, w)
         /\ Held(store, SettledBlocks(tip, w))
         /\ Undisturbed => Kept(state, store.view, hs, queue, reqToken, tip, w)
  BY DEF PruneInv
<1>6. NearGenesis(tip)
  BY <1>1, <1>5, OnRouteStart
<1>7. /\ LowTokens(queue, lastToken) /\ (state = "CATCHING_UP" => reqToken # NoToken)
      /\ LowStore(store, Len(tip)) /\ LowQueue(queue, Len(tip))
  BY DEF PruneInv, CatchInv
<1>8. ASSUME NEW x \in {store.view.block, store.disk.block}, NEW v
      PROVE  x \in SettledBlocks(b, v)
  <2>1. x \in SettledBlocks(tip, w)
    BY <1>5, <1>8 DEF Held
  <2>2. CASE x = NoBlock
    BY <2>2 DEF SettledBlocks
  <2>3. CASE x # NoBlock
    <3>1. Len(x) <= Len(tip)
      BY <1>7, <1>8, <2>3 DEF LowStore, Low, HasState
    <3>2. x \in Seq(Labels) /\ OnChain(Genesis, x)
      BY <2>1, <2>3, SettledBlock
    <3>3. Len(x) < Len(b)
      BY <1>1, <1>3, <3>1, <3>2, LenProperties
    <3>4. QED
      BY <3>2, <3>3 DEF SettledBlocks
  <2>4. QED
    BY <2>2, <2>3
<1>9. ASSUME NEW v PROVE Held(store, SettledBlocks(b, v))
  BY <1>5, <1>8 DEF Held
<1> HIDE DEF hs
<1>10. CASE phase = "stopped"
  <2>1. queue = <<>> /\ state = "UNKNOWN" /\ queue' = <<>>
    BY <1>1, <1>10 DEF FollowInv, QueueInv, IInv, SyncInv
  <2>2. OnRoute(<<>>, b, b)
    BY <1>2, RouteEmpty DEF OnRoute
  <2>3. Undisturbed => Kept(state, store.view, hs, queue', reqToken, b, b)
    BY <1>5, <2>1 DEF Kept
  <2>4. QED
    BY <1>1, <1>2, <1>4, <1>7, <1>9, <2>1, <2>2, <2>3, KeepsSame DEF PruneInv, PruneStep, hs
<1>11. CASE phase # "stopped"
  <2>1. queue' = r
    BY <1>1, <1>11
  <2>2. OnRoute(r, b, w)
    <3>1. PICK W : Route(queue, tip, W) /\ W[0] = w
      BY <1>5 DEF OnRoute
    <3>2. \E V : Route(r, b, V) /\ V[0] = W[0]
      BY <1>1, <1>2, <1>6, <1>7, <3>1, RouteMove
    <3>3. QED
      BY <3>1, <3>2 DEF OnRoute
  <2>3. NoToken \in Nat /\ NoToken <= lastToken
    BY <1>1 DEF NoToken
  <2>4. LowTokens(r, lastToken)
    BY <1>1, <1>2, <1>7, <2>3, LowTokensSent
  <2>5. ASSUME state = "CATCHING_UP", OnWalk(queue, reqToken, store.view.block)
        PROVE  OnWalk(r, reqToken, store.view.block)
    <3>1. PICK W : Walk(queue, reqToken, W) /\ W[0] = store.view.block
      BY <2>5 DEF OnWalk
    <3>2. NoToken # reqToken
      BY <1>7, <2>5
    <3>3. \E V : Walk(r, reqToken, V) /\ Stays(V, W, queue, Updates(tip, b))
      BY <1>1, <1>2, <2>3, <3>1, <3>2, WalkOther, Zenon
    <3>4. QED
      BY <3>1, <3>3 DEF OnWalk, Stays
  <2> HIDE DEF r
  <2>6. Undisturbed => Kept(state, store.view, hs, queue', reqToken, b, w)
    <3>1. Len(Genesis) \in Nat
      BY BlockchainAssumption, LenProperties
    <3>2. Len(tip) > Len(Genesis) => Len(b) > Len(Genesis)
      BY <1>1, <1>3, <3>1
    <3>3. QED
      BY <1>5, <2>1, <2>5, <3>2 DEF Kept
  <2>7. QED
    BY <1>1, <1>4, <1>5, <1>7, <1>9, <2>1, <2>2, <2>4, <2>6, KeepsSame DEF PruneInv, PruneStep, hs
<1>12. QED
  BY <1>10, <1>11

\* game_sendupdates is answered.
LEMMA SendUpdatesPruned ==
    ASSUME IInv, CatchInv, PruneInv, SendUpdates
    PROVE  PruneStep
<1> DEFINE hs == Hashes(pruning)
           a == store.view.block
           t == IF queue = <<>> THEN 1 ELSE lastToken + 1
           r == queue \o WithToken(Updates(a, tip), t)
<1>1. /\ queue' = r /\ lastToken' = t /\ reqToken' = t /\ state' = "CATCHING_UP"
      /\ store' = SetBatchSize(store, BatchSize) /\ rpc = "sendupdates"
      /\ tip' = tip /\ pruning' = pruning /\ used' = used
  BY DEF SendUpdates
<1>2. /\ queue \in Seq(Message) /\ tip \in Seq(Labels) /\ lastToken \in Nat
      /\ GoodStore(store) /\ state = "OUT_OF_SYNC" /\ HasState(store.view)
  BY <1>1 DEF IInv, TypeOK, SyncInv
<1>3. BatchSize \in Nat \ {0}
  BY GameAssumption
<1>4. PICK w \in Seq(Labels) :
         /\ OnRoute(queue, tip, w)
         /\ Held(store, SettledBlocks(tip, w))
         /\ Undisturbed => Kept(state, store.view, hs, queue, reqToken, tip, w)
  BY DEF PruneInv
<1>5. a \in Seq(Labels) /\ NearGenesis(a) /\ Len(a) <= Len(tip)
  <2>1. a \in SettledBlocks(tip, w) /\ a # NoBlock
    BY <1>2, <1>4 DEF Held, HasState
  <2>2. Len(a) <= Len(tip)
    BY <1>2 DEF CatchInv, LowStore, Low
  <2>3. QED
    BY <2>1, <2>2, SettledBlock
<1>6. NearGenesis(tip)
  BY <1>2, <1>4, OnRouteStart
<1>7. t \in Nat \ {0} /\ t \in Nat /\ t # NoToken
  <2>1. CASE queue = <<>>
    BY <2>1 DEF NoToken
  <2>2. CASE queue # <<>>
    <3>1. t = lastToken + 1
      BY <2>2
    <3> HIDE DEF t
    <3>2. QED
      BY <1>2, <3>1 DEF NoToken
  <2>3. QED
    BY <2>1, <2>2
<1>8. \A i \in 1..Len(queue) : queue[i].token # t /\ queue[i].token <= t
  <2>1. CASE queue = <<>>
    <3>1. Len(queue) = 0 /\ 1..0 = {}
      BY <2>1
    <3>2. QED
      BY <3>1
  <2>2. CASE queue # <<>>
    <3>1. t = lastToken + 1
      BY <2>2
    <3> HIDE DEF t
    <3>2. ASSUME NEW i \in 1..Len(queue)
          PROVE  queue[i].token # t /\ queue[i].token <= t
      <4>1. queue[i] \in Message
        BY <1>2, ElementOfSeq
      <4>2. queue[i].token \in Nat /\ queue[i].token <= lastToken
        BY <4>1 DEF Message, PruneInv, LowTokens
      <4>3. QED
        BY <1>2, <3>1, <4>2
    <3>3. QED
      BY <3>2
  <2>3. QED
    BY <2>1, <2>2
<1> HIDE DEF t
<1>9. OnRoute(r, tip, w)
  <2>1. PICK W : Route(queue, tip, W) /\ W[0] = w
    BY <1>4 DEF OnRoute
  <2> HIDE DEF a, r
  <2>2. \E V : Route(queue \o WithToken(Updates(a, tip), t), tip, V) /\ V[0] = W[0]
    BY <1>2, <1>5, <1>6, <1>7, <2>1, RouteRequest
  <2> USE DEF r
  <2>3. QED
    BY <2>1, <2>2 DEF OnRoute
<1>10. OnWalk(r, t, a)
  <2>1. \A i \in 1..Len(queue) : queue[i].token # t
    BY <1>8
  <2>2. \E V : Walk(r, t, V) /\ V[0] = a
    BY <1>2, <1>5, <1>6, <1>7, <2>1, WalkRequest
  <2>3. QED
    BY <2>2 DEF OnWalk
<1>11. LowTokens(r, t)
  <2>1. LowTokens(queue, t) /\ t <= t
    BY <1>7, <1>8 DEF LowTokens
  <2>2. QED
    BY <1>2, <1>5, <1>7, <2>1, LowTokensSent
<1>12. Held(store', SettledBlocks(tip, w)) /\ store'.view = store.view
  <2>1. store \in Store
    BY <1>2 DEF GoodStore
  <2>2. Held(SetBatchSize(store, BatchSize), SettledBlocks(tip, w))
    BY <1>3, <1>4, <2>1, HeldOperations
  <2>3. SetBatchSize(store, BatchSize).view = store.view
    BY <1>2, <1>3, SetBatchSizeGood
  <2>4. QED
    BY <1>1, <2>2, <2>3
<1> HIDE DEF hs, r
<1>13. Undisturbed => Kept("CATCHING_UP", store.view, hs, r, t, tip, w)
  BY <1>2, <1>4, <1>10 DEF Kept
<1>14. Undisturbed' => Undisturbed
  BY <1>1 DEF Undisturbed
<1>15. PruneInv'
  BY <1>1, <1>4, <1>7, <1>9, <1>11, <1>12, <1>13, <1>14 DEF PruneInv, hs
<1>16. QED
  BY <1>12, <1>15, KeepsSame DEF PruneStep

\* Steps that leave the channel, the sync state and the hashes alone.
LEMMA OthersPruned ==
    ASSUME PruneInv, store'.view = store.view, store'.disk = store.disk,
           UNCHANGED <<tip, queue, lastToken, state, reqToken>>,
           Undisturbed' => Undisturbed, Hashes(pruning') = Hashes(pruning)
    PROVE  PruneStep
<1>1. PICK w \in Seq(Labels) :
         /\ OnRoute(queue, tip, w)
         /\ Held(store, SettledBlocks(tip, w))
         /\ Undisturbed => Kept(state, store.view, Hashes(pruning), queue,
                                reqToken, tip, w)
  BY DEF PruneInv
<1>2. Held(store', SettledBlocks(tip, w))
  BY <1>1 DEF Held
<1>3. PruneInv'
  BY <1>1, <1>2 DEF PruneInv
<1>4. QED
  BY <1>3, KeepsSame DEF PruneStep

\* The end of the process: rows on the durable chain are durable.
LEMMA TerminatedPruned ==
    ASSUME tip \in Seq(Labels), NearGenesis(tip), NEW s, NEW db,
           Held(s, SettledBlocks(tip, tip)), s \in Store, db \in {s.view, s.disk},
           Terminated(db), LowTokens(<<>>, lastToken)
    PROVE  PruneInv'
<1>1. /\ tip' = tip /\ queue' = <<>> /\ state' = "UNKNOWN" /\ store' = NewStore(db)
      /\ lastToken' = lastToken
  BY DEF Terminated
<1>2. OnRoute(<<>>, tip, tip)
  BY RouteEmpty DEF OnRoute
<1>3. Hashes(pruning') = <<>>
  BY DEF Terminated, Hashes, NewQueue
<1>4. Held(store', SettledBlocks(tip, tip))
  <2>1. store'.view = db /\ store'.disk = db
    BY <1>1 DEF NewStore
  <2>2. BatchOk(db, db)
    BY DEF BatchOk
  <2>3. db.block \in SettledBlocks(tip, tip)
    BY DEF Held
  <2>4. QED
    BY <2>1, <2>2, <2>3 DEF Held
<1>5. Kept(state', store'.view, Hashes(pruning'), queue', reqToken', tip, tip)
  BY <1>1, <1>3 DEF Kept
<1>6. QED
  BY <1>1, <1>2, <1>4, <1>5 DEF PruneInv

\* Rows on the durable chain are durable.
LEMMA KeepsDurable ==
    ASSUME NEW db, NEW s, BatchOk(s.disk, s.view), db.undo \subseteq s.view.undo, NEW n
    PROVE  Keeps(db, s.disk, n)
BY DEF BatchOk, Keeps

\* The process is stopped or crashes between two handlers.
LEMMA StopPruned ==
    ASSUME IInv, PruneInv, Stop \/ Crash
    PROVE  PruneStep
<1>1. PICK w \in Seq(Labels) : /\ OnRoute(queue, tip, w)
                               /\ Held(store, SettledBlocks(tip, w))
  BY DEF PruneInv
<1>2. /\ tip \in Seq(Labels) /\ queue \in Seq(Message) /\ GoodStore(store)
      /\ store \in Store
  BY DEF IInv, TypeOK
<1>3. NearGenesis(tip)
  BY <1>1, <1>2, OnRouteStart
<1>4. Held(store, SettledBlocks(tip, tip))
  <2>1. SettledBlocks(tip, w) \subseteq SettledBlocks(tip, tip)
    BY DEF SettledBlocks
  <2>2. QED
    BY <1>1, <2>1, HeldMore
<1>5. PICK db \in {store.view, store.disk} : Terminated(db)
  <2>1. Flush(store).disk = store.view
    BY <1>2, FlushGood
  <2>2. QED
    BY <2>1 DEF Stop, Crash
<1>6. LowTokens(<<>>, lastToken)
  BY DEF LowTokens
<1>7. PruneInv'
  BY <1>2, <1>3, <1>4, <1>5, <1>6, TerminatedPruned
<1>8. store'.view = db
  BY <1>5 DEF Terminated, NewStore
<1>9. Keeps(store.view, db, pruning'.nBlocks)
  BY <1>4, <1>5, KeepsSame, KeepsDurable DEF Held
<1>10. QED
  BY <1>7, <1>8, <1>9 DEF PruneStep

\* Before a handler's pruning: the state with the block attached, or not.
LEMMA AttachPruned ==
    ASSUME IInv, StateChecks, NEW b \in Seq(Labels) \ {<<>>}, NEW m, m.block = b,
           m.type = "attach", NEW w, NEW x, Takes(m, w, x, tip),
           Held(store, SettledBlocks(tip, x))
    PROVE  /\ Held(UpdateStateForAttach(b), SettledBlocks(tip, x))
           /\ GoodStore(UpdateStateForAttach(b))
           /\ store.view.undo \subseteq UpdateStateForAttach(b).view.undo
           /\ Following /\ Matches(b) =>
                 /\ UpdateStateForAttach(b).view.block = b
                 /\ \A n \in Nat : UndoKept(store.view, n)
                                   => UndoKept(UpdateStateForAttach(b).view, n + 1)
           /\ ~(Following /\ Matches(b)) => UpdateStateForAttach(b) = store
<1> DEFINE B == SettledBlocks(tip, x)
<1>1. GoodStore(store) /\ GoodStore(UpdateStateForAttach(b))
  BY UpdateForAttachGood DEF IInv
<1>2. CASE ~(Following /\ Matches(b))
  <2>1. UpdateStateForAttach(b) = store
    BY <1>2 DEF UpdateStateForAttach
  <2>2. QED
    BY <1>1, <1>2, <2>1
<1>3. CASE Following /\ Matches(b)
  <2>1. UpdateStateForAttach(b) = AttachToState(store, b) /\ store.view.block = Parent(b)
    BY <1>3 DEF UpdateStateForAttach, Matches
  <2>2. /\ b \in Seq(Labels) /\ Parent(b) \in Seq(Labels) /\ Parent(b) # NoBlock
        /\ Len(b) \in Nat
    BY ParentType, BlockchainAssumption
  <2>3. OnChain(Genesis, b)
    <3>1. Parent(b) \in B
      BY <2>1 DEF Held
    <3>2. OnChain(Genesis, Parent(b))
      BY <2>2, <3>1, SettledBlock
    <3>3. QED
      BY <3>2, BlockchainAssumption, OnChainOfParent
  <2>4. x = tip \/ Len(b) < Len(tip)
    BY DEF Takes, RouteStep, WalkStep, StepTo, Ordinary, UpTo
  <2>5. b \in B
    BY <2>2, <2>3, <2>4 DEF SettledBlocks
  <2> HIDE DEF B
  <2>6. Held(AttachToState(store, b), B)
    BY <1>1, <2>1, <2>5, HeldAttach DEF B
  <2>7. PICK v \in Database : /\ AttachToState(store, b) = CommitState(store, v)
                              /\ v.block = b
                              /\ v.undo = store.view.undo \cup {RowOf(b)}
    BY <1>1, <2>1, AttachView
  <2>8. AttachToState(store, b).view = v
    <3>1. store \in Store
      BY DEF IInv, TypeOK
    <3>2. Commit(store, v) \in Store /\ Commit(store, v).view = v
      BY <3>1, CommitFields
    <3>3. QED
      BY <2>7, <3>2 DEF CommitState, Store
  <2>9. \A n \in Nat : UndoKept(store.view, n) => UndoKept(v, n + 1)
    BY <2>1, <2>7, KeptAttach
  <2>10. store.view.undo \subseteq v.undo
    BY <2>7
  <2>11. QED
    BY <1>1, <1>3, <2>1, <2>6, <2>7, <2>8, <2>9, <2>10 DEF B
<1>4. QED
  BY <1>2, <1>3

\* Undisturbed, a block that does not fit comes while the state is the initial
\* one, or there is none.
LEMMA AttachFits ==
    ASSUME StateChecks, NEW b \in Seq(Labels) \ {<<>>}, IsReqtokenRelevant(Head(queue)),
           Head(queue).block = b, Head(queue).type = "attach",
           queue \in Seq(Message), queue # <<>>,
           NEW hs, NEW w, NEW x, Takes(Head(queue), w, x, tip),
           state = "CATCHING_UP" => reqToken # NoToken,
           Kept(state, store.view, hs, queue, reqToken, tip, w)
    PROVE  /\ state = "PREGENESIS" =>
                 /\ w = Parent(b) /\ x = b /\ ~HasState(store.view)
           /\ state = "UP_TO_DATE" =>
                 /\ w = Parent(b) /\ x = b
                 /\ Matches(b) \/ (store.view.block = Genesis /\ Len(w) < Len(Genesis))
           /\ state = "CATCHING_UP" =>
                 Matches(b) /\ x = w /\ OnWalk(Tail(queue), reqToken, b)
<1>1. state # "CATCHING_UP" => w = Parent(b) /\ x = b
  BY DEF IsReqtokenRelevant, Takes, WalkStep, StepFrom, StepTo
<1>2. state = "PREGENESIS" => ~HasState(store.view)
  BY DEF Kept
<1>3. state = "UP_TO_DATE" =>
         Matches(b) \/ (store.view.block = Genesis /\ Len(w) < Len(Genesis))
  BY <1>1 DEF Kept, At, Matches
<1>4. ASSUME state = "CATCHING_UP"
      PROVE  Matches(b) /\ x = w /\ OnWalk(Tail(queue), reqToken, b)
  <2>1. Head(queue).token = reqToken /\ reqToken # NoToken
    BY <1>4 DEF IsReqtokenRelevant
  <2>2. x = w
    BY <2>1 DEF Takes, WalkStep
  <2>3. OnWalk(queue, reqToken, store.view.block)
    BY <1>4 DEF Kept
  <2>4. PICK y \in Seq(Labels) : /\ OnWalk(Tail(queue), reqToken, y)
                                 /\ WalkStep(Head(queue), reqToken, store.view.block, y)
    BY <2>3, OnWalkTail
  <2>5. y = b /\ store.view.block = Parent(b)
    BY <2>1, <2>4 DEF WalkStep, StepFrom, StepTo
  <2>6. QED
    BY <2>2, <2>4, <2>5 DEF Matches
<1>5. QED
  BY <1>1, <1>2, <1>3, <1>4

\* BlockAttach of the pruning queue, if there is one.
PrunedStore(p, b, s) == IF p = NoPruning THEN s ELSE AttachBlockStore(p, b, s)

PrunedQueue(p, b) == IF p = NoPruning THEN p ELSE AttachBlock(p, b)

\* The queue with the block: rows that are dropped are deep enough.
LEMMA QueueAttach ==
    ASSUME NEW B, NEW p \in Queue \cup {NoPruning}, NEW b \in Seq(Labels),
           NEW s, GoodStore(s), Held(s, B)
    PROVE  /\ Trims(s, PrunedStore(p, b, s), B) /\ GoodStore(PrunedStore(p, b, s))
           /\ PrunedQueue(p, b) \in Queue \cup {NoPruning}
           /\ Below(Hashes(p), Len(b) - 1) =>
                 /\ Below(Hashes(PrunedQueue(p, b)), Len(b))
                 /\ s.view.block = b /\ UndoKept(s.view, Len(Hashes(p)) + 1) =>
                       UndoKept(PrunedStore(p, b, s).view, Len(Hashes(PrunedQueue(p, b))))
                 /\ PrunedQueue(p, b) # NoPruning =>
                       Deep(s, PrunedStore(p, b, s), Len(b) - PrunedQueue(p, b).nBlocks)
<1> DEFINE t == PrunedStore(p, b, s)
           p2 == PrunedQueue(p, b)
<1>0. Len(b) \in Nat
  BY LenProperties
<1>1. CASE p = NoPruning
  <2>1. t = s /\ p2 = NoPruning
    BY <1>1 DEF PrunedStore, PrunedQueue
  <2>2. Hashes(p) = <<>> /\ Hashes(p2) = <<>> /\ Len(<<>>) = 0 /\ 1..0 = {}
    BY <1>1, <2>1 DEF Hashes
  <2>3. Trims(s, t, B) /\ GoodStore(t)
    BY <2>1 DEF Trims
  <2>4. Below(Hashes(p2), Len(b))
    BY <2>2 DEF Below
  <2>5. s.view.block = b => UndoKept(t.view, Len(Hashes(p2)))
    BY <2>1, <2>2, KeptNone
  <2> HIDE DEF t, p2
  <2>6. QED
    BY <1>1, <2>1, <2>3, <2>4, <2>5 DEF t, p2
<1>2. CASE p # NoPruning
  <2>1. /\ p \in Queue /\ t = AttachBlockStore(p, b, s) /\ p2 = AttachBlock(p, b)
        /\ Hashes(p) = p.hashes
    BY <1>2 DEF PrunedStore, PrunedQueue, Hashes
  <2>2. p2 \in Queue /\ GoodStore(t)
    BY <2>1, AttachBlockGood DEF SameBlock
  <2>3. Trims(s, t, B)
    BY <2>1, AttachBlockView
  <2>4. p2 # NoPruning /\ Hashes(p2) = p2.hashes
    BY <2>2, GameAssumption DEF Hashes
  <2>5. ASSUME Below(Hashes(p), Len(b) - 1)
        PROVE  /\ Below(Hashes(p2), Len(b))
               /\ s.view.block = b /\ UndoKept(s.view, Len(Hashes(p)) + 1) =>
                     UndoKept(t.view, Len(Hashes(p2)))
               /\ Deep(s, t, Len(b) - p2.nBlocks)
    <3>1. /\ p2.nBlocks = p.nBlocks
          /\ Below(Push(p, b).hashes, Len(b))
          /\ Below(p2.hashes, Len(b))
          /\ Len(p2.hashes) \in Nat
          /\ Len(p2.hashes) <= p.nBlocks
          /\ Len(p2.hashes) <= Len(p.hashes) + 1
      BY <2>1, <2>5, AttachBlockQueue
    <3>2. Deep(s, t, Len(b) - p.nBlocks)
      BY <2>1, <3>1, AttachBlockView
    <3>3. ASSUME s.view.block = b, UndoKept(s.view, Len(p.hashes) + 1)
          PROVE  UndoKept(t.view, Len(p2.hashes))
      <4>1. t.view.block = s.view.block
        BY <2>3 DEF Trims
      <4>2. p.nBlocks \in Nat /\ Len(p.hashes) + 1 \in Nat
        BY <2>1, QueueTypes
      <4>3. \A r \in s.view.undo :
               r \in t.view.undo \/ Len(r.block) <= Len(s.view.block) - p.nBlocks
        BY <3>2, <3>3 DEF Deep
      <4> DEFINE l == Len(p2.hashes)
                 k == Len(p.hashes) + 1
      <4>4. l \in Nat /\ k \in Nat /\ l <= p.nBlocks /\ l <= k /\ UndoKept(s.view, k)
        BY <3>1, <3>3, <4>2
      <4> HIDE DEF l, k, t, p2
      <4>5. UndoKept(t.view, l)
        BY <3>3, <4>1, <4>2, <4>3, <4>4, KeptDrop
      <4>6. QED
        BY <4>5 DEF l
    <3> HIDE DEF t, p2
    <3>4. QED
      BY <2>1, <2>4, <3>1, <3>2, <3>3
  <2> HIDE DEF t, p2
  <2>6. QED
    BY <2>2, <2>3, <2>5 DEF t, p2
<1>3. QED
  BY <1>1, <1>2

\* Undisturbed, BlockAttach keeps the hashes and the undo data in step.
LEMMA AttachKept ==
    ASSUME IInv, FollowInv, StateChecks, NEW b \in Seq(Labels) \ {<<>>},
           Head(queue).block = b, Head(queue).type = "attach",
           IsReqtokenRelevant(Head(queue)), queue # <<>>,
           NEW w, NEW x, Takes(Head(queue), w, x, tip),
           Held(store, SettledBlocks(tip, x)),
           state = "CATCHING_UP" => reqToken # NoToken,
           Kept(state, store.view, Hashes(pruning), queue, reqToken, tip, w)
    PROVE  LET p == PrunedQueue(pruning, b)
               t == PrunedStore(pruning, b, UpdateStateForAttach(b))
           IN  /\ AttachNeedsReinit(b) => ReinitReady(t.view, Hashes(p), tip, x)
               /\ ~AttachNeedsReinit(b) =>
                     Kept(state, t.view, Hashes(p), Tail(queue), reqToken, tip, x)
               /\ p # NoPruning => Keeps(store.view, t.view, p.nBlocks)
<1> DEFINE p == PrunedQueue(pruning, b)
           s == UpdateStateForAttach(b)
           t == PrunedStore(pruning, b, s)
           hs == Hashes(pruning)
           hs2 == Hashes(p)
           B == SettledBlocks(tip, x)
<1>1. /\ queue \in Seq(Message) /\ pruning \in Queue \cup {NoPruning}
      /\ GoodStore(store) /\ store.view \in Database /\ DatabaseCorrect(store.view)
  BY DEF IInv, TypeOK, GoodStore, Store
<1>2. /\ b \in Seq(Labels) /\ Parent(b) \in Seq(Labels) /\ Len(Parent(b)) = Len(b) - 1
      /\ Len(b) \in Nat /\ Len(Genesis) \in Nat /\ b # NoBlock /\ Genesis # NoBlock
      /\ Genesis \in Seq(Labels)
  BY ParentType, BlockchainAssumption, LenProperties
<1>3. /\ Held(s, B) /\ GoodStore(s) /\ store.view.undo \subseteq s.view.undo
      /\ Following /\ Matches(b) =>
            /\ s.view.block = b
            /\ \A n \in Nat : UndoKept(store.view, n) => UndoKept(s.view, n + 1)
      /\ ~(Following /\ Matches(b)) => s = store
  BY AttachPruned
<1> HIDE DEF s
<1>4. /\ Trims(s, t, B) /\ GoodStore(t) /\ p \in Queue \cup {NoPruning}
      /\ Below(hs, Len(b) - 1) =>
            /\ Below(hs2, Len(b))
            /\ s.view.block = b /\ UndoKept(s.view, Len(hs) + 1) =>
                  UndoKept(t.view, Len(hs2))
            /\ p # NoPruning => Deep(s, t, Len(b) - p.nBlocks)
  BY <1>1, <1>2, <1>3, QueueAttach
<1>5. /\ Len(hs) \in Nat /\ hs2 \in Seq(Seq(Labels)) /\ Len(hs2) \in Nat
      /\ p # NoPruning => p.nBlocks \in Nat
  BY <1>1, <1>4, HashesType, QueueTypes
<1>6. t.view.block = s.view.block
  BY <1>4 DEF Trims
<1>7. /\ state = "PREGENESIS" =>
            /\ w = Parent(b) /\ x = b /\ ~HasState(store.view)
      /\ state = "UP_TO_DATE" =>
            /\ w = Parent(b) /\ x = b
            /\ Matches(b) \/ (store.view.block = Genesis /\ Len(w) < Len(Genesis))
      /\ state = "CATCHING_UP" =>
            Matches(b) /\ x = w /\ OnWalk(Tail(queue), reqToken, b)
  BY <1>1, AttachFits
<1> HIDE DEF p, t, hs, hs2
<1>8. Kept(state, store.view, hs, queue, reqToken, tip, w)
  BY DEF hs
<1> DEFINE Goal == /\ AttachNeedsReinit(b) => ReinitReady(t.view, hs2, tip, x)
                   /\ ~AttachNeedsReinit(b) =>
                         Kept(state, t.view, hs2, Tail(queue), reqToken, tip, x)
                   /\ p # NoPruning => Keeps(store.view, t.view, p.nBlocks)
<1>9. CASE state = "PREGENESIS"
  <2>1. ~Following /\ w = Parent(b) /\ x = b /\ ~HasState(store.view)
    BY <1>7, <1>9 DEF Following
  <2>2. Len(w) < Len(Genesis) /\ Below(hs, Len(b) - 1)
    BY <1>2, <1>8, <1>9, <2>1 DEF Kept
  <2>3. t.view.block = NoBlock /\ ~HasState(t.view)
    BY <1>3, <1>6, <2>1 DEF HasState
  <2>4. Keeps(store.view, t.view, p.nBlocks)
    BY <1>1, <2>3, KeepsNone
  <2>5. Len(b) <= Len(Genesis) /\ Below(hs2, Len(b))
    BY <1>2, <1>4, <2>1, <2>2
  <2>6. ASSUME AttachNeedsReinit(b) PROVE ReinitReady(t.view, hs2, tip, x)
    <3>1. Below(hs2, Len(Genesis))
      BY <1>2, <1>5, <2>5, BelowHigher
    <3>2. QED
      BY <2>1, <2>3, <2>5, <3>1 DEF ReinitReady
  <2>7. ASSUME ~AttachNeedsReinit(b)
        PROVE  Kept(state, t.view, hs2, Tail(queue), reqToken, tip, x)
    <3>1. b # Genesis
      BY <1>9, <2>7 DEF AttachNeedsReinit, FollowInv, PregenesisInv
    <3>2. NearGenesis(b)
      BY <2>1 DEF Takes
    <3>3. Len(b) < Len(Genesis)
      BY <1>2, <2>5, <3>1, <3>2, AtGenesis
    <3>4. QED
      BY <1>9, <2>1, <2>3, <2>5, <3>3 DEF Kept
  <2>8. Goal
    BY <2>4, <2>6, <2>7
  <2>9. QED
    BY <2>8 DEF p, t, s, hs2
<1>10. ASSUME Following, Matches(b), Below(hs, Len(b) - 1), UndoKept(store.view, Len(hs))
       PROVE  /\ t.view.block = b /\ HasState(t.view) /\ Below(hs2, Len(b))
              /\ UndoKept(t.view, Len(hs2))
              /\ p # NoPruning => Keeps(store.view, t.view, p.nBlocks)
  <2>1. s.view.block = b /\ UndoKept(s.view, Len(hs) + 1)
    BY <1>3, <1>5, <1>10
  <2>2. t.view.block = b /\ HasState(t.view)
    BY <1>2, <1>6, <2>1 DEF HasState
  <2>3. /\ Below(hs2, Len(b)) /\ UndoKept(t.view, Len(hs2))
        /\ p # NoPruning => Deep(s, t, Len(b) - p.nBlocks)
    BY <1>4, <1>10, <2>1
  <2>4. ASSUME p # NoPruning PROVE Keeps(store.view, t.view, p.nBlocks)
    BY <1>2, <1>3, <1>5, <2>2, <2>3, <2>4, KeepsDeep
  <2>5. QED
    BY <2>2, <2>3, <2>4
<1>11. CASE state = "CATCHING_UP"
  <2>1. Following /\ Matches(b) /\ x = w /\ OnWalk(Tail(queue), reqToken, b)
    BY <1>7, <1>11 DEF Following
  <2>2. /\ UndoKept(store.view, Len(hs)) /\ Below(hs, Len(store.view.block))
        /\ Len(tip) > Len(Genesis)
    BY <1>8, <1>11 DEF Kept
  <2>3. Below(hs, Len(b) - 1)
    BY <1>2, <2>1, <2>2 DEF Matches
  <2>4. /\ t.view.block = b /\ HasState(t.view) /\ Below(hs2, Len(b))
        /\ UndoKept(t.view, Len(hs2))
        /\ p # NoPruning => Keeps(store.view, t.view, p.nBlocks)
    BY <1>10, <2>1, <2>2, <2>3
  <2>5. tip # Genesis
    BY <1>2, <2>2
  <2>6. ReinitReady(t.view, hs2, tip, x)
    BY <2>4, <2>5 DEF ReinitReady
  <2>7. Kept(state, t.view, hs2, Tail(queue), reqToken, tip, x)
    BY <1>11, <2>1, <2>2, <2>4 DEF Kept
  <2>8. Goal
    BY <2>4, <2>6, <2>7
  <2>9. QED
    BY <2>8 DEF p, t, s, hs2
<1>12. CASE state = "UP_TO_DATE"
  <2>1. /\ Following /\ w = Parent(b) /\ x = b
        /\ Matches(b) \/ (store.view.block = Genesis /\ Len(w) < Len(Genesis))
    BY <1>7, <1>12 DEF Following
  <2>2. UndoKept(store.view, Len(hs)) /\ Below(hs, Len(b) - 1)
    BY <1>2, <1>8, <1>12, <2>1 DEF Kept
  <2>3. CASE Matches(b)
    <3>1. /\ t.view.block = b /\ HasState(t.view) /\ Below(hs2, Len(b))
          /\ UndoKept(t.view, Len(hs2))
          /\ p # NoPruning => Keeps(store.view, t.view, p.nBlocks)
      BY <1>10, <2>1, <2>2, <2>3
    <3>2. ~AttachNeedsReinit(b)
      BY <1>12, <2>3 DEF AttachNeedsReinit
    <3>3. Kept(state, t.view, hs2, Tail(queue), reqToken, tip, x)
      BY <1>12, <2>1, <3>1 DEF Kept, At
    <3>4. Goal
      BY <3>1, <3>2, <3>3
    <3>5. QED
      BY <3>4 DEF p, t, s, hs2
  <2>4. CASE ~Matches(b)
    <3>1. store.view.block = Genesis /\ Len(w) < Len(Genesis)
      BY <2>1, <2>4
    <3>2. t.view.block = Genesis /\ HasState(t.view)
      BY <1>2, <1>3, <1>6, <2>4, <3>1 DEF HasState
    <3>3. Keeps(store.view, t.view, p.nBlocks)
      BY <1>1, <3>2, KeepsNone
    <3>4. UndoKept(t.view, Len(hs2))
      BY <1>2, <1>5, <3>2, KeptNone
    <3>5. Below(hs2, Len(b)) /\ Len(b) <= Len(Genesis)
      BY <1>2, <1>4, <2>1, <2>2, <3>1
    <3>6. Below(hs2, Len(Genesis))
      BY <1>2, <1>5, <3>5, BelowHigher
    <3>7. ReinitReady(t.view, hs2, tip, x)
      BY <2>1, <3>2, <3>4, <3>5, <3>6 DEF ReinitReady
    <3>8. AttachNeedsReinit(b)
      BY <2>1, <2>4 DEF AttachNeedsReinit
    <3>9. Goal
      BY <3>3, <3>7, <3>8
    <3>10. QED
      BY <3>9 DEF p, t, s, hs2
  <2>5. QED
    BY <2>3, <2>4
<1>13. QED
  BY <1>9, <1>11, <1>12 DEF StateChecks

\* A block is attached.
LEMMA BlockAttachPruned ==
    ASSUME IInv, IInv', FollowInv, CatchInv, PruneInv, BlockAttach
    PROVE  PruneStep
<1> DEFINE b == Head(queue).block
           s == UpdateStateForAttach(b)
           t == PrunedStore(pruning, b, s)
           p == PrunedQueue(pruning, b)
<1>1. /\ "attach" \in Topics /\ Receive("attach") /\ IsReqtokenRelevant(Head(queue))
      /\ StateChecks /\ used' = used
  BY DEF BlockAttach, Topics
<1>2. Finish(AttachNeedsReinit(b), t) /\ pruning' = p
  BY DEF BlockAttach, PrunedStore, PrunedQueue
<1>3. /\ LowStore(store, Len(tip)) /\ Head(queue).type = "attach" /\ Len(tip) \in Nat
      /\ b \in Seq(Labels) \ {<<>>} /\ Len(b) <= Len(tip) /\ reqToken' = reqToken
  BY <1>1, ReceiveBacked
<1>4. /\ tip' = tip /\ tip \in Seq(Labels) /\ queue' \in Seq(Message)
      /\ LowTokens(queue', lastToken')
      /\ state = "CATCHING_UP" => reqToken' # NoToken
      /\ queue # <<>> /\ queue' = Tail(queue)
  BY <1>1, ReceivePruned
<1>5. PICK w, x : HandlerStart(w, x)
  BY <1>1, ReceivePruned
<1>6. /\ OnRoute(queue', tip, x) /\ Takes(Head(queue), w, x, tip)
      /\ Held(store, SettledBlocks(tip, x)) /\ x \in Seq(Labels)
      /\ Undisturbed =>
            Kept(state, store.view, Hashes(pruning), queue, reqToken, tip, w)
  BY <1>5 DEF HandlerStart, Takes
<1>7. /\ pruning \in Queue \cup {NoPruning} /\ pruning' \in Queue \cup {NoPruning}
      /\ store.view \in Database /\ DatabaseCorrect(store.view)
  BY DEF IInv, TypeOK, GoodStore, Store
<1>8. GoodStore(s) /\ Held(s, SettledBlocks(tip, x)) /\ LowStore(s, Len(tip))
  <2>1. GoodStore(s) /\ Held(s, SettledBlocks(tip, x))
    BY <1>1, <1>3, <1>6, AttachPruned
  <2>2. LowStore(s, Len(tip))
    BY <1>1, <1>3, LowUpdates
  <2>3. QED
    BY <2>1, <2>2
<1>9. GoodStore(t) /\ Held(t, SettledBlocks(tip, x)) /\ LowStore(t, Len(tip))
  <2> HIDE DEF s
  <2>1. GoodStore(t) /\ Trims(s, t, SettledBlocks(tip, x))
    BY <1>3, <1>7, <1>8, QueueAttach
  <2>2. LowStore(t, Len(tip))
    <3>1. CASE pruning = NoPruning
      BY <1>8, <3>1 DEF PrunedStore
    <3>2. CASE pruning # NoPruning
      <4>1. pruning \in Queue /\ 0 \in Nat /\ b \in Seq(Labels)
        BY <1>3, <1>7, <3>2
      <4>2. LowStore(AttachBlockStore(pruning, b, s), Len(tip))
        BY <1>8, <4>1, LowQueueOperations
      <4>3. QED
        BY <3>2, <4>2 DEF PrunedStore
    <3>3. QED
      BY <3>1, <3>2
  <2>3. QED
    BY <2>1, <2>2 DEF Trims
<1>10. Undisturbed =>
         /\ AttachNeedsReinit(b) => ReinitReady(t.view, Hashes(p), tip, x)
         /\ ~AttachNeedsReinit(b) =>
               Kept(state, t.view, Hashes(p), Tail(queue), reqToken, tip, x)
         /\ p # NoPruning => Keeps(store.view, t.view, p.nBlocks)
  <2>1. state = "CATCHING_UP" => reqToken # NoToken
    BY <1>3, <1>4
  <2>2. QED
    BY <1>1, <1>3, <1>4, <1>6, <2>1, AttachKept
<1> HIDE DEF t, p, s, b
<1>11. Undisturbed' => Undisturbed
  BY <1>1 DEF Undisturbed
<1>12. CASE AttachNeedsReinit(b)
  <2>1. ReinitialiseState(t)
    BY <1>2, <1>12 DEF Finish
  <2>2. PruneInv' /\ Restarted(t.view, store'.view, state', tip)
    <3>1. Undisturbed' => ReinitReady(t.view, Hashes(pruning'), tip, x)
      BY <1>2, <1>10, <1>11, <1>12
    <3>2. QED
      BY <1>4, <1>6, <1>7, <1>9, <2>1, <3>1, PrunedReinit
  <2>3. Undisturbed' /\ pruning' # NoPruning =>
           Keeps(store.view, store'.view, pruning'.nBlocks)
    BY <1>2, <1>7, <1>10, <1>11, <2>2, KeepsRestarted
  <2>4. QED
    BY <2>2, <2>3 DEF PruneStep
<1>13. CASE ~AttachNeedsReinit(b)
  <2>1. store' = t /\ state' = state
    BY <1>2, <1>13 DEF Finish
  <2>2. Undisturbed' => Kept(state', store'.view, Hashes(pruning'), queue', reqToken',
                             tip, x)
    BY <1>2, <1>3, <1>4, <1>10, <1>11, <1>13, <2>1
  <2>3. PruneInv'
    BY <1>4, <1>6, <1>9, <2>1, <2>2 DEF PruneInv
  <2>4. Undisturbed' /\ pruning' # NoPruning =>
           Keeps(store.view, store'.view, pruning'.nBlocks)
    BY <1>2, <1>10, <1>11, <2>1
  <2>5. QED
    BY <2>3, <2>4 DEF PruneStep
<1>14. QED
  BY <1>12, <1>13

\* A failed transaction disturbs.
LEMMA FailsDisturb ==
    ASSUME IInv, Use("fails", MaxFails)
    PROVE  ~Undisturbed'
<1>1. used \in [Bounds -> Nat] /\ "fails" \in Bounds
  BY DEF IInv, TypeOK, Bounds
<1>2. used' = [used EXCEPT !["fails"] = @ + 1]
  BY DEF Use
<1>3. used'["fails"] = used["fails"] + 1 /\ used["fails"] \in Nat
  BY <1>1, <1>2
<1>4. used'["fails"] # 0
  BY <1>3
<1>5. QED
  BY <1>4 DEF Undisturbed

\* What a failed BlockAttach leaves in the storage.
LEMMA AttachFailuresHeld ==
    ASSUME IInv, StateChecks, NEW b \in Seq(Labels) \ {<<>>}, NEW B,
           Held(store, B), Held(UpdateStateForAttach(b), B),
           NEW f \in AttachFailures(b)
    PROVE  Held(f.store, B)
<1> DEFINE s == UpdateStateForAttach(b)
           p == Push(pruning, b)
<1>1. GoodStore(store) /\ GoodStore(s) /\ store \in Store /\ b \in Seq(Labels)
  BY UpdateForAttachGood DEF IInv, GoodStore
<1>2. Held(Rollback(store), B)
  BY <1>1, HeldOperations
<1>3. ASSUME pruning # NoPruning, NEW g \in AttachBlockFailures(pruning, b, s)
      PROVE  Held(g.store, B)
  <2>1. pruning \in Queue
    BY <1>3 DEF IInv, TypeOK
  <2>2. p \in Queue
    BY <1>1, <2>1, QueueTypes
  <2> HIDE DEF p, s
  <2> DEFINE i == InitialPruneStore(p, b, s)
  <2>3. Held(s, B)
    BY DEF s
  <2>4. Held(i, B) /\ GoodStore(i)
    BY <1>1, <2>2, <2>3, InitialPruneView, InitialPruneGood DEF Trims, SameBlock
  <2> HIDE DEF i
  <2>5. Held(Rollback(s), B) /\ Held(Rollback(i), B)
    BY <1>1, <2>3, <2>4, HeldOperations DEF GoodStore
  <2>6. g.store \in {Rollback(s), Rollback(i)}
    BY <1>3 DEF AttachBlockFailures, p, i
  <2>7. QED
    BY <2>5, <2>6
<1> HIDE DEF s
<1>4. \/ f = [queue |-> pruning, store |-> Rollback(store)]
      \/ pruning # NoPruning /\ f \in AttachBlockFailures(pruning, b, s)
  BY DEF AttachFailures, s
<1>5. CASE f = [queue |-> pruning, store |-> Rollback(store)]
  BY <1>2, <1>5
<1>6. CASE pruning # NoPruning /\ f \in AttachBlockFailures(pruning, b, s)
  BY <1>3, <1>6
<1>7. QED
  BY <1>4, <1>5, <1>6

\* A handler whose transaction fails starts over from what is left.
LEMMA RetriesPruned ==
    ASSUME IInv, CatchInv, PruneInv, BlockAttachRetry \/ BlockDetachRetry
    PROVE  PruneStep
<1> DEFINE b == Head(queue).block
<1>1. PICK type \in Topics : /\ Receive(type)
                             /\ BlockAttachRetry => type = "attach"
  BY DEF BlockAttachRetry, BlockDetachRetry, Topics
<1>2. ~Undisturbed'
  BY FailsDisturb DEF BlockAttachRetry, BlockDetachRetry
<1>3. b \in Seq(Labels) \ {<<>>}
  BY <1>1, ReceiveBacked
<1>4. /\ tip' = tip /\ tip \in Seq(Labels) /\ LowTokens(queue', lastToken')
      /\ Head(queue).type = type
  BY <1>1, ReceivePruned
<1>5. PICK w, x : HandlerStart(w, x)
  BY <1>1, ReceivePruned
<1> DEFINE B == SettledBlocks(tip, x)
<1>6. /\ OnRoute(queue', tip, x) /\ Takes(Head(queue), w, x, tip)
      /\ Held(store, B) /\ x \in Seq(Labels)
  BY <1>5 DEF HandlerStart, Takes
<1>7. store \in Store /\ GoodStore(store)
  BY DEF IInv, TypeOK
<1>8. PICK s : GoodStore(s) /\ Held(s, B) /\ ReinitialiseState(s)
  <2>1. CASE BlockAttachRetry
    <3>1. /\ StateChecks /\ Head(queue).type = "attach"
          /\ \E f \in AttachFailures(b) : ReinitialiseState(f.store)
      BY <1>1, <1>4, <2>1 DEF BlockAttachRetry
    <3>2. Held(UpdateStateForAttach(b), B)
      BY <1>3, <1>6, <3>1, AttachPruned
    <3> HIDE DEF b, B
    <3>3. PICK f \in AttachFailures(b) : ReinitialiseState(f.store)
      BY <3>1
    <3>4. GoodStore(f.store)
      BY <1>3, <3>1, AttachFailuresGood
    <3>5. Held(f.store, B)
      BY <1>3, <1>6, <3>1, <3>2, AttachFailuresHeld
    <3>6. QED
      BY <3>3, <3>4, <3>5
  <2>2. CASE BlockDetachRetry
    <3>1. ReinitialiseState(Rollback(store))
      BY <2>2 DEF BlockDetachRetry
    <3>2. GoodStore(Rollback(store)) /\ Held(Rollback(store), B)
      BY <1>6, <1>7, RollbackGood, HeldOperations
    <3>3. QED
      BY <3>1, <3>2
  <2>3. QED
    BY <2>1, <2>2
<1>9. /\ Held(store', B)
      /\ Restarted(s.view, store'.view, state', tip)
  BY <1>8, ReinitHeld
<1>10. state' # "CATCHING_UP"
  BY <1>9 DEF Restarted
<1>11. PruneInv'
  BY <1>2, <1>4, <1>6, <1>9, <1>10 DEF PruneInv
<1>12. QED
  BY <1>2, <1>11 DEF PruneStep

\* The process ends between the state's and the queue's transaction.
LEMMA CrashInPruningPruned ==
    ASSUME IInv, FollowInv, PruneInv, CrashInPruning
    PROVE  PruneStep
<1> DEFINE b == Head(queue).block
           s == UpdateStateForAttach(b)
           q == Push(pruning, b)
           p == InitialPruneStore(q, b, s)
           n == pruning.nBlocks
<1>1. /\ queue \in Seq(Message) /\ queue # <<>> /\ pruning \in Queue
      /\ pruning # NoPruning /\ tip \in Seq(Labels) /\ GoodStore(store)
      /\ store.view \in Database /\ DatabaseCorrect(store.view)
  BY DEF CrashInPruning, IInv, TypeOK, GoodStore, Store
<1>2. Head(queue) \in Message
  BY <1>1
<1>3. b \in Seq(Labels) \ {<<>>} /\ b \in Seq(Labels) /\ b # NoBlock
  BY <1>2, BlockchainAssumption DEF Message
<1>4. /\ StateChecks /\ Head(queue).type = "attach" /\ IsReqtokenRelevant(Head(queue))
      /\ Terminated(s.disk) \/ Terminated(p.disk)
      /\ UNCHANGED used \/ Use("stops", MaxStops)
  BY DEF CrashInPruning
<1>5. PICK w \in Seq(Labels) :
         /\ OnRoute(queue, tip, w)
         /\ Held(store, SettledBlocks(tip, w))
         /\ Undisturbed => Kept(state, store.view, Hashes(pruning), queue,
                                reqToken, tip, w)
  BY DEF PruneInv
<1>6. PICK x : OnRoute(Tail(queue), tip, x) /\ Takes(Head(queue), w, x, tip)
  BY <1>1, <1>5, OnRouteTail
<1>7. Held(store, SettledBlocks(tip, x))
  BY <1>1, <1>5, <1>6, SettledTakes, HeldMore
<1>8. /\ Held(s, SettledBlocks(tip, x)) /\ GoodStore(s)
      /\ store.view.undo \subseteq s.view.undo
      /\ Following /\ Matches(b) => s.view.block = b
      /\ ~(Following /\ Matches(b)) => s = store
  BY <1>3, <1>4, <1>6, <1>7, AttachPruned
<1>9. state = "CATCHING_UP" => reqToken # NoToken
  BY DEF PruneInv
<1>10. Undisturbed => s.view.block \in {b, Genesis, NoBlock}
  <2> SUFFICES ASSUME Undisturbed, ~(Following /\ Matches(b))
               PROVE  store.view.block \in {Genesis, NoBlock}
    BY <1>8
  <2>1. /\ state = "PREGENESIS" => ~HasState(store.view)
        /\ state = "UP_TO_DATE" => Matches(b) \/ store.view.block = Genesis
        /\ state = "CATCHING_UP" => Matches(b)
    BY <1>1, <1>3, <1>4, <1>5, <1>6, <1>9, AttachFits
  <2>2. QED
    BY <1>4, <2>1 DEF StateChecks, Following, HasState
<1>11. Undisturbed' => Undisturbed
  <2>1. CASE UNCHANGED used
    BY <2>1 DEF Undisturbed
  <2>2. CASE Use("stops", MaxStops)
    <3>1. used \in [Bounds -> Nat] /\ used' = [used EXCEPT !["stops"] = @ + 1]
      BY <2>2 DEF IInv, TypeOK, Use
    <3>2. {"losses", "fails", "stops"} \subseteq Bounds /\ "stops" # "losses"
          /\ "stops" # "fails"
      BY DEF Bounds
    <3>3. used'["losses"] = used["losses"] /\ used'["fails"] = used["fails"]
      BY <3>1, <3>2
    <3>4. QED
      BY <3>3 DEF Undisturbed
  <2>3. QED
    BY <1>4, <2>1, <2>2
<1>12. q \in Queue /\ q.nBlocks = n /\ n \in Nat
  BY <1>1, <1>3, QueueTypes DEF Push, Queue
<1> HIDE DEF b, s, q
<1>13. /\ Trims(s, p, SettledBlocks(tip, x)) /\ Deep(s, p, Len(b) - n)
       /\ p.disk \in {s.disk, p.view}
  BY <1>3, <1>8, <1>12, InitialPruneView
<1>14. GoodStore(p)
  BY <1>3, <1>8, <1>12, InitialPruneGood DEF SameBlock
<1> HIDE DEF p
<1>15. Held(p, SettledBlocks(tip, x)) /\ p.view.block = s.view.block
  BY <1>13 DEF Trims
<1>16. Keeps(store.view, s.disk, n)
  BY <1>8, KeepsDurable DEF Held
<1>17. Undisturbed => Keeps(store.view, p.view, n)
  <2>1. CASE p.view.block \in {Genesis, NoBlock}
    BY <1>1, <2>1, KeepsNone
  <2>2. CASE p.view.block = b
    BY <1>3, <1>8, <1>12, <1>13, <2>2, KeepsDeep
  <2>3. QED
    BY <1>10, <1>15, <2>1, <2>2
<1>18. PICK t \in {s, p} : Terminated(t.disk)
  BY <1>4
<1>19. SettledBlocks(tip, x) \subseteq SettledBlocks(tip, tip)
  BY DEF SettledBlocks
<1>20. Held(t, SettledBlocks(tip, tip)) /\ t \in Store
  BY <1>8, <1>14, <1>15, <1>19, HeldMore DEF GoodStore
<1>21. NearGenesis(tip) /\ LowTokens(<<>>, lastToken)
  BY <1>1, <1>5, OnRouteStart DEF LowTokens
<1>22. PruneInv'
  BY <1>1, <1>18, <1>20, <1>21, TerminatedPruned
<1>23. store'.view = t.disk /\ pruning'.nBlocks = n
  BY <1>1, <1>18 DEF Terminated, NewStore, NewQueue
<1>24. Undisturbed => Keeps(store.view, t.disk, n)
  BY <1>13, <1>16, <1>17, <1>18
<1>25. QED
  BY <1>11, <1>22, <1>23, <1>24 DEF PruneStep

\* What UpdateStateForDetach leaves: the parent's state, nothing, or all.
LEMMA DetachPruned ==
    ASSUME IInv, StateChecks, NEW b \in Seq(Labels) \ {<<>>}, Len(b) <= Len(tip),
           Len(b) > Len(Genesis), tip \in Seq(Labels), NEW x,
           Held(store, SettledBlocks(tip, x))
    PROVE  /\ Held(UpdateStateForDetach(b), SettledBlocks(tip, x))
           /\ Following /\ IsCurrent(b) /\ UndoDataOf(store.view, b) # {} =>
                 /\ UpdateStateForDetach(b).view.block = Parent(b)
                 /\ UpdateStateForDetach(b).view.undo
                       = {r \in store.view.undo : r.block # b}
           /\ Following /\ IsCurrent(b) /\ UndoDataOf(store.view, b) = {} =>
                 UpdateStateForDetach(b).view = EmptyDatabase
<1> DEFINE B == SettledBlocks(tip, x)
<1>1. GoodStore(store) /\ store \in Store
  BY DEF IInv, TypeOK
<1>2. CASE ~Following \/ ~IsCurrent(b)
  <2>1. UpdateStateForDetach(b) = store
    BY <1>2 DEF UpdateStateForDetach
  <2>2. QED
    BY <1>2, <2>1
<1>3. CASE Following /\ IsCurrent(b) /\ UndoDataOf(store.view, b) = {}
  <2>1. UpdateStateForDetach(b) = Clear(TryAbortTransaction(store))
    BY <1>3 DEF UpdateStateForDetach
  <2>2. Clear(TryAbortTransaction(store)).view = EmptyDatabase
    BY <1>1, AbortAndClearGood
  <2>3. NoBlock \in B
    BY SettledGenesis
  <2> HIDE DEF B
  <2>4. Held(Clear(TryAbortTransaction(store)), B)
    BY <1>1, <2>3, HeldOperations DEF B
  <2>5. QED
    BY <1>3, <2>1, <2>2, <2>4 DEF B
<1>4. CASE Following /\ IsCurrent(b) /\ UndoDataOf(store.view, b) # {}
  <2> DEFINE r == CHOOSE r \in UndoDataOf(store.view, b) : TRUE
  <2>1. UpdateStateForDetach(b) = DetachFromState(store, b, r.data)
        /\ store.view.block = b
    BY <1>4 DEF UpdateStateForDetach, IsCurrent
  <2>2. r \in UndoDataOf(store.view, b)
    BY <1>4
  <2> HIDE DEF r
  <2>3. /\ b \in Seq(Labels) /\ Parent(b) \in Seq(Labels) /\ Len(Parent(b)) = Len(b) - 1
        /\ Len(b) \in Nat /\ Len(tip) \in Nat /\ Len(Genesis) \in Nat
        /\ Genesis \in Seq(Labels) /\ b # NoBlock
    BY ParentType, LenProperties, BlockchainAssumption
  <2>4. OnChain(Genesis, Parent(b))
    <3>1. b \in B
      BY <2>1 DEF Held
    <3>2. OnChain(Genesis, b)
      BY <2>3, <3>1, SettledBlock
    <3>3. Genesis # b
      BY <2>3
    <3>4. QED
      BY <2>3, <3>2, <3>3, OnChainTop
  <2>5. Len(Parent(b)) < Len(tip)
    BY <2>3
  <2>6. Parent(b) \in B
    BY <2>3, <2>4, <2>5 DEF SettledBlocks
  <2> HIDE DEF B
  <2>7. Held(DetachFromState(store, b, r.data), B)
    BY <1>1, <2>1, <2>2, <2>6, HeldDetach DEF B
  <2>8. PICK v \in Database : /\ DetachFromState(store, b, r.data) = CommitState(store, v)
                              /\ v.block = Parent(b)
                              /\ v.undo = {y \in store.view.undo : y.block # b}
    BY <1>1, <2>1, <2>2, DetachView
  <2>9. DetachFromState(store, b, r.data).view = v
    <3>1. Commit(store, v) \in Store /\ Commit(store, v).view = v
      BY <1>1, CommitFields
    <3>2. QED
      BY <2>8, <3>1 DEF CommitState, Store
  <2>10. QED
    BY <1>4, <2>1, <2>7, <2>8, <2>9 DEF B
<1>5. QED
  BY <1>2, <1>3, <1>4

\* DetachBlock of the pruning queue, if there is one.
DetachedQueue(p) == IF p = NoPruning THEN p ELSE DetachBlock(p)

\* The queue without its last hash.
LEMMA QueueDetach ==
    ASSUME NEW p \in Queue \cup {NoPruning}, NEW h \in Int, Below(Hashes(p), h)
    PROVE  /\ Below(Hashes(DetachedQueue(p)), h - 1)
           /\ Len(Hashes(DetachedQueue(p))) = 0
              \/ Len(Hashes(DetachedQueue(p))) + 1 <= Len(Hashes(p))
           /\ Len(Hashes(p)) = 0 => Hashes(DetachedQueue(p)) = <<>>
<1> DEFINE d == DetachedQueue(p)
<1>1. CASE p = NoPruning
  <2>1. Hashes(d) = <<>> /\ Len(<<>>) = 0 /\ 1..0 = {}
    BY <1>1 DEF Hashes, DetachedQueue
  <2> HIDE DEF d
  <2>2. Below(Hashes(d), h - 1)
    BY <2>1 DEF Below
  <2>3. QED
    BY <2>1, <2>2 DEF d
<1>2. CASE p # NoPruning
  <2>1. p \in Queue /\ Hashes(p) = p.hashes /\ d = DetachBlock(p)
    BY <1>2 DEF Hashes, DetachedQueue
  <2>2. d \in Queue /\ p.hashes \in Seq(Seq(Labels)) /\ Len(p.hashes) \in Nat
    BY <2>1, QueueTypes
  <2>3. Hashes(d) = d.hashes
    BY <2>2, GameAssumption DEF Hashes
  <2>4. /\ Below(d.hashes, h - 1)
        /\ Len(d.hashes) = IF p.hashes = <<>> THEN 0 ELSE Len(p.hashes) - 1
    BY <2>1, BelowDetach
  <2>5. Len(p.hashes) = 0 => p.hashes = <<>>
    BY <2>2, EmptySeq
  <2>6. p.hashes = <<>> => d.hashes = <<>>
    BY <2>1 DEF DetachBlock, Queue
  <2> HIDE DEF d
  <2>7. Len(d.hashes) = 0 \/ Len(d.hashes) + 1 <= Len(p.hashes)
    BY <2>2, <2>4
  <2>8. QED
    BY <2>1, <2>3, <2>4, <2>5, <2>6, <2>7 DEF d
<1>3. QED
  BY <1>1, <1>2

\* Undisturbed, a detached block is the current one.
LEMMA DetachFits ==
    ASSUME StateChecks, NEW b \in Seq(Labels) \ {<<>>}, IsReqtokenRelevant(Head(queue)),
           Head(queue).block = b, Head(queue).type = "detach",
           queue \in Seq(Message), queue # <<>>,
           NEW hs, NEW w, NEW x, Takes(Head(queue), w, x, tip),
           state = "CATCHING_UP" => reqToken # NoToken,
           Kept(state, store.view, hs, queue, reqToken, tip, w)
    PROVE  /\ Following /\ IsCurrent(b) /\ Len(b) > Len(Genesis)
           /\ UndoKept(store.view, Len(hs)) /\ Below(hs, Len(b))
           /\ state = "UP_TO_DATE" => x = Parent(b)
           /\ state = "CATCHING_UP" =>
                 /\ x = w /\ OnWalk(Tail(queue), reqToken, Parent(b))
                 /\ Len(tip) > Len(Genesis)
<1>1. state # "CATCHING_UP" => w = b /\ x = Parent(b)
  BY DEF IsReqtokenRelevant, Takes, WalkStep, StepFrom, StepTo
<1>2. Len(b) > Len(Genesis) /\ Len(b) \in Nat /\ Len(Genesis) \in Nat
  BY BlockchainAssumption, LenProperties DEF Takes, RouteStep
<1>3. state # "PREGENESIS"
  BY <1>1, <1>2 DEF Kept
<1>4. CASE state = "UP_TO_DATE"
  <2>1. /\ At(w, store.view.block) /\ Below(hs, Len(w))
        /\ UndoKept(store.view, Len(hs))
    BY <1>4 DEF Kept
  <2>2. store.view.block = b
    BY <1>1, <1>2, <1>4, <2>1 DEF At
  <2>3. QED
    BY <1>1, <1>2, <1>4, <2>1, <2>2 DEF Following, IsCurrent
<1>5. CASE state = "CATCHING_UP"
  <2>1. Head(queue).token = reqToken /\ reqToken # NoToken
    BY <1>5 DEF IsReqtokenRelevant
  <2>2. x = w
    BY <2>1 DEF Takes, WalkStep
  <2>3. /\ OnWalk(queue, reqToken, store.view.block) /\ Len(tip) > Len(Genesis)
        /\ UndoKept(store.view, Len(hs)) /\ Below(hs, Len(store.view.block))
    BY <1>5 DEF Kept
  <2>4. PICK y \in Seq(Labels) : /\ OnWalk(Tail(queue), reqToken, y)
                                 /\ WalkStep(Head(queue), reqToken, store.view.block, y)
    BY <2>3, OnWalkTail
  <2>5. y = Parent(b) /\ store.view.block = b
    BY <2>1, <2>4 DEF WalkStep, StepFrom, StepTo
  <2>6. QED
    BY <1>2, <1>5, <2>2, <2>3, <2>4, <2>5 DEF Following, IsCurrent
<1>6. QED
  BY <1>3, <1>4, <1>5 DEF StateChecks

\* Undisturbed, BlockDetach keeps the hashes and the undo data in step.
LEMMA DetachKept ==
    ASSUME IInv, StateChecks, NEW b \in Seq(Labels) \ {<<>>},
           Head(queue).block = b, Head(queue).type = "detach",
           IsReqtokenRelevant(Head(queue)), queue # <<>>,
           NEW w, NEW x, Takes(Head(queue), w, x, tip), Len(b) <= Len(tip),
           tip \in Seq(Labels), Held(store, SettledBlocks(tip, x)),
           state = "CATCHING_UP" => reqToken # NoToken,
           Kept(state, store.view, Hashes(pruning), queue, reqToken, tip, w)
    PROVE  LET hs2 == Hashes(DetachedQueue(pruning))
               s   == UpdateStateForDetach(b)
           IN  /\ DetachNeedsReinit(b) => ReinitReady(s.view, hs2, tip, x)
               /\ ~DetachNeedsReinit(b) =>
                     Kept(state, s.view, hs2, Tail(queue), reqToken, tip, x)
               /\ \A n : Keeps(store.view, s.view, n)
<1> DEFINE hs == Hashes(pruning)
           hs2 == Hashes(DetachedQueue(pruning))
           s == UpdateStateForDetach(b)
<1>1. /\ queue \in Seq(Message) /\ pruning \in Queue \cup {NoPruning}
      /\ store.view \in Database /\ DatabaseCorrect(store.view)
      /\ DetachedQueue(pruning) \in Queue \cup {NoPruning}
  <2>1. pruning \in Queue => DetachBlock(pruning) \in Queue
    BY QueueTypes
  <2>2. QED
    BY <2>1 DEF IInv, TypeOK, GoodStore, Store, DetachedQueue
<1>2. /\ b \in Seq(Labels) /\ Parent(b) \in Seq(Labels) /\ Len(Parent(b)) = Len(b) - 1
      /\ Len(b) \in Nat /\ Len(Genesis) \in Nat /\ NoBlock \notin Seq(Labels)
  BY ParentType, BlockchainAssumption, LenProperties
<1>3. /\ Following /\ IsCurrent(b) /\ Len(b) > Len(Genesis)
      /\ UndoKept(store.view, Len(hs)) /\ Below(hs, Len(b))
      /\ state = "UP_TO_DATE" => x = Parent(b)
      /\ state = "CATCHING_UP" =>
            /\ x = w /\ OnWalk(Tail(queue), reqToken, Parent(b))
            /\ Len(tip) > Len(Genesis)
  BY <1>1, DetachFits
<1>4. store.view.block = b
  BY <1>3 DEF IsCurrent
<1>5. /\ UndoDataOf(store.view, b) # {} =>
            /\ s.view.block = Parent(b)
            /\ s.view.undo = {r \in store.view.undo : r.block # b}
      /\ UndoDataOf(store.view, b) = {} => s.view = EmptyDatabase
  BY <1>3, DetachPruned
<1>6. /\ Below(hs2, Len(b) - 1)
      /\ Len(hs2) = 0 \/ Len(hs2) + 1 <= Len(hs)
      /\ Len(hs) = 0 => hs2 = <<>>
  BY <1>1, <1>2, <1>3, QueueDetach
<1>7. Len(hs) \in Nat /\ Len(hs2) \in Nat
  BY <1>1, HashesType
<1> HIDE DEF hs, hs2, s
<1> DEFINE Goal == /\ DetachNeedsReinit(b) => ReinitReady(s.view, hs2, tip, x)
                   /\ ~DetachNeedsReinit(b) =>
                         Kept(state, s.view, hs2, Tail(queue), reqToken, tip, x)
                   /\ \A n : Keeps(store.view, s.view, n)
<1>8. CASE UndoDataOf(store.view, b) = {}
  <2>1. DetachNeedsReinit(b)
    BY <1>3, <1>8 DEF DetachNeedsReinit
  <2>2. Len(hs) = 0
    <3>1. OnChain(b, store.view.block)
      BY <1>2, <1>4, OnChainParts
    <3>2. ~(Len(b) > Len(store.view.block) - Len(hs))
      BY <1>2, <1>3, <1>8, <3>1 DEF UndoKept
    <3>3. QED
      BY <1>2, <1>4, <1>7, <3>2
  <2>3. s.view.block = NoBlock /\ ~HasState(s.view)
    BY <1>5, <1>8 DEF EmptyDatabase, HasState
  <2>4. ReinitReady(s.view, hs2, tip, x)
    BY <1>6, <2>2, <2>3, ReadyEmpty
  <2>5. \A n : Keeps(store.view, s.view, n)
    BY <1>1, <2>3, KeepsNone
  <2>6. Goal
    BY <2>1, <2>4, <2>5
  <2>7. QED
    BY <2>6 DEF hs2, s
<1>9. CASE UndoDataOf(store.view, b) # {}
  <2>1. /\ s.view.block = Parent(b) /\ HasState(s.view)
        /\ s.view.undo = {r \in store.view.undo : r.block # b}
    BY <1>2, <1>5, <1>9 DEF HasState
  <2>2. UndoKept(s.view, Len(hs2))
    BY <1>3, <1>4, <1>6, <1>7, <2>1, KeptDetach
  <2>3. Below(hs2, Len(Parent(b)))
    BY <1>2, <1>6
  <2>4. ASSUME NEW n PROVE Keeps(store.view, s.view, n)
    <3>1. ~OnChain(b, Parent(b))
      BY <1>2 DEF OnChain
    <3>2. QED
      BY <2>1, <3>1 DEF Keeps
  <2>5. CASE state = "UP_TO_DATE"
    <3>1. ~DetachNeedsReinit(b)
      BY <1>3, <1>9, <2>5 DEF DetachNeedsReinit
    <3>2. Kept(state, s.view, hs2, Tail(queue), reqToken, tip, x)
      BY <1>3, <2>1, <2>2, <2>3, <2>5 DEF Kept, At
    <3>3. Goal
      BY <2>4, <3>1, <3>2
    <3>4. QED
      BY <3>3 DEF hs2, s
  <2>6. CASE state = "CATCHING_UP"
    <3>1. tip # Genesis
      BY <1>2, <1>3, <2>6
    <3>2. ReinitReady(s.view, hs2, tip, x)
      BY <2>1, <2>2, <2>3, <3>1 DEF ReinitReady
    <3>3. Kept(state, s.view, hs2, Tail(queue), reqToken, tip, x)
      BY <1>3, <2>1, <2>2, <2>3, <2>6 DEF Kept
    <3>4. Goal
      BY <2>4, <3>2, <3>3
    <3>5. QED
      BY <3>4 DEF hs2, s
  <2>7. QED
    BY <1>3, <2>5, <2>6 DEF Following
<1>10. QED
  BY <1>8, <1>9

\* A block is detached.
LEMMA BlockDetachPruned ==
    ASSUME IInv, IInv', CatchInv, PruneInv, BlockDetach
    PROVE  PruneStep
<1> DEFINE b == Head(queue).block
           s == UpdateStateForDetach(b)
           p == DetachedQueue(pruning)
<1>1. /\ "detach" \in Topics /\ Receive("detach") /\ IsReqtokenRelevant(Head(queue))
      /\ StateChecks /\ used' = used
  BY DEF BlockDetach, Topics
<1>2. Finish(DetachNeedsReinit(b), s) /\ pruning' = p
  BY DEF BlockDetach, DetachedQueue
<1>3. /\ LowStore(store, Len(tip)) /\ Head(queue).type = "detach" /\ Len(tip) \in Nat
      /\ b \in Seq(Labels) \ {<<>>} /\ Len(b) <= Len(tip) /\ reqToken' = reqToken
  BY <1>1, ReceiveBacked
<1>4. /\ tip' = tip /\ tip \in Seq(Labels) /\ queue' \in Seq(Message)
      /\ LowTokens(queue', lastToken')
      /\ state = "CATCHING_UP" => reqToken' # NoToken
      /\ queue # <<>> /\ queue' = Tail(queue)
  BY <1>1, ReceivePruned
<1>5. PICK w, x : HandlerStart(w, x)
  BY <1>1, ReceivePruned
<1>6. /\ OnRoute(queue', tip, x) /\ Takes(Head(queue), w, x, tip)
      /\ Held(store, SettledBlocks(tip, x)) /\ x \in Seq(Labels)
      /\ Undisturbed =>
            Kept(state, store.view, Hashes(pruning), queue, reqToken, tip, w)
  BY <1>5 DEF HandlerStart, Takes
<1>7. /\ pruning' \in Queue \cup {NoPruning}
      /\ store.view \in Database /\ DatabaseCorrect(store.view)
  BY DEF IInv, TypeOK, GoodStore, Store
<1>8. GoodStore(s) /\ Held(s, SettledBlocks(tip, x)) /\ LowStore(s, Len(tip))
  <2>1. Len(b) > Len(Genesis)
    BY <1>3, <1>6 DEF Takes, RouteStep
  <2>2. Held(s, SettledBlocks(tip, x))
    BY <1>1, <1>3, <1>4, <1>6, <2>1, DetachPruned
  <2>3. GoodStore(s)
    BY <1>1, <1>3, UpdateForDetachGood
  <2>4. LowStore(s, Len(tip))
    BY <1>1, <1>3, LowUpdates
  <2>5. QED
    BY <2>2, <2>3, <2>4
<1>9. Undisturbed =>
         /\ DetachNeedsReinit(b) => ReinitReady(s.view, Hashes(p), tip, x)
         /\ ~DetachNeedsReinit(b) =>
               Kept(state, s.view, Hashes(p), Tail(queue), reqToken, tip, x)
         /\ \A n : Keeps(store.view, s.view, n)
  <2>1. state = "CATCHING_UP" => reqToken # NoToken
    BY <1>3, <1>4
  <2>2. QED
    BY <1>1, <1>3, <1>4, <1>6, <2>1, DetachKept
<1> HIDE DEF p, s, b
<1>10. Undisturbed' => Undisturbed
  BY <1>1 DEF Undisturbed
<1>11. CASE DetachNeedsReinit(b)
  <2>1. ReinitialiseState(s)
    BY <1>2, <1>11 DEF Finish
  <2>2. PruneInv' /\ Restarted(s.view, store'.view, state', tip)
    <3>1. Undisturbed' => ReinitReady(s.view, Hashes(pruning'), tip, x)
      BY <1>2, <1>9, <1>10, <1>11
    <3>2. QED
      BY <1>4, <1>6, <1>7, <1>8, <2>1, <3>1, PrunedReinit
  <2>3. Undisturbed' => Keeps(store.view, store'.view, pruning'.nBlocks)
    BY <1>7, <1>9, <1>10, <2>2, KeepsRestarted
  <2>4. QED
    BY <2>2, <2>3 DEF PruneStep
<1>12. CASE ~DetachNeedsReinit(b)
  <2>1. store' = s /\ state' = state
    BY <1>2, <1>12 DEF Finish
  <2>2. Undisturbed' => Kept(state', store'.view, Hashes(pruning'), queue', reqToken',
                             tip, x)
    BY <1>2, <1>3, <1>4, <1>9, <1>10, <1>12, <2>1
  <2>3. PruneInv'
    BY <1>4, <1>6, <1>8, <2>1, <2>2 DEF PruneInv
  <2>4. Undisturbed' => Keeps(store.view, store'.view, pruning'.nBlocks)
    BY <1>9, <1>10, <2>1
  <2>5. QED
    BY <2>3, <2>4 DEF PruneStep
<1>13. QED
  BY <1>11, <1>12

\* A new size: what is in excess of it is dropped, whatever the sync state.
LEMMA SizeKept ==
    ASSUME NEW q \in Queue, NEW n \in Nat, NEW s, GoodStore(s), NEW B, Held(s, B),
           NEW st \in States, NEW m, NEW k, NEW b, NEW w \in Seq(Labels),
           Kept(st, s.view, q.hashes, m, k, b, w)
    PROVE  LET t == SetDesiredSizeStore(q, n, s)
           IN  /\ Kept(st, t.view, SetDesiredSize(q, n).hashes, m, k, b, w)
               /\ Keeps(s.view, t.view, n)
<1> DEFINE t == SetDesiredSizeStore(q, n, s)
           hs == q.hashes
           hs2 == SetDesiredSize(q, n).hashes
<1>1. /\ s.view \in Database /\ DatabaseCorrect(s.view)
      /\ hs \in Seq(Seq(Labels)) /\ Len(hs) \in Nat /\ Len(w) \in Nat
      /\ HasState(s.view) => s.view.block \in Seq(Labels)
  BY QueueTypes, LenProperties DEF GoodStore, Store, Database, HasState
<1>2. /\ Trims(s, t, B) /\ SetDesiredSize(q, n) \in Queue
      /\ Len(hs2) \in Nat /\ Len(hs2) <= n /\ Len(hs2) <= Len(hs)
  <2>1. 0 \in Int
    OBVIOUS
  <2>2. QED
    BY <2>1, SetDesiredSizeView
<1>3. ASSUME NEW h \in Int, Below(hs, h)
      PROVE  Deep(s, t, h - n) /\ Below(hs2, h)
  BY <1>3, SetDesiredSizeView
<1>4. hs2 \in Seq(Seq(Labels))
  BY <1>2, QueueTypes
<1>5. t.view.block = s.view.block
  BY <1>2 DEF Trims
<1> HIDE DEF t, hs, hs2
<1>6. HasState(t.view) = HasState(s.view)
  BY <1>5 DEF HasState
<1>7. Kept(st, s.view, hs, m, k, b, w)
  BY DEF hs
<1>8. ASSUME HasState(s.view), Below(hs, Len(s.view.block))
      PROVE  Deep(s, t, Len(s.view.block) - n) /\ Keeps(s.view, t.view, n)
  <2>1. s.view.block \in Seq(Labels) /\ Len(s.view.block) \in Int
    BY <1>1, <1>8, LenProperties
  <2>2. Deep(s, t, Len(s.view.block) - n)
    BY <1>3, <1>8, <2>1
  <2>3. QED
    BY <1>5, <2>1, <2>2, KeepsDeep
<1>9. ASSUME HasState(s.view), Below(hs, Len(s.view.block)), UndoKept(s.view, Len(hs))
      PROVE  /\ HasState(t.view) /\ UndoKept(t.view, Len(hs2))
             /\ Below(hs2, Len(s.view.block)) /\ Keeps(s.view, t.view, n)
  <2>1. s.view.block \in Seq(Labels) /\ Len(s.view.block) \in Int
    BY <1>1, <1>9, LenProperties
  <2>2. Deep(s, t, Len(s.view.block) - n) /\ Keeps(s.view, t.view, n)
    BY <1>8, <1>9
  <2>3. Below(hs2, Len(s.view.block))
    BY <1>3, <1>9, <2>1
  <2>4. \A r \in s.view.undo :
           r \in t.view.undo \/ Len(r.block) <= Len(s.view.block) - n
    BY <2>2 DEF Deep
  <2> DEFINE x == Len(hs2)
             y == Len(hs)
  <2>5. x \in Nat /\ y \in Nat /\ x <= n /\ x <= y /\ UndoKept(s.view, y)
    BY <1>1, <1>2, <1>9
  <2> HIDE DEF x, y
  <2>6. UndoKept(t.view, x)
    BY <1>5, <2>1, <2>4, <2>5, KeptDrop
  <2>7. QED
    BY <1>6, <1>9, <2>2, <2>3, <2>6 DEF x
<1> DEFINE Goal == /\ Kept(st, t.view, hs2, m, k, b, w)
                   /\ Keeps(s.view, t.view, n)
<1>10. CASE st = "UNKNOWN"
  <2>1. hs = <<>> /\ Len(<<>>) = 0 /\ 1..0 = {}
    BY <1>7, <1>10 DEF Kept
  <2>2. hs2 = <<>>
    BY <1>2, <1>4, <2>1, EmptySeq
  <2>3. \A h : Below(hs, h)
    BY <2>1 DEF Below
  <2>4. Keeps(s.view, t.view, n)
    <3>1. CASE HasState(s.view)
      BY <1>8, <2>3, <3>1
    <3>2. CASE ~HasState(s.view)
      BY <1>6, <3>2 DEF Keeps
    <3>3. QED
      BY <3>1, <3>2
  <2>5. Kept(st, t.view, hs2, m, k, b, w)
    BY <1>10, <2>2 DEF Kept
  <2>6. QED
    BY <2>4, <2>5 DEF t, hs2
<1>11. CASE st = "PREGENESIS"
  <2>1. ~HasState(s.view) /\ Len(w) < Len(Genesis) /\ Below(hs, Len(w))
    BY <1>7, <1>11 DEF Kept
  <2>2. Below(hs2, Len(w))
    BY <1>1, <1>3, <2>1
  <2>3. Kept(st, t.view, hs2, m, k, b, w)
    BY <1>6, <1>11, <2>1, <2>2 DEF Kept
  <2>4. Keeps(s.view, t.view, n)
    BY <1>6, <2>1 DEF Keeps
  <2>5. QED
    BY <2>3, <2>4 DEF t, hs2
<1>12. CASE st = "UP_TO_DATE"
  <2>1. /\ HasState(s.view) /\ UndoKept(s.view, Len(hs))
        /\ At(w, s.view.block) /\ Below(hs, Len(w))
    BY <1>7, <1>12 DEF Kept
  <2>2. Below(hs2, Len(w))
    BY <1>1, <1>3, <2>1
  <2>3. HasState(t.view) /\ UndoKept(t.view, Len(hs2)) /\ Keeps(s.view, t.view, n)
    <3>1. CASE w = s.view.block
      BY <1>9, <2>1, <3>1
    <3>2. CASE s.view.block = Genesis
      <4>1. t.view.block = Genesis /\ Genesis \in Seq(Labels)
        BY <1>5, <3>2, BlockchainAssumption
      <4>2. UndoKept(t.view, Len(hs2))
        BY <1>2, <4>1, KeptNone
      <4>3. Keeps(s.view, t.view, n)
        BY <1>1, <4>1, KeepsNone
      <4>4. QED
        BY <1>6, <2>1, <4>2, <4>3
    <3>3. QED
      BY <2>1, <3>1, <3>2 DEF At
  <2>4. Kept(st, t.view, hs2, m, k, b, w)
    BY <1>5, <1>12, <2>1, <2>2, <2>3 DEF Kept
  <2>5. QED
    BY <2>3, <2>4 DEF t, hs2
<1>13. CASE st \in {"OUT_OF_SYNC", "CATCHING_UP"}
  <2>1. /\ HasState(s.view) /\ UndoKept(s.view, Len(hs))
        /\ Below(hs, Len(s.view.block)) /\ Len(b) > Len(Genesis)
        /\ st = "CATCHING_UP" => OnWalk(m, k, s.view.block)
    BY <1>7, <1>13 DEF Kept
  <2>2. /\ HasState(t.view) /\ UndoKept(t.view, Len(hs2))
        /\ Below(hs2, Len(s.view.block)) /\ Keeps(s.view, t.view, n)
    BY <1>9, <2>1
  <2>3. Kept(st, t.view, hs2, m, k, b, w)
    BY <1>5, <1>13, <2>1, <2>2 DEF Kept
  <2>4. QED
    BY <2>2, <2>3 DEF t, hs2
<1>14. QED
  BY <1>10, <1>11, <1>12, <1>13 DEF States

\* EnablePruning.
LEMMA EnablePruningPruned ==
    ASSUME IInv, PruneInv, NEW n \in PruneSizes, EnablePruning(n)
    PROVE  PruneStep
<1>1. /\ UNCHANGED <<tip, queue, lastToken, state, reqToken>>
      /\ used' = [used EXCEPT !["enables"] = @ + 1]
  BY DEF EnablePruning, daemonVars, syncVars, Use
<1>2. Undisturbed' => Undisturbed
  <2>1. used \in [Bounds -> Nat]
    BY DEF IInv, TypeOK
  <2>2. /\ {"losses", "fails", "enables"} \subseteq Bounds
        /\ "enables" # "losses" /\ "enables" # "fails"
    BY DEF Bounds
  <2>3. used'["losses"] = used["losses"] /\ used'["fails"] = used["fails"]
    BY <1>1, <2>1, <2>2
  <2>4. QED
    BY <2>3 DEF Undisturbed
<1>3. n \in Nat /\ pruning \in Queue \cup {NoPruning} /\ GoodStore(store)
      /\ state \in States /\ NoPruning \notin Queue
  BY GameAssumption DEF IInv, TypeOK
<1>4. CASE pruning = NoPruning
  <2>1. pruning' = NewQueue(n) /\ store' = store
    BY <1>4 DEF EnablePruning
  <2>2. NewQueue(n) \in Queue /\ NewQueue(n).hashes = <<>>
    BY <1>3 DEF NewQueue, Queue
  <2>3. Hashes(pruning') = Hashes(pruning)
    BY <1>3, <1>4, <2>1, <2>2 DEF Hashes
  <2>4. QED
    BY <1>1, <1>2, <2>1, <2>3, OthersPruned
<1>5. CASE pruning # NoPruning
  <2>1. /\ pruning \in Queue /\ store' = SetDesiredSizeStore(pruning, n, store)
        /\ pruning' = SetDesiredSize(pruning, n) /\ Hashes(pruning) = pruning.hashes
    BY <1>3, <1>5 DEF EnablePruning, Hashes
  <2>2. PICK w \in Seq(Labels) :
           /\ OnRoute(queue, tip, w)
           /\ Held(store, SettledBlocks(tip, w))
           /\ Undisturbed => Kept(state, store.view, pruning.hashes, queue,
                                  reqToken, tip, w)
    BY <2>1 DEF PruneInv
  <2>3. /\ Held(store', SettledBlocks(tip, w))
        /\ pruning' \in Queue /\ pruning'.nBlocks = n
    <3>1. 0 \in Int
      OBVIOUS
    <3>2. /\ Trims(store, SetDesiredSizeStore(pruning, n, store), SettledBlocks(tip, w))
          /\ SetDesiredSize(pruning, n) \in Queue
          /\ SetDesiredSize(pruning, n).nBlocks = n
      BY <1>3, <2>1, <2>2, <3>1, SetDesiredSizeView
    <3>3. QED
      BY <2>1, <3>2 DEF Trims
  <2>4. Hashes(pruning') = pruning'.hashes
    BY <1>3, <2>3 DEF Hashes
  <2>5. Undisturbed => /\ Kept(state, store'.view, pruning'.hashes, queue,
                               reqToken, tip, w)
                       /\ Keeps(store.view, store'.view, n)
    BY <1>3, <2>1, <2>2, SizeKept
  <2>6. PruneInv'
    BY <1>1, <1>2, <2>2, <2>3, <2>4, <2>5 DEF PruneInv
  <2>7. QED
    BY <1>2, <2>3, <2>5, <2>6 DEF PruneStep
<1>6. QED
  BY <1>4, <1>5

-----------------------------------------------------------------------------
(***************************************************************************)
(* The theorem.                                                            *)
(***************************************************************************)

\* PruneInv holds initially.
LEMMA InitPruned ==
    ASSUME Init
    PROVE  PruneInv
<1>1. /\ tip \in Blocks /\ queue = <<>> /\ state = "UNKNOWN" /\ pruning = NoPruning
      /\ store.view = EmptyDatabase /\ store.disk = EmptyDatabase
  BY GameAssumption DEF Init, NewStore
<1>2. tip \in Seq(Labels) /\ NearGenesis(tip)
  BY <1>1, BlockType
<1>3. OnRoute(queue, tip, tip)
  BY <1>1, <1>2, RouteEmpty DEF OnRoute
<1>4. Held(store, SettledBlocks(tip, tip))
  <2>1. NoBlock \in SettledBlocks(tip, tip)
    BY SettledGenesis
  <2>2. EmptyDatabase.block = NoBlock /\ EmptyDatabase.undo = {}
    BY DEF EmptyDatabase
  <2>3. BatchOk(EmptyDatabase, EmptyDatabase)
    BY <2>2 DEF BatchOk
  <2>4. QED
    BY <1>1, <2>1, <2>2, <2>3 DEF Held
<1>5. Kept(state, store.view, Hashes(pruning), queue, reqToken, tip, tip)
  BY <1>1 DEF Kept, Hashes
<1>6. LowTokens(queue, lastToken)
  <2>1. Len(<<>>) = 0 /\ 1..0 = {}
    OBVIOUS
  <2>2. QED
    BY <1>1, <2>1 DEF LowTokens
<1>7. QED
  BY <1>1, <1>2, <1>3, <1>4, <1>5, <1>6 DEF PruneInv

\* PruneInv is inductive relative to the other invariants when no block is
\* invalidated, and every step keeps the blocks that it must.
LEMMA NextPruned ==
    ASSUME ~AllowInvalidate, IInv, IInv', FollowInv, CatchInv, PruneInv, [Next]_vars
    PROVE  PruneStep
<1>1. ASSUME NEW b \in Blocks, DaemonMove(b) PROVE PruneStep
  BY <1>1, DaemonMovePruned
<1>2. CASE Lose
  BY <1>2, LosePruned
<1>3. ASSUME NEW type \in Topics, MissedNotifications(type) PROVE PruneStep
  BY <1>3, MissedNotificationsPruned
<1>4. ASSUME NEW type \in Topics, IgnoreNotification(type) PROVE PruneStep
  BY <1>4, IgnoreNotificationPruned
<1>5. CASE BlockAttach
  BY <1>5, BlockAttachPruned
<1>6. CASE BlockDetach
  BY <1>6, BlockDetachPruned
<1>7. CASE BlockAttachRetry \/ BlockDetachRetry
  BY <1>7, RetriesPruned
<1>8. CASE SendUpdates
  BY <1>8, SendUpdatesPruned
<1>9. ASSUME NEW m \in Moves, PendingMove(m) PROVE PruneStep
  BY <1>9, OthersPruned DEF PendingMove, daemonVars, syncVars, Undisturbed
<1>10. CASE GetCustomStateData
  <2>1. GoodStore(store) /\ store' = FillHeight(store)
    BY <1>10 DEF GetCustomStateData, IInv
  <2>2. store'.view = store.view
    BY <2>1, FillHeightGood
  <2>3. store'.disk = store.disk
    BY <2>1 DEF FillHeight, GoodStore, Store
  <2>4. QED
    BY <1>10, <2>2, <2>3, OthersPruned
    DEF GetCustomStateData, daemonVars, syncVars, Undisturbed
<1>11. ASSUME NEW n \in PruneSizes, EnablePruning(n) PROVE PruneStep
  BY <1>11, EnablePruningPruned
<1>12. CASE Start
  BY <1>12, OthersPruned DEF Start, Undisturbed
<1>13. CASE StartReinitialise
  BY <1>13, StartReinitialisePruned
<1>14. CASE Stop \/ Crash
  BY <1>14, StopPruned
<1>15. CASE CrashInPruning
  BY <1>15, CrashInPruningPruned
<1>16. CASE UNCHANGED vars
  BY <1>16, OthersPruned DEF vars, daemonVars, syncVars, Undisturbed
<1>17. QED
  BY <1>1, <1>2, <1>3, <1>4, <1>5, <1>6, <1>7, <1>8, <1>9, <1>10, <1>11, <1>12, <1>13,
     <1>14, <1>15, <1>16 DEF Next, Notification

\* As long as nothing is lost and no transaction fails, the pruning queue only
\* drops undo data of blocks that are off the current chain or at least nBlocks
\* deep in it (PruningQueue::AttachBlock, SetDesiredSize), whatever reorgs,
\* catch-ups, restarts, crashes and changes of the size come in between; the
\* daemon moves to higher blocks only.
THEOREM PruneTheorem ==
    ASSUME ~AllowInvalidate
    PROVE  Spec => PruneKeepsBlocks
<1> DEFINE Kind ==
             Undisturbed' /\ pruning' # NoPruning =>
               \A r \in store.view.undo \ store'.view.undo :
                 (HasState(store'.view) /\ OnChain(r.block, store'.view.block))
                 => Height(store'.view.block) - Height(r.block) >= pruning'.nBlocks
<1>1. Init => FollowInv /\ CatchInv /\ PruneInv
  BY InitPruned, InitFollows, InitBacked
<1>2. IInv /\ IInv' /\ FollowInv /\ CatchInv /\ PruneInv /\ [Next]_vars
      => FollowInv' /\ CatchInv' /\ PruneStep
  BY NextFollows, NextBacked, NextPruned
<1>3. PruneStep => PruneInv' /\ Kind
  BY DEF PruneStep, Keeps
<1>4. PruneKeepsBlocks <=> [][Kind]_vars
  BY DEF PruneKeepsBlocks
<1>5. QED
  BY <1>1, <1>2, <1>3, <1>4, InvariantTheorem, PTL DEF Spec

-----------------------------------------------------------------------------
(***************************************************************************)
(* The pending state, for a daemon that only moves to higher blocks and    *)
(* has the genesis block from the start.  Whenever Game is not up to date, *)
(* neither its state nor the durable one is that of the tip, so it only    *)
(* becomes up to date where the pending-move processor is told of the      *)
(* block: in the handler that attaches the tip, or when Game starts.       *)
(***************************************************************************)

\* The blocks of the queue follow one another.
Linked(q) == \A i \in 1..(Len(q) - 1) : q[i] = Parent(q[i + 1])

\* What processor p shows, and will add moves to, is on top of block c.
ShownOn(p, c) ==
    /\ p.contexts \subseteq {[block |-> c, state |-> StateOf(c)]}
    /\ p.blockQueue = <<>> \/ Back(p.blockQueue) = c

\* Adding moves keeps it so.
LEMMA AddShown ==
    ASSUME NEW p \in Processor, NEW ms, NEW c, ShownOn(p, c)
    PROVE  LET r == AddPendingMoves(p, ms, StateOf(c))
           IN  ShownOn(r, c) /\ r.blockQueue = p.blockQueue
<1>1. CASE p.blockQueue = <<>> \/ ms = {}
  BY <1>1 DEF AddPendingMoves
<1>2. CASE ~(p.blockQueue = <<>> \/ ms = {})
  <2> DEFINE r == AddPendingMoves(p, ms, StateOf(c))
             a == [m \in Moves |-> p.added[m] + IF m \in ms THEN 1 ELSE 0]
             x == [block |-> Back(p.blockQueue), state |-> StateOf(c)]
  <2>1. r = [p EXCEPT !.added = a, !.contexts = p.contexts \cup {x}]
    BY <1>2 DEF AddPendingMoves, Processor
  <2> HIDE DEF a
  <2>2. r.contexts = p.contexts \cup {x} /\ r.blockQueue = p.blockQueue
    BY <2>1 DEF Processor
  <2> HIDE DEF r
  <2>3. Back(p.blockQueue) = c
    BY <1>2 DEF ShownOn
  <2>4. QED
    BY <2>2, <2>3 DEF ShownOn, r
<1>3. QED
  BY <1>1, <1>2

\* ResetPending starts from no context.
LEMMA ResetShown ==
    ASSUME NEW p \in Processor, NEW mempool, NEW c,
           p.blockQueue = <<>> \/ Back(p.blockQueue) = c
    PROVE  LET r == ResetPending(p, StateOf(c), mempool)
           IN  ShownOn(r, c) /\ r.blockQueue = p.blockQueue
<1> DEFINE kept == p.pending \cap mempool
           none == [m \in Moves |-> 0]
           cleared == [p EXCEPT !.pending = kept, !.added = none, !.contexts = {}]
<1>1. kept \in SUBSET Moves /\ none \in [Moves -> Nat]
  BY DEF Processor
<1> HIDE DEF kept, none
<1>2. cleared \in Processor /\ cleared.contexts = {} /\ cleared.blockQueue = p.blockQueue
  BY <1>1 DEF Processor
<1>3. ResetPending(p, StateOf(c), mempool) = AddPendingMoves(cleared, kept, StateOf(c))
  BY DEF ResetPending, kept, none
<1> HIDE DEF cleared
<1>4. ShownOn(cleared, c)
  BY <1>2 DEF ShownOn
<1>5. QED
  BY <1>2, <1>3, <1>4, AddShown

\* ProcessAttachedBlock.
LEMMA AttachedShown ==
    ASSUME NEW p \in Processor, Linked(p.blockQueue),
           NEW b \in Seq(Labels) \ {<<>>}, NEW mempool
    PROVE  LET r == ProcessAttachedBlock(p, StateOf(b), b, mempool)
           IN  ShownOn(r, b) /\ Linked(r.blockQueue)
<1> DEFINE old == IF p.blockQueue # <<>> /\ Back(p.blockQueue) # Parent(b)
                  THEN <<>> ELSE p.blockQueue
           new == Append(old, b)
           cut == IF Len(new) > BlockQueueSize THEN Tail(new) ELSE new
           p2 == [p EXCEPT !.blockQueue = cut]
<1>1. p.blockQueue \in Seq(Seq(Labels)) /\ b \in Seq(Labels) /\ <<>> \in Seq(Seq(Labels))
  BY DEF Processor
<1>2. /\ old \in Seq(Seq(Labels)) /\ Len(old) \in Nat /\ Linked(old)
      /\ old = <<>> \/ Back(old) = Parent(b)
  <2>1. CASE p.blockQueue # <<>> /\ Back(p.blockQueue) # Parent(b)
    <3>1. old = <<>> /\ Len(<<>>) = 0 /\ 1..(0 - 1) = {}
      BY <2>1
    <3> HIDE DEF old
    <3>2. QED
      BY <1>1, <3>1 DEF Linked
  <2>2. CASE ~(p.blockQueue # <<>> /\ Back(p.blockQueue) # Parent(b))
    <3>1. old = p.blockQueue
      BY <2>2
    <3> HIDE DEF old
    <3>2. QED
      BY <1>1, <2>2, <3>1, LenProperties
  <2>3. QED
    BY <2>1, <2>2
<1> HIDE DEF old
<1>3. /\ new \in Seq(Seq(Labels)) /\ Len(new) = Len(old) + 1 /\ new[Len(old) + 1] = b
      /\ \A i \in 1..Len(old) : new[i] = old[i]
  BY <1>1, <1>2, AppendProperties
<1> HIDE DEF new
<1>4. Linked(new) /\ Back(new) = b /\ new # <<>>
  <2>1. ASSUME NEW i \in 1..(Len(new) - 1) PROVE new[i] = Parent(new[i + 1])
    <3>1. i \in 1..Len(old)
      BY <1>2, <1>3
    <3>2. CASE i = Len(old)
      <4>1. old # <<>>
        BY <3>1, <3>2
      <4>2. new[i] = old[Len(old)] /\ new[i + 1] = b
        BY <1>3, <3>1, <3>2
      <4>3. QED
        BY <1>2, <4>1, <4>2 DEF Back
    <3>3. CASE i # Len(old)
      <4>1. i \in 1..(Len(old) - 1) /\ i + 1 \in 1..Len(old)
        BY <1>2, <3>1, <3>3
      <4>2. new[i] = old[i] /\ new[i + 1] = old[i + 1]
        BY <1>3, <3>1, <4>1
      <4>3. QED
        BY <1>2, <4>1, <4>2 DEF Linked
    <3>4. QED
      BY <3>2, <3>3
  <2>2. Back(new) = b
    BY <1>3 DEF Back
  <2>3. new # <<>>
    BY <1>2, <1>3
  <2>4. QED
    BY <2>1, <2>2, <2>3 DEF Linked
<1>5. cut \in Seq(Seq(Labels)) /\ Linked(cut) /\ Back(cut) = b
  <2>1. CASE ~(Len(new) > BlockQueueSize)
    BY <1>3, <1>4, <2>1
  <2>2. CASE Len(new) > BlockQueueSize
    <3>1. cut = Tail(new) /\ Len(new) \in Nat /\ Len(new) >= 2
      BY <1>2, <1>3, <2>2, PendingAssumption
    <3> HIDE DEF cut
    <3>2. /\ cut \in Seq(Seq(Labels)) /\ Len(cut) = Len(new) - 1
          /\ \A i \in 1..(Len(new) - 1) : cut[i] = new[i + 1]
      BY <1>3, <1>4, <3>1, TailParts
    <3>3. ASSUME NEW i \in 1..(Len(cut) - 1) PROVE cut[i] = Parent(cut[i + 1])
      <4>1. /\ i \in 1..(Len(new) - 1) /\ i + 1 \in 1..(Len(new) - 1)
        BY <3>1, <3>2
      <4>2. cut[i] = new[i + 1] /\ cut[i + 1] = new[(i + 1) + 1]
        BY <3>2, <4>1
      <4>3. new[i + 1] = Parent(new[(i + 1) + 1])
        BY <1>4, <4>1 DEF Linked
      <4>4. QED
        BY <4>2, <4>3
    <3>4. Back(cut) = Back(new)
      <4>1. Len(new) - 1 \in 1..(Len(new) - 1) /\ (Len(new) - 1) + 1 = Len(new)
        BY <3>1
      <4>2. QED
        BY <3>2, <4>1 DEF Back
    <3>5. QED
      BY <1>4, <3>2, <3>3, <3>4 DEF Linked
  <2>3. QED
    BY <2>1, <2>2
<1>6. ProcessAttachedBlock(p, StateOf(b), b, mempool) = ResetPending(p2, StateOf(b), mempool)
  BY DEF ProcessAttachedBlock, old, new
<1> HIDE DEF cut
<1>7. p2 \in Processor /\ p2.blockQueue = cut
  BY <1>5 DEF Processor
<1> HIDE DEF p2
<1>8. QED
  BY <1>5, <1>6, <1>7, ResetShown

\* ProcessDetachedBlock, for the block the processor is at.
LEMMA DetachedShown ==
    ASSUME NEW p \in Processor, Linked(p.blockQueue),
           NEW b \in Seq(Labels) \ {<<>>}, NEW mempool, ShownOn(p, b)
    PROVE  LET r == ProcessDetachedBlock(p, StateOf(Parent(b)), b, mempool)
           IN  ShownOn(r, Parent(b)) /\ Linked(r.blockQueue)
<1> DEFINE q == p.blockQueue
           d == IF q # <<>> /\ Back(q) = b THEN SubSeq(q, 1, Len(q) - 1) ELSE <<>>
           p2 == [p EXCEPT !.blockQueue = d, !.pending = p.pending \cup MovesOf(b)]
<1>1. q \in Seq(Seq(Labels)) /\ <<>> \in Seq(Seq(Labels)) /\ p.pending \in SUBSET Moves
      /\ Len(q) \in Nat
  BY LenProperties DEF Processor
<1>2. MovesOf(b) \in SUBSET Moves
  BY LenProperties DEF MovesOf, Moves
<1> HIDE DEF q
<1>3. d \in Seq(Seq(Labels)) /\ Linked(d) /\ (d = <<>> \/ Back(d) = Parent(b))
  <2>1. CASE q = <<>>
    <3>1. d = <<>> /\ Len(<<>>) = 0 /\ 1..(0 - 1) = {}
      BY <2>1
    <3> HIDE DEF d
    <3>2. QED
      BY <1>1, <3>1 DEF Linked
  <2>2. CASE q # <<>>
    <3>1. Back(q) = b /\ d = SubSeq(q, 1, Len(q) - 1) /\ Linked(q)
      BY <2>2 DEF ShownOn, q
    <3> HIDE DEF d
    <3>2. Len(q) \in Nat \ {0}
      BY <1>1, <2>2, EmptySeq
    <3>3. /\ d \in Seq(Seq(Labels)) /\ Len(d) = Len(q) - 1
          /\ \A i \in 1..(Len(q) - 1) : d[i] = q[i]
      <4>1. 1..(Len(q) - 1) \subseteq 1..Len(q)
        BY <3>2
      <4>2. \A i \in 1..(Len(q) - 1) : q[i] \in Seq(Labels)
        BY <1>1, <4>1, ElementOfSeq
      <4> DEFINE m == Len(q) - 1
      <4>3. m \in Int /\ m \in Nat /\ 1 \in Int /\ \A i \in 1..m : q[i] \in Seq(Labels)
        BY <3>2, <4>2
      <4> HIDE DEF m
      <4>4. /\ SubSeq(q, 1, m) \in Seq(Seq(Labels))
            /\ Len(SubSeq(q, 1, m)) = IF 1 <= m THEN m - 1 + 1 ELSE 0
            /\ \A i \in 1..(m - 1 + 1) : SubSeq(q, 1, m)[i] = q[1 + i - 1]
        BY <4>3, SubSeqProperties
      <4>5. /\ Len(SubSeq(q, 1, m)) = m
            /\ \A i \in 1..m : SubSeq(q, 1, m)[i] = q[i]
        BY <4>3, <4>4
      <4>6. QED
        BY <3>1, <4>4, <4>5 DEF m
    <3>4. ASSUME NEW i \in 1..(Len(d) - 1) PROVE d[i] = Parent(d[i + 1])
      <4>1. i \in 1..(Len(q) - 1) /\ i + 1 \in 1..(Len(q) - 1)
        BY <3>2, <3>3
      <4>2. d[i] = q[i] /\ d[i + 1] = q[i + 1] /\ q[i] = Parent(q[i + 1])
        BY <3>1, <3>3, <4>1 DEF Linked
      <4>3. QED
        BY <4>2
    <3>5. d = <<>> \/ Back(d) = Parent(b)
      <4>1. CASE Len(q) = 1
        BY <3>3, <4>1, EmptySeq
      <4>2. CASE Len(q) # 1
        <5>1. Len(q) - 1 \in 1..(Len(q) - 1) /\ (Len(q) - 1) + 1 = Len(q)
          <6> DEFINE n == Len(q)
          <6>1. n \in Nat \ {0} /\ n # 1
            BY <3>2, <4>2
          <6> HIDE DEF n
          <6>2. n - 1 \in 1..(n - 1) /\ (n - 1) + 1 = n
            BY <6>1
          <6>3. QED
            BY <6>2 DEF n
        <5>2. d[Len(q) - 1] = Parent(q[Len(q)])
          BY <3>1, <3>3, <5>1 DEF Linked
        <5>3. QED
          BY <3>1, <3>3, <5>2 DEF Back
      <4>3. QED
        BY <4>1, <4>2
    <3>6. QED
      BY <3>3, <3>4, <3>5 DEF Linked
  <2>3. QED
    BY <2>1, <2>2
<1>4. ProcessDetachedBlock(p, StateOf(Parent(b)), b, mempool)
      = ResetPending(p2, StateOf(Parent(b)), mempool)
  BY DEF ProcessDetachedBlock, q, Processor
<1> HIDE DEF d
<1>5. p2 \in Processor /\ p2.blockQueue = d
  BY <1>1, <1>2, <1>3 DEF Processor
<1> HIDE DEF p2
<1>6. QED
  BY <1>3, <1>4, <1>5, ResetShown

\* ProcessMove.
LEMMA MoveShown ==
    ASSUME NEW p \in Processor, NEW m \in Moves, NEW c, ShownOn(p, c)
    PROVE  LET r == ProcessMove(p, StateOf(c), m)
           IN  ShownOn(r, c) /\ r.blockQueue = p.blockQueue
<1>1. CASE m \in p.pending
  BY <1>1 DEF ProcessMove
<1>2. CASE m \notin p.pending
  <2> DEFINE k == p.pending \cup {m}
             p2 == [p EXCEPT !.pending = k]
  <2>1. ProcessMove(p, StateOf(c), m) = AddPendingMoves(p2, {m}, StateOf(c))
    BY <1>2 DEF ProcessMove, Processor
  <2>2. k \in SUBSET Moves
    BY DEF Processor
  <2> HIDE DEF k
  <2>3. p2 \in Processor /\ p2.contexts = p.contexts /\ p2.blockQueue = p.blockQueue
    BY <2>2 DEF Processor
  <2> HIDE DEF p2
  <2>4. ShownOn(p2, c)
    BY <2>3 DEF ShownOn
  <2>5. QED
    BY <2>1, <2>3, <2>4, AddShown
<1>3. QED
  BY <1>1, <1>2

-----------------------------------------------------------------------------
(***************************************************************************)
(* The invariant.                                                          *)
(***************************************************************************)

\* Of the blocks attached by the messages with token t, only target g can be
\* as high as the tip b.
FreshQueue(q, t, g, b) ==
    \A i \in 1..Len(q) :
        q[i].token = t /\ q[i].type = "attach"
            => q[i].block = g \/ Height(q[i].block) < Height(b)

\* What processor p has to do with the blocks v and d of the shown and the
\* durable state, in sync state st and with tip b.
Displayed(st, v, d, p, b) ==
    /\ st # "PREGENESIS"
    /\ st = "UNKNOWN" => p = NewProcessor /\ d = v
    /\ st = "UP_TO_DATE" => ShownOn(p, v)
    /\ st \in {"OUT_OF_SYNC", "CATCHING_UP"} => b \notin {v, d}

ShownInv ==
    /\ Height(Genesis) <= Height(tip)
    /\ tip = Genesis => Quiet(queue)
    /\ Linked(pending.blockQueue)
    /\ ~PendingEnabled => pending = NewProcessor
    /\ Displayed(state, store.view.block, store.disk.block, pending, tip)
    /\ state = "CATCHING_UP" => FreshQueue(queue, reqToken, target, tip)

\* A new processor shows nothing.
LEMMA NewShown ==
    /\ Linked(NewProcessor.blockQueue)
    /\ \A c : ShownOn(NewProcessor, c)
<1>1. NewProcessor.blockQueue = <<>> /\ NewProcessor.contexts = {}
  BY DEF NewProcessor
<1>2. Len(<<>>) = 0 /\ 1..(0 - 1) = {}
  OBVIOUS
<1>3. QED
  BY <1>1, <1>2 DEF Linked, ShownOn

\* Taking the first message.
LEMMA TailShown ==
    ASSUME NEW q \in Seq(Message), q # <<>>
    PROVE  /\ Quiet(q) => ~Ordinary(Head(q)) /\ Quiet(Tail(q))
           /\ \A t, g, b : FreshQueue(q, t, g, b) =>
                 /\ FreshQueue(Tail(q), t, g, b)
                 /\ Head(q).token = t /\ Head(q).type = "attach"
                       => Head(q).block = g \/ Len(Head(q).block) < Len(b)
<1>1. /\ Len(Tail(q)) = Len(q) - 1 /\ Len(q) \in Nat \ {0}
      /\ \A i \in 1..(Len(q) - 1) : Tail(q)[i] = q[i + 1]
  BY TailParts
<1>2. Head(q) = q[1] /\ 1 \in 1..Len(q)
  BY <1>1
<1>3. ASSUME NEW i \in 1..Len(Tail(q))
      PROVE  i + 1 \in 1..Len(q) /\ Tail(q)[i] = q[i + 1]
  BY <1>1
<1>4. ASSUME Quiet(q) PROVE ~Ordinary(Head(q)) /\ Quiet(Tail(q))
  BY <1>2, <1>3, <1>4 DEF Quiet
<1>5. ASSUME NEW t, NEW g, NEW b, FreshQueue(q, t, g, b)
      PROVE  /\ FreshQueue(Tail(q), t, g, b)
             /\ Head(q).token = t /\ Head(q).type = "attach"
                   => Head(q).block = g \/ Len(Head(q).block) < Len(b)
  <2>1. Head(q).token = t /\ Head(q).type = "attach"
           => Head(q).block = g \/ Len(Head(q).block) < Len(b)
    BY <1>2, <1>5 DEF FreshQueue
  <2>2. ASSUME NEW i \in 1..Len(Tail(q)), Tail(q)[i].token = t,
               Tail(q)[i].type = "attach"
        PROVE  Tail(q)[i].block = g \/ Len(Tail(q)[i].block) < Len(b)
    <3>1. i + 1 \in 1..Len(q) /\ Tail(q)[i] = q[i + 1]
      BY <1>3
    <3>2. QED
      BY <1>5, <2>2, <3>1 DEF FreshQueue
  <2>3. QED
    BY <2>1, <2>2 DEF FreshQueue
<1>6. QED
  BY <1>4, <1>5

\* The steps to block b attach blocks below it, or b.
LEMMA UpdatesFresh ==
    ASSUME NEW a \in Seq(Labels), NEW b \in Seq(Labels),
           NEW i \in 1..Len(Updates(a, b)), Updates(a, b)[i].type = "attach"
    PROVE  Updates(a, b)[i].block = b \/ Len(Updates(a, b)[i].block) < Len(b)
<1> DEFINE f == ForkHeight(a, b)
           u == Updates(a, b)
<1>1. /\ f \in Nat /\ f <= Len(a) /\ f <= Len(b)
      /\ Len(a) \in Nat /\ Len(b) \in Nat
      /\ Len(u) = (Len(a) - f) + (Len(b) - f)
      /\ \A k \in 1..(Len(a) - f) :
            u[k] = [type |-> "detach", block |-> Prefix(a, Len(a) + 1 - k)]
      /\ \A k \in 1..(Len(b) - f) :
            u[Len(a) - f + k] = [type |-> "attach", block |-> Prefix(b, f + k)]
  BY UpdateParts
<1>2. i \in 1..Len(u) /\ u[i].type = "attach"
  OBVIOUS
<1> HIDE DEF f, u
<1>3. ~(i <= Len(a) - f)
  <2> SUFFICES ASSUME i <= Len(a) - f PROVE FALSE
    OBVIOUS
  <2>1. i \in 1..(Len(a) - f)
    BY <1>1, <1>2
  <2>2. u[i] = [type |-> "detach", block |-> Prefix(a, Len(a) + 1 - i)]
    BY <1>1, <2>1, Zenon
  <2>3. QED
    BY <1>2, <2>2
<1> DEFINE k == i - (Len(a) - f)
<1>4. k \in 1..(Len(b) - f) /\ f + k \in 0..Len(b) /\ Len(a) - f + k = i
  BY <1>1, <1>2, <1>3
<1> HIDE DEF k
<1>5. u[i] = [type |-> "attach", block |-> Prefix(b, f + k)]
  BY <1>1, <1>4, Zenon
<1>6. u[i].block = Prefix(b, f + k)
  BY <1>5
<1>7. Len(Prefix(b, f + k)) = f + k
  BY <1>4, PrefixParts
<1>8. CASE f + k = Len(b)
  BY <1>6, <1>8, PrefixSelf DEF u
<1>9. CASE f + k # Len(b)
  <2>1. f + k < Len(b)
    BY <1>1, <1>4, <1>9
  <2>2. QED
    BY <1>6, <1>7, <2>1 DEF u
<1>10. QED
  BY <1>8, <1>9

\* What the daemon announces does not bear the token of a request ...
LEMMA FreshMove ==
    ASSUME NEW q \in Seq(Message), NEW a \in Seq(Labels), NEW b \in Seq(Labels),
           NEW t \in Nat, t # NoToken, NEW g, Len(a) < Len(b), FreshQueue(q, t, g, a)
    PROVE  /\ FreshQueue(q, t, g, b)
           /\ FreshQueue(q \o WithToken(Updates(a, b), NoToken), t, g, b)
<1> DEFINE u == Updates(a, b)
           r == q \o WithToken(u, NoToken)
<1>1. NoToken \in Nat /\ Len(a) \in Nat /\ Len(b) \in Nat
  BY LenProperties DEF NoToken
<1>2. Sent(q, u, NoToken, r)
  BY <1>1, SentParts
<1> HIDE DEF u, r
<1>3. /\ Len(q) \in Nat /\ Len(u) \in Nat /\ Len(r) = Len(q) + Len(u)
      /\ \A i \in 1..Len(q) : r[i] = q[i]
      /\ \A i \in 1..Len(u) : r[Len(q) + i] = Marked(u[i], NoToken)
  BY <1>2 DEF Sent, Marked
<1>4. \A i \in 1..Len(u) : Marked(u[i], NoToken).token = NoToken
  BY DEF Marked
<1>5. ASSUME NEW i \in 1..Len(q), q[i].token = t, q[i].type = "attach"
      PROVE  q[i].block = g \/ Len(q[i].block) < Len(b)
  <2>1. q[i].block = g \/ Len(q[i].block) < Len(a)
    BY <1>5 DEF FreshQueue
  <2>2. q[i] \in Message
    BY ElementOfSeq
  <2>3. Len(q[i].block) \in Nat
    BY <2>2, LenProperties DEF Message
  <2>4. QED
    BY <1>1, <2>1, <2>3
<1>6. ASSUME NEW i \in 1..Len(r), r[i].token = t, r[i].type = "attach"
      PROVE  r[i].block = g \/ Len(r[i].block) < Len(b)
  <2>1. i \in 0..(Len(q) + Len(u))
    BY <1>3
  <2>2. CASE i \in 0..Len(q)
    <3>1. i \in 1..Len(q)
      BY <1>3, <2>2
    <3>2. QED
      BY <1>3, <1>5, <1>6, <3>1
  <2>3. CASE \E j \in 1..Len(u) : i = Len(q) + j
    <3>1. PICK j \in 1..Len(u) : i = Len(q) + j
      BY <2>3
    <3>2. r[i] = Marked(u[j], NoToken)
      BY <1>3, <3>1
    <3>3. QED
      BY <1>4, <1>6, <3>2
  <2>4. QED
    BY <1>3, <2>1, <2>2, <2>3, SplitIndex
<1>7. QED
  BY <1>5, <1>6 DEF FreshQueue, r, u

\* ... and the answer to a request leads to its target.
LEMMA FreshRequest ==
    ASSUME NEW q \in Seq(Message), NEW a \in Seq(Labels), NEW b \in Seq(Labels),
           NEW t \in Nat, \A i \in 1..Len(q) : q[i].token # t
    PROVE  FreshQueue(q \o WithToken(Updates(a, b), t), t, b, b)
<1> DEFINE u == Updates(a, b)
           r == q \o WithToken(u, t)
<1>1. Sent(q, u, t, r)
  BY SentParts
<1>2. ASSUME NEW j \in 1..Len(u), u[j].type = "attach"
      PROVE  u[j].block = b \/ Len(u[j].block) < Len(b)
  BY <1>2, UpdatesFresh
<1> HIDE DEF u, r
<1>3. /\ Len(q) \in Nat /\ Len(u) \in Nat /\ Len(r) = Len(q) + Len(u)
      /\ \A i \in 1..Len(q) : r[i] = q[i]
      /\ \A i \in 1..Len(u) : r[Len(q) + i] = Marked(u[i], t)
  BY <1>1 DEF Sent, Marked
<1>4. \A i \in 1..Len(u) : /\ Marked(u[i], t).type = u[i].type
                           /\ Marked(u[i], t).block = u[i].block
  BY DEF Marked
<1>5. ASSUME NEW i \in 1..Len(r), r[i].token = t, r[i].type = "attach"
      PROVE  r[i].block = b \/ Len(r[i].block) < Len(b)
  <2>1. i \in 0..(Len(q) + Len(u))
    BY <1>3
  <2>2. ~(i \in 0..Len(q))
    <3> SUFFICES ASSUME i \in 0..Len(q) PROVE FALSE
      OBVIOUS
    <3>1. i \in 1..Len(q)
      BY <1>3
    <3>2. QED
      BY <1>3, <1>5, <3>1
  <2>3. PICK j \in 1..Len(u) : i = Len(q) + j
    BY <1>3, <2>1, <2>2, SplitIndex
  <2>4. r[i] = Marked(u[j], t)
    BY <1>3, <2>3
  <2>5. u[j].type = "attach" /\ r[i].block = u[j].block
    BY <1>4, <1>5, <2>4
  <2>6. QED
    BY <1>2, <2>5
<1>6. QED
  BY <1>5 DEF FreshQueue, r, u

\* ReinitialiseState finds the tip's state, or is out of sync with neither the
\* state shown nor the durable one at the tip.
LEMMA ReinitShown ==
    ASSUME NEW s, GoodStore(s), ReinitialiseState(s), tip \in Seq(Labels),
           Len(Genesis) <= Len(tip), BatchOk(s.disk, s.view),
           s.disk.block = tip => s.view.block = tip
    PROVE  \/ /\ state' = "UP_TO_DATE" /\ store'.view.block = tip
              /\ s.view.block = tip \/ (~HasState(s.view) /\ tip = Genesis)
           \/ state' = "OUT_OF_SYNC" /\ tip \notin {store'.view.block, store'.disk.block}
<1> DEFINE B == {NoBlock, Genesis, s.view.block, s.disk.block}
<1>1. Held(s, B) /\ {NoBlock, Genesis} \subseteq B
  BY DEF Held
<1> HIDE DEF B
<1>2. /\ Held(store', B)
      /\ Restarted(s.view, store'.view, state', tip)
      /\ HasState(s.view) /\ state' = "OUT_OF_SYNC" => store' = s
  BY <1>1, ReinitHeldIn
<1>3. tip # NoBlock /\ ~(Len(tip) < Len(Genesis))
  BY BlockchainAssumption, LenProperties
<1>4. /\ \/ HasState(s.view) /\ store'.view = s.view
         \/ ~HasState(s.view) /\ store'.view.block = Genesis
      /\ state' = IF store'.view.block = tip THEN "UP_TO_DATE" ELSE "OUT_OF_SYNC"
  BY <1>2, <1>3 DEF Restarted
<1>5. CASE store'.view.block = tip
  BY <1>4, <1>5
<1>6. CASE store'.view.block # tip
  <2>1. state' = "OUT_OF_SYNC"
    BY <1>4, <1>6
  <2>2. CASE HasState(s.view)
    BY <1>2, <1>4, <1>6, <2>1, <2>2
  <2>3. CASE ~HasState(s.view)
    <3>1. s.view.block = NoBlock /\ Genesis # tip
      BY <1>4, <1>6, <2>3 DEF HasState
    <3>2. store'.disk.block \in {NoBlock, Genesis, s.view.block, s.disk.block}
      BY <1>2 DEF Held, B
    <3>3. QED
      BY <1>3, <1>6, <2>1, <3>1, <3>2
  <2>4. QED
    BY <2>2, <2>3
<1>7. QED
  BY <1>5, <1>6

-----------------------------------------------------------------------------
(***************************************************************************)
(* The handlers.  Whichever message Game acts on, it is not at the tip.    *)
(***************************************************************************)
HandlerReady(b) ==
    /\ Following /\ HasState(store.view) /\ BatchOk(store.disk, store.view)
    /\ tip \in Seq(Labels) /\ tip' = tip /\ tip # Genesis
    /\ Len(Genesis) <= Len(tip) /\ tip \notin {store.view.block, store.disk.block}
    /\ b \in Seq(Labels) \ {<<>>} /\ Len(b) <= Len(tip)

\* What is left on the channel.
LeftFresh(b) ==
    state = "CATCHING_UP" =>
        /\ FreshQueue(queue', reqToken', target, tip)
        /\ Head(queue).type = "attach" => b = target \/ Len(b) < Len(tip)

LEMMA HandlerShown ==
    ASSUME IInv, CatchInv, PruneInv, ShownInv, NEW type \in Topics, Receive(type),
           StateChecks, IsReqtokenRelevant(Head(queue))
    PROVE  /\ HandlerReady(Head(queue).block) /\ LeftFresh(Head(queue).block)
           /\ Head(queue).type = "detach" => Len(Head(queue).block) > Len(Genesis)
<1> DEFINE m == Head(queue)
<1>1. /\ queue \in Seq(Message) /\ queue # <<>> /\ queue' = Tail(queue)
      /\ tip \in Seq(Labels) /\ tip' = tip /\ reqToken' = reqToken
      /\ GoodStore(store) /\ m.type = type
  BY DEF IInv, TypeOK, Receive
<1>2. /\ m.block \in Seq(Labels) \ {<<>>} /\ Len(m.block) <= Len(tip)
      /\ Len(tip) \in Nat /\ LowStore(store, Len(tip))
  BY ReceiveBacked
<1>3. PICK w \in Seq(Labels) :
         OnRoute(queue, tip, w) /\ Held(store, SettledBlocks(tip, w))
  BY DEF PruneInv
<1>4. PICK x : OnRoute(Tail(queue), tip, x) /\ Takes(m, w, x, tip)
  BY <1>1, <1>3, OnRouteTail
<1>5. Len(Genesis) <= Len(tip) /\ Len(Genesis) \in Nat
  BY BlockchainAssumption, LenProperties DEF ShownInv
<1>6. Following /\ HasState(store.view)
  <2>1. state # "PREGENESIS"
    BY DEF ShownInv, Displayed
  <2>2. QED
    BY <2>1 DEF StateChecks, Following
<1> DEFINE v == store.view.block
<1>7. /\ v \in Seq(Labels) /\ NearGenesis(v) /\ Len(Genesis) <= Len(v)
      /\ v = Genesis \/ w = tip \/ Len(v) < Len(tip)
      /\ Len(v) <= Len(tip) /\ Len(v) \in Nat
  <2>1. v \in SettledBlocks(tip, w) /\ v # NoBlock
    BY <1>3, <1>6 DEF Held, HasState
  <2>2. Len(v) <= Len(tip)
    BY <1>2, <1>6 DEF LowStore, Low
  <2> HIDE DEF v
  <2>3. v \in Seq(Labels) /\ NearGenesis(v) /\ Len(Genesis) <= Len(v)
        /\ (v = Genesis \/ w = tip \/ Len(v) < Len(tip))
    BY <2>1, SettledBlock
  <2>4. QED
    BY <2>2, <2>3, LenProperties DEF v
<1>8. tip \notin {v, store.disk.block} /\ tip # Genesis
  <2>1. CASE state = "UP_TO_DATE"
    <3>1. Ordinary(m)
      BY <2>1 DEF IsReqtokenRelevant, Ordinary
    <3>2. tip # Genesis
      BY <1>1, <3>1, TailShown DEF ShownInv
    <3>3. Len(w) < Len(tip)
      BY <1>4, <3>1 DEF Takes, RouteStep
    <3>4. store.disk = store.view
      BY <1>1, <2>1 DEF IInv, SyncInv, GoodStore
    <3> HIDE DEF v
    <3>5. v # tip
      BY <1>2, <1>7, <3>2, <3>3
    <3>6. QED
      BY <3>2, <3>4, <3>5 DEF v
  <2>2. CASE state = "CATCHING_UP"
    <3>1. tip \notin {v, store.disk.block}
      BY <2>2 DEF ShownInv, Displayed
    <3>2. tip # Genesis
      <4> SUFFICES ASSUME tip = Genesis PROVE FALSE
        OBVIOUS
      <4> HIDE DEF v
      <4>1. Len(v) = Len(Genesis)
        BY <1>5, <1>7
      <4>2. v = Genesis
        BY <1>7, <4>1, AtGenesis
      <4>3. QED
        BY <3>1, <4>2
    <3>3. QED
      BY <3>1, <3>2
  <2>3. QED
    BY <1>6, <2>1, <2>2 DEF Following
<1>9. BatchOk(store.disk, store.view)
  BY <1>3 DEF Held
<1>10. ASSUME state = "CATCHING_UP"
       PROVE  /\ FreshQueue(queue', reqToken', target, tip)
              /\ m.type = "attach" => m.block = target \/ Len(m.block) < Len(tip)
  <2>1. FreshQueue(queue, reqToken, target, tip) /\ m.token = reqToken
    BY <1>10 DEF ShownInv, IsReqtokenRelevant
  <2>2. QED
    BY <1>1, <2>1, TailShown
<1>11. m.type = "detach" => Len(m.block) > Len(Genesis)
  BY <1>4 DEF Takes, RouteStep
<1> HIDE DEF m
<1>13. QED
  BY <1>1, <1>2, <1>5, <1>6, <1>8, <1>9, <1>10, <1>11 DEF HandlerReady, LeftFresh, m

\* What UpdatePending tells the processor of.
LEMMA UpdateShown ==
    ASSUME IInv, IInv', ShownInv, NEW type \in Topics, NEW b \in Seq(Labels) \ {<<>>},
           UpdatePending(type, b),
           state' = "UP_TO_DATE" =>
               \/ type = "attach" /\ store'.view.block = b
               \/ /\ type = "detach" /\ ShownOn(pending, b)
                  /\ store'.view.block = Parent(b)
    PROVE  /\ Linked(pending'.blockQueue) /\ (~PendingEnabled => pending' = NewProcessor)
           /\ state' = "UP_TO_DATE" => ShownOn(pending', store'.view.block)
<1>1. /\ pending \in Processor /\ Linked(pending.blockQueue)
      /\ ~PendingEnabled => pending = NewProcessor
  BY DEF IInv, TypeOK, ShownInv
<1>2. CASE ~(PendingEnabled /\ state' = "UP_TO_DATE")
  <2>1. pending' = pending
    BY <1>2 DEF UpdatePending
  <2>2. QED
    BY <1>1, <1>2, <2>1, NewShown
<1>3. CASE PendingEnabled /\ state' = "UP_TO_DATE"
  <2>1. store'.view.state = StateOf(store'.view.block)
    BY <1>3 DEF IInv, SyncInv, Following, GoodStore, DatabaseCorrect
  <2>2. PICK mempool \in SUBSET Moves :
           pending' = IF type = "attach"
                      THEN ProcessAttachedBlock(pending, store'.view.state, b, mempool)
                      ELSE ProcessDetachedBlock(pending, store'.view.state, b, mempool)
    BY <1>3 DEF UpdatePending
  <2>3. CASE type = "attach" /\ store'.view.block = b
    <3>1. pending' = ProcessAttachedBlock(pending, StateOf(b), b, mempool)
      BY <2>1, <2>2, <2>3
    <3>2. ShownOn(pending', b) /\ Linked(pending'.blockQueue)
      BY <1>1, <3>1, AttachedShown
    <3>3. QED
      BY <1>3, <2>3, <3>2
  <2>4. CASE type = "detach" /\ ShownOn(pending, b) /\ store'.view.block = Parent(b)
    <3>1. pending' = ProcessDetachedBlock(pending, StateOf(Parent(b)), b, mempool)
      BY <2>1, <2>2, <2>4
    <3>2. ShownOn(pending', Parent(b)) /\ Linked(pending'.blockQueue)
      BY <1>1, <2>4, <3>1, DetachedShown
    <3>3. QED
      BY <1>3, <2>4, <3>2
  <2>5. QED
    BY <1>3, <2>3, <2>4
<1>4. QED
  BY <1>2, <1>3

\* A handler that starts over from s becomes up to date only by its block.
LEMMA ReinitEndShown ==
    ASSUME IInv, IInv', ShownInv, NEW type \in Topics, NEW b, HandlerReady(b),
           UpdatePending(type, b), NEW s, GoodStore(s), ReinitialiseState(s),
           BatchOk(s.disk, s.view), s.disk.block = tip => s.view.block = tip,
           s.view.block = tip => type = "attach" /\ b = tip
    PROVE  ShownInv'
<1>1. /\ tip \in Seq(Labels) /\ Len(Genesis) <= Len(tip) /\ tip # Genesis
      /\ tip' = tip /\ b \in Seq(Labels) \ {<<>>}
  BY DEF HandlerReady
<1>2. \/ state' = "UP_TO_DATE" /\ store'.view.block = tip /\ s.view.block = tip
      \/ state' = "OUT_OF_SYNC" /\ tip \notin {store'.view.block, store'.disk.block}
  BY <1>1, ReinitShown
<1>3. state' = "UP_TO_DATE" => type = "attach" /\ store'.view.block = b
  BY <1>2
<1>4. /\ Linked(pending'.blockQueue) /\ (~PendingEnabled => pending' = NewProcessor)
      /\ state' = "UP_TO_DATE" => ShownOn(pending', store'.view.block)
  BY <1>1, <1>3, UpdateShown
<1>5. Displayed(state', store'.view.block, store'.disk.block, pending', tip')
  BY <1>1, <1>2, <1>4 DEF Displayed
<1>6. QED
  BY <1>1, <1>2, <1>4, <1>5 DEF ShownInv

\* ... and one that goes on, by its block or its parent.
LEMMA OnEndShown ==
    ASSUME IInv, IInv', ShownInv, NEW type \in Topics, NEW b, HandlerReady(b),
           UpdatePending(type, b), state' = state, target' = target,
           state = "UP_TO_DATE" =>
               \/ type = "attach" /\ store'.view.block = b
               \/ /\ type = "detach" /\ ShownOn(pending, b)
                  /\ store'.view.block = Parent(b),
           state = "CATCHING_UP" => /\ tip \notin {store'.view.block, store'.disk.block}
                                    /\ FreshQueue(queue', reqToken', target, tip)
    PROVE  ShownInv'
<1>1. /\ tip \in Seq(Labels) /\ Len(Genesis) <= Len(tip) /\ tip # Genesis
      /\ tip' = tip /\ b \in Seq(Labels) \ {<<>>} /\ state' \in {"CATCHING_UP", "UP_TO_DATE"}
  BY DEF HandlerReady, Following
<1>2. /\ Linked(pending'.blockQueue) /\ (~PendingEnabled => pending' = NewProcessor)
      /\ state' = "UP_TO_DATE" => ShownOn(pending', store'.view.block)
  BY <1>1, UpdateShown
<1>3. Displayed(state', store'.view.block, store'.disk.block, pending', tip')
  BY <1>1, <1>2 DEF Displayed
<1>4. QED
  BY <1>1, <1>2, <1>3 DEF ShownInv

\* The blocks a handler for block b may leave in the storage.
Near(b) == {store.view.block, store.disk.block} \cup (IF Matches(b) THEN {b} ELSE {})

\* The state after UpdateStateForAttach.
LEMMA AttachNear ==
    ASSUME IInv, StateChecks, NEW b, HandlerReady(b)
    PROVE  LET s == UpdateStateForAttach(b)
           IN  /\ GoodStore(s) /\ Held(store, Near(b)) /\ Held(s, Near(b))
               /\ Matches(b) => s.view.block = b
               /\ ~Matches(b) => s = store
<1> DEFINE s == UpdateStateForAttach(b)
           B == Near(b)
<1>1. /\ Following /\ b \in Seq(Labels) \ {<<>>} /\ GoodStore(store) /\ store \in Store
      /\ BatchOk(store.disk, store.view)
  BY DEF HandlerReady, IInv, TypeOK
<1>2. GoodStore(s)
  BY <1>1, UpdateForAttachGood
<1>3. Held(store, B)
  BY <1>1 DEF Held, Near
<1>4. CASE ~Matches(b)
  <2>1. s = store
    BY <1>4 DEF UpdateStateForAttach
  <2>2. QED
    BY <1>2, <1>3, <1>4, <2>1
<1>5. CASE Matches(b)
  <2>1. s = AttachToState(store, b) /\ store.view.block = Parent(b)
    BY <1>1, <1>5 DEF UpdateStateForAttach, Matches
  <2>2. b \in B
    BY <1>5 DEF Near
  <2> HIDE DEF B, s
  <2>3. Held(AttachToState(store, b), B)
    BY <1>1, <1>3, <2>1, <2>2, HeldAttach
  <2>4. PICK v \in Database : AttachToState(store, b) = CommitState(store, v) /\ v.block = b
    BY <1>1, <2>1, AttachView
  <2>5. Commit(store, v) \in Store /\ Commit(store, v).view = v
    BY <1>1, CommitFields
  <2>6. CommitState(store, v).view = v
    BY <2>5 DEF CommitState, Store
  <2>7. QED
    BY <1>2, <1>3, <1>5, <2>1, <2>3, <2>4, <2>6 DEF B, s
<1>6. QED
  BY <1>4, <1>5

\* A block is attached.
LEMMA BlockAttachShown ==
    ASSUME IInv, IInv', CatchInv, PruneInv, ShownInv, BlockAttach
    PROVE  ShownInv'
<1> DEFINE b == Head(queue).block
           s == UpdateStateForAttach(b)
           t == PrunedStore(pruning, b, s)
<1>1. /\ "attach" \in Topics /\ Receive("attach") /\ IsReqtokenRelevant(Head(queue))
      /\ StateChecks /\ UpdatePending("attach", b)
      /\ Head(queue).type = "attach"
  BY DEF BlockAttach, Topics, Receive
<1>2. Finish(AttachNeedsReinit(b), t)
  BY DEF BlockAttach, PrunedStore
<1>3. HandlerReady(b) /\ LeftFresh(b)
  BY <1>1, HandlerShown
<1>4. /\ GoodStore(s) /\ Held(s, Near(b)) /\ (Matches(b) => s.view.block = b)
      /\ ~Matches(b) => s = store
  BY <1>1, <1>3, AttachNear
<1>5. /\ tip \notin {store.view.block, store.disk.block} /\ Following
      /\ b \in Seq(Labels) /\ pruning \in Queue \cup {NoPruning}
      /\ Len(tip) \in Nat
  BY <1>3, LenProperties DEF HandlerReady, IInv, TypeOK
<1> HIDE DEF s, b
<1>6. GoodStore(t) /\ Trims(s, t, Near(b))
  BY <1>4, <1>5, QueueAttach
<1> HIDE DEF t
<1>7. /\ t.view.block = s.view.block /\ BatchOk(t.disk, t.view)
      /\ {t.view.block, t.disk.block} \subseteq Near(b)
  BY <1>6 DEF Trims, Held
<1>8. /\ tip \in {t.view.block, t.disk.block} => Matches(b) /\ b = tip
      /\ Matches(b) => t.view.block = b
  BY <1>4, <1>5, <1>7 DEF Near
<1>9. CASE AttachNeedsReinit(b)
  <2>1. ReinitialiseState(t)
    BY <1>2, <1>9 DEF Finish
  <2>2. /\ t.disk.block = tip => t.view.block = tip
        /\ t.view.block = tip => b = tip
    BY <1>8
  <2>3. QED
    BY <1>1, <1>3, <1>6, <1>7, <2>1, <2>2, ReinitEndShown
<1>10. CASE ~AttachNeedsReinit(b)
  <2>1. store' = t /\ state' = state /\ target' = target
    BY <1>2, <1>10 DEF Finish
  <2>2. Matches(b) /\ (state = "CATCHING_UP" => b # target)
    BY <1>5, <1>10 DEF AttachNeedsReinit
  <2>3. store'.view.block = b
    BY <1>8, <2>1, <2>2
  <2>4. ASSUME state = "CATCHING_UP"
        PROVE  /\ tip \notin {store'.view.block, store'.disk.block}
               /\ FreshQueue(queue', reqToken', target, tip)
    <3>1. FreshQueue(queue', reqToken', target, tip) /\ Len(b) < Len(tip)
      BY <1>1, <1>3, <2>2, <2>4 DEF LeftFresh
    <3>2. b # tip
      BY <1>5, <3>1
    <3>3. QED
      BY <1>8, <2>1, <3>1, <3>2
  <2>5. QED
    BY <1>1, <1>3, <2>1, <2>3, <2>4, OnEndShown
<1>11. QED
  BY <1>9, <1>10

\* What a failed BlockAttach leaves is what is durable.
LEMMA FailuresDurable ==
    ASSUME IInv, StateChecks, NEW b \in Seq(Labels) \ {<<>>}, NEW f \in AttachFailures(b)
    PROVE  f.store.view = f.store.disk
<1> DEFINE s == UpdateStateForAttach(b)
           p == Push(pruning, b)
           i == InitialPruneStore(p, b, s)
<1>1. GoodStore(store) /\ GoodStore(s) /\ b \in Seq(Labels)
  BY UpdateForAttachGood DEF IInv
<1>2. ASSUME NEW y, GoodStore(y) PROVE Rollback(y).view = Rollback(y).disk
  BY <1>2 DEF Rollback, GoodStore, Store
<1>3. CASE f = [queue |-> pruning, store |-> Rollback(store)]
  BY <1>1, <1>2, <1>3
<1>4. CASE pruning # NoPruning /\ f \in AttachBlockFailures(pruning, b, s)
  <2>1. p \in Queue
    BY <1>1, <1>4, QueueTypes DEF IInv, TypeOK
  <2> HIDE DEF s, p
  <2>2. GoodStore(i)
    BY <1>1, <2>1, InitialPruneGood DEF SameBlock
  <2> HIDE DEF i
  <2>3. f.store \in {Rollback(s), Rollback(i)}
    BY <1>4 DEF AttachBlockFailures, p, i
  <2>4. QED
    BY <1>1, <1>2, <2>2, <2>3
<1>5. QED
  BY <1>3, <1>4 DEF AttachFailures

\* The transaction that attaches a block, or one that prunes, fails.
LEMMA BlockAttachRetryShown ==
    ASSUME IInv, IInv', CatchInv, PruneInv, ShownInv, BlockAttachRetry
    PROVE  ShownInv'
<1> DEFINE b == Head(queue).block
<1>1. /\ "attach" \in Topics /\ Receive("attach") /\ IsReqtokenRelevant(Head(queue))
      /\ StateChecks /\ UpdatePending("attach", b)
      /\ \E f \in AttachFailures(b) : ReinitialiseState(f.store)
  BY DEF BlockAttachRetry, Topics
<1>2. HandlerReady(b)
  BY <1>1, HandlerShown
<1>3. Held(store, Near(b)) /\ Held(UpdateStateForAttach(b), Near(b))
  BY <1>1, <1>2, AttachNear
<1>4. tip \notin {store.view.block, store.disk.block} /\ b \in Seq(Labels) \ {<<>>}
  BY <1>2 DEF HandlerReady
<1> HIDE DEF b
<1>5. PICK f \in AttachFailures(b) : ReinitialiseState(f.store)
  BY <1>1
<1>6. GoodStore(f.store) /\ f.store.view = f.store.disk
  BY <1>1, <1>4, AttachFailuresGood, FailuresDurable
<1>7. Held(f.store, Near(b))
  BY <1>1, <1>3, <1>4, AttachFailuresHeld
<1>8. BatchOk(f.store.disk, f.store.view) /\ (f.store.view.block = tip => b = tip)
  BY <1>4, <1>7 DEF Held, Near
<1>9. QED
  BY <1>1, <1>2, <1>5, <1>6, <1>8, ReinitEndShown

\* The state after UpdateStateForDetach is not the tip's.
LEMMA DetachNear ==
    ASSUME IInv, StateChecks, NEW b, HandlerReady(b)
    PROVE  LET s == UpdateStateForDetach(b)
           IN  /\ GoodStore(s) /\ BatchOk(s.disk, s.view)
               /\ tip \notin {s.view.block, s.disk.block}
               /\ IsCurrent(b) /\ UndoDataOf(store.view, b) # {} =>
                     s.view.block = Parent(b)
<1> DEFINE s == UpdateStateForDetach(b)
           B == {store.view.block, store.disk.block, Parent(b), NoBlock}
<1>1. /\ Following /\ b \in Seq(Labels) \ {<<>>} /\ GoodStore(store) /\ store \in Store
      /\ BatchOk(store.disk, store.view) /\ tip \in Seq(Labels)
      /\ tip \notin {store.view.block, store.disk.block} /\ Len(b) <= Len(tip)
  BY DEF HandlerReady, IInv, TypeOK
<1>2. GoodStore(s)
  BY <1>1, UpdateForDetachGood
<1>3. Held(store, B)
  BY <1>1 DEF Held
<1>4. tip \notin B
  <2>1. /\ Len(Parent(b)) = Len(b) - 1 /\ Len(b) \in Nat /\ Len(tip) \in Nat
    BY <1>1, ParentType, LenProperties
  <2>2. tip # Parent(b)
    BY <1>1, <2>1
  <2>3. QED
    BY <1>1, <2>2, BlockchainAssumption
<1>5. NoBlock \in B /\ Parent(b) \in B
  OBVIOUS
<1> HIDE DEF B
<1>6. CASE ~IsCurrent(b)
  <2>1. s = store
    BY <1>6 DEF UpdateStateForDetach
  <2>2. QED
    BY <1>1, <1>2, <1>6, <2>1
<1>7. CASE IsCurrent(b) /\ UndoDataOf(store.view, b) = {}
  <2>1. s = Clear(TryAbortTransaction(store))
    BY <1>1, <1>7 DEF UpdateStateForDetach
  <2> HIDE DEF s
  <2>2. Held(s, B)
    BY <1>1, <1>3, <1>5, <2>1, HeldOperations
  <2>3. QED
    BY <1>2, <1>4, <1>7, <2>2 DEF Held, s
<1>8. CASE IsCurrent(b) /\ UndoDataOf(store.view, b) # {}
  <2> DEFINE r == CHOOSE r \in UndoDataOf(store.view, b) : TRUE
  <2>1. s = DetachFromState(store, b, r.data) /\ store.view.block = b
    BY <1>1, <1>8 DEF UpdateStateForDetach, IsCurrent
  <2>2. r \in UndoDataOf(store.view, b)
    BY <1>8
  <2> HIDE DEF r, s
  <2>3. Held(s, B)
    BY <1>1, <1>3, <1>5, <2>1, <2>2, HeldDetach
  <2>4. PICK v \in Database : /\ DetachFromState(store, b, r.data) = CommitState(store, v)
                              /\ v.block = Parent(b)
    BY <1>1, <2>1, <2>2, DetachView
  <2>5. Commit(store, v) \in Store /\ Commit(store, v).view = v
    BY <1>1, CommitFields
  <2>6. CommitState(store, v).view = v
    BY <2>5 DEF CommitState, Store
  <2>7. QED
    BY <1>2, <1>4, <2>1, <2>3, <2>4, <2>6 DEF Held, s
<1>9. QED
  BY <1>6, <1>7, <1>8

\* A block is detached.
LEMMA BlockDetachShown ==
    ASSUME IInv, IInv', CatchInv, PruneInv, ShownInv, BlockDetach
    PROVE  ShownInv'
<1> DEFINE b == Head(queue).block
           s == UpdateStateForDetach(b)
<1>1. /\ "detach" \in Topics /\ Receive("detach") /\ IsReqtokenRelevant(Head(queue))
      /\ StateChecks /\ UpdatePending("detach", b)
  BY DEF BlockDetach, Topics
<1>2. Finish(DetachNeedsReinit(b), s)
  BY DEF BlockDetach
<1>3. HandlerReady(b) /\ LeftFresh(b) /\ Following
  BY <1>1, HandlerShown DEF HandlerReady
<1>4. /\ GoodStore(s) /\ BatchOk(s.disk, s.view)
      /\ tip \notin {s.view.block, s.disk.block}
      /\ IsCurrent(b) /\ UndoDataOf(store.view, b) # {} => s.view.block = Parent(b)
  BY <1>1, <1>3, DetachNear
<1> HIDE DEF s, b
<1>5. CASE DetachNeedsReinit(b)
  <2>1. ReinitialiseState(s)
    BY <1>2, <1>5 DEF Finish
  <2>2. QED
    BY <1>1, <1>3, <1>4, <2>1, ReinitEndShown
<1>6. CASE ~DetachNeedsReinit(b)
  <2>1. store' = s /\ state' = state /\ target' = target
    BY <1>2, <1>6 DEF Finish
  <2>2. store.view.block = b /\ store'.view.block = Parent(b)
    BY <1>3, <1>4, <1>6, <2>1 DEF DetachNeedsReinit, IsCurrent
  <2>3. state = "UP_TO_DATE" => ShownOn(pending, b)
    BY <2>2 DEF ShownInv, Displayed
  <2>4. state = "CATCHING_UP" => /\ tip \notin {store'.view.block, store'.disk.block}
                                 /\ FreshQueue(queue', reqToken', target, tip)
    BY <1>3, <1>4, <2>1 DEF LeftFresh
  <2>5. QED
    BY <1>1, <1>3, <2>1, <2>2, <2>3, <2>4, OnEndShown
<1>7. QED
  BY <1>5, <1>6

\* The transaction that detaches a block fails.
LEMMA BlockDetachRetryShown ==
    ASSUME IInv, IInv', CatchInv, PruneInv, ShownInv, BlockDetachRetry
    PROVE  ShownInv'
<1> DEFINE b == Head(queue).block
           s == Rollback(store)
<1>1. /\ "detach" \in Topics /\ Receive("detach") /\ IsReqtokenRelevant(Head(queue))
      /\ StateChecks /\ UpdatePending("detach", b) /\ ReinitialiseState(s)
  BY DEF BlockDetachRetry, Topics
<1>2. HandlerReady(b) /\ tip # store.disk.block
  BY <1>1, HandlerShown DEF HandlerReady
<1>3. GoodStore(s) /\ s.view = store.disk /\ s.disk = store.disk
  <2>1. GoodStore(store) /\ store \in Store
    BY DEF IInv, TypeOK
  <2>2. GoodStore(s)
    BY <2>1, RollbackGood
  <2>3. s.view = store.disk /\ s.disk = store.disk
    BY <2>1 DEF Rollback, Store
  <2>4. QED
    BY <2>2, <2>3
<1>4. BatchOk(store.disk, store.disk)
  BY DEF BatchOk
<1> HIDE DEF s, b
<1>5. BatchOk(s.disk, s.view) /\ tip \notin {s.view.block, s.disk.block}
  BY <1>2, <1>3, <1>4
<1>6. QED
  BY <1>1, <1>2, <1>3, <1>5, ReinitEndShown

-----------------------------------------------------------------------------
(***************************************************************************)
(* The other steps.                                                        *)
(***************************************************************************)

\* A ReinitialiseState of which the processor learns nothing.
LEMMA RestartShown ==
    ASSUME IInv, PruneInv, ShownInv, rpc = "none", ReinitialiseState(store),
           tip' = tip, pending' = pending, tip = Genesis => Quiet(queue')
    PROVE  ShownInv'
<1> DEFINE v == store.view.block
           d == store.disk.block
<1>1. /\ GoodStore(store) /\ tip \in Seq(Labels) /\ Len(Genesis) <= Len(tip)
      /\ Displayed(state, v, d, pending, tip) /\ state \in States
  BY DEF IInv, TypeOK, ShownInv
<1>2. BatchOk(store.disk, store.view)
  BY DEF PruneInv, Held
<1>3. /\ state = "UP_TO_DATE" => store.disk = store.view
      /\ state \in {"UP_TO_DATE", "CATCHING_UP"} => HasState(store.view)
      /\ state # "OUT_OF_SYNC"
  BY <1>1 DEF IInv, SyncInv, GoodStore, Following
<1>4. /\ Linked(pending.blockQueue) /\ (~PendingEnabled => pending = NewProcessor)
  BY DEF ShownInv
<1> HIDE DEF v, d
<1>5. /\ state = "UNKNOWN" => pending = NewProcessor /\ d = v
      /\ state = "UP_TO_DATE" => ShownOn(pending, v) /\ d = v
      /\ state = "CATCHING_UP" => tip \notin {v, d}
      /\ state \in {"UNKNOWN", "CATCHING_UP", "UP_TO_DATE"}
  BY <1>1, <1>3 DEF Displayed, States, v, d
<1>6. d = tip => v = tip
  BY <1>5
<1>7. \/ /\ state' = "UP_TO_DATE" /\ store'.view.block = tip
         /\ v = tip \/ ~HasState(store.view)
      \/ state' = "OUT_OF_SYNC" /\ tip \notin {store'.view.block, store'.disk.block}
  BY <1>1, <1>2, <1>6, ReinitShown DEF v, d
<1>8. state' = "UP_TO_DATE" => ShownOn(pending', store'.view.block)
  <2>1. CASE state = "UNKNOWN"
    BY <1>5, <2>1, NewShown
  <2>2. CASE state = "UP_TO_DATE"
    BY <1>3, <1>5, <1>7, <2>2
  <2>3. CASE state = "CATCHING_UP"
    BY <1>3, <1>5, <1>7, <2>3
  <2>4. QED
    BY <1>5, <2>1, <2>2, <2>3
<1>9. Displayed(state', store'.view.block, store'.disk.block, pending', tip')
  BY <1>7, <1>8 DEF Displayed
<1>10. QED
  BY <1>1, <1>4, <1>7, <1>9 DEF ShownInv

\* Steps that leave the shown block, the processor and the tip alone.
LEMMA KeptShown ==
    ASSUME ShownInv, UNCHANGED <<tip, pending, state, reqToken, target>>,
           store'.view.block = store.view.block,
           store'.disk.block \in {store.view.block, store.disk.block},
           Quiet(queue) => Quiet(queue'),
           \A t, g, b : FreshQueue(queue, t, g, b) => FreshQueue(queue', t, g, b)
    PROVE  ShownInv'
<1>1. /\ Len(Genesis) <= Len(tip) /\ (tip = Genesis => Quiet(queue))
      /\ Linked(pending.blockQueue) /\ (~PendingEnabled => pending = NewProcessor)
      /\ Displayed(state, store.view.block, store.disk.block, pending, tip)
      /\ state = "CATCHING_UP" => FreshQueue(queue, reqToken, target, tip)
  BY DEF ShownInv
<1>2. Displayed(state', store'.view.block, store'.disk.block, pending', tip')
  BY <1>1 DEF Displayed
<1>3. QED
  BY <1>1, <1>2 DEF ShownInv

\* Where Game is not up to date, the tip is above the genesis block.
LEMMA OutOfSyncAbove ==
    ASSUME IInv, CatchInv, PruneInv, ShownInv, state = "OUT_OF_SYNC"
    PROVE  tip # Genesis
<1> DEFINE v == store.view.block
<1>1. HasState(store.view) /\ v # tip
  BY DEF IInv, SyncInv, ShownInv, Displayed
<1>2. PICK w : Held(store, SettledBlocks(tip, w))
  BY DEF PruneInv
<1>3. v \in SettledBlocks(tip, w) /\ v # NoBlock
  BY <1>1, <1>2 DEF Held, HasState
<1>4. Len(v) <= Len(tip)
  BY <1>1 DEF CatchInv, LowStore, Low
<1> HIDE DEF v
<1>5. v \in Seq(Labels) /\ NearGenesis(v) /\ Len(Genesis) <= Len(v)
  BY <1>3, SettledBlock
<1>6. Len(v) \in Nat /\ Len(Genesis) \in Nat
  BY <1>5, BlockchainAssumption, LenProperties
<1>7. tip = Genesis => Len(v) = Len(Genesis)
  BY <1>4, <1>5, <1>6
<1>8. Len(v) = Len(Genesis) => v = Genesis
  BY <1>5, AtGenesis
<1>9. QED
  BY <1>1, <1>7, <1>8

\* The daemon moves on to a higher block.
LEMMA DaemonMoveShown ==
    ASSUME ~AllowInvalidate, IInv, FollowInv, CatchInv, PruneInv, ShownInv,
           NEW b \in Blocks, DaemonMove(b)
    PROVE  ShownInv'
<1> DEFINE r == queue \o WithToken(Updates(tip, b), NoToken)
<1>1. /\ queue \in Seq(Message) /\ tip \in Seq(Labels) /\ tip' = b /\ Len(tip) < Len(b)
      /\ state' = state /\ reqToken' = reqToken /\ target' = target /\ reqToken \in Nat
      /\ store' = store /\ pending' = pending /\ store \in Store
      /\ queue' = IF phase = "stopped" THEN queue ELSE r
  BY DEF IInv, TypeOK, DaemonMove, syncVars
<1>2. b \in Seq(Labels)
  BY BlockType
<1>3. Len(tip) \in Nat /\ Len(b) \in Nat /\ Len(Genesis) \in Nat
  BY <1>1, <1>2, BlockchainAssumption, LenProperties
<1>4. /\ Len(Genesis) <= Len(tip)
      /\ Linked(pending.blockQueue) /\ (~PendingEnabled => pending = NewProcessor)
      /\ Displayed(state, store.view.block, store.disk.block, pending, tip)
      /\ state = "CATCHING_UP" =>
            FreshQueue(queue, reqToken, target, tip) /\ reqToken # NoToken
  BY DEF ShownInv, PruneInv
<1>5. Len(Genesis) <= Len(b) /\ b # Genesis
  BY <1>1, <1>3, <1>4
<1>6. b \notin {store.view.block, store.disk.block}
  <2>1. ASSUME NEW db, Low(db, Len(tip)) PROVE b # db.block
    BY <1>1, <1>2, <1>3, <2>1, BlockchainAssumption DEF Low, HasState
  <2>2. QED
    BY <2>1 DEF CatchInv, LowStore
<1>7. Displayed(state', store'.view.block, store'.disk.block, pending', tip')
  BY <1>1, <1>4, <1>6 DEF Displayed
<1>8. state' = "CATCHING_UP" => FreshQueue(queue', reqToken', target', tip')
  <2> SUFFICES ASSUME state = "CATCHING_UP" PROVE FreshQueue(queue', reqToken, target, b)
    BY <1>1
  <2>1. phase # "stopped"
    BY DEF IInv, SyncInv
  <2>2. FreshQueue(r, reqToken, target, b)
    BY <1>1, <1>2, <1>4, FreshMove
  <2>3. QED
    BY <1>1, <2>1, <2>2
<1>9. QED
  BY <1>1, <1>4, <1>5, <1>7, <1>8 DEF ShownInv

\* game_sendupdates is answered.
LEMMA SendUpdatesShown ==
    ASSUME IInv, CatchInv, PruneInv, ShownInv, SendUpdates
    PROVE  ShownInv'
<1> DEFINE a == store.view.block
           t == IF queue = <<>> THEN 1 ELSE lastToken + 1
           r == queue \o WithToken(Updates(a, tip), t)
           B == {store.view.block, store.disk.block}
<1>1. /\ queue' = r /\ reqToken' = t /\ state' = "CATCHING_UP" /\ target' = tip
      /\ store' = SetBatchSize(store, BatchSize) /\ rpc = "sendupdates"
      /\ tip' = tip /\ pending' = pending
  BY DEF SendUpdates
<1>2. /\ queue \in Seq(Message) /\ tip \in Seq(Labels) /\ lastToken \in Nat
      /\ store \in Store /\ state = "OUT_OF_SYNC" /\ HasState(store.view)
  BY <1>1 DEF IInv, TypeOK, SyncInv
<1>3. BatchSize \in Nat \ {0}
  BY GameAssumption
<1>4. tip # Genesis
  <2>1. state = "OUT_OF_SYNC"
    BY <1>2
  <2>2. QED
    BY <2>1, OutOfSyncAbove, Zenon
<1>5. a \in Seq(Labels)
  BY <1>2 DEF HasState, Store, Database
<1>6. t \in Nat
  BY <1>2
<1>7. \A i \in 1..Len(queue) : queue[i].token # t
  <2>1. CASE queue = <<>>
    <3>1. Len(queue) = 0 /\ 1..0 = {}
      BY <2>1
    <3>2. QED
      BY <3>1
  <2>2. CASE queue # <<>>
    <3>1. t = lastToken + 1
      BY <2>2
    <3> HIDE DEF t
    <3>2. ASSUME NEW i \in 1..Len(queue) PROVE queue[i].token # t
      <4>1. queue[i] \in Message
        BY <1>2, ElementOfSeq
      <4>2. queue[i].token \in Nat /\ queue[i].token <= lastToken
        BY <4>1 DEF Message, PruneInv, LowTokens
      <4>3. QED
        BY <1>2, <3>1, <4>2
    <3>3. QED
      BY <3>2
  <2>3. QED
    BY <2>1, <2>2
<1> HIDE DEF t, a
<1>8. FreshQueue(r, t, tip, tip)
  BY <1>2, <1>5, <1>6, <1>7, FreshRequest
<1> HIDE DEF r
<1>9. Held(store', B)
  <2>1. Held(store, B)
    BY DEF PruneInv, Held
  <2> HIDE DEF B
  <2>2. QED
    BY <1>1, <1>2, <1>3, <2>1, HeldOperations
<1>10. /\ Len(Genesis) <= Len(tip)
       /\ Linked(pending.blockQueue) /\ (~PendingEnabled => pending = NewProcessor)
       /\ tip \notin B
  BY <1>2 DEF ShownInv, Displayed
<1>11. Displayed(state', store'.view.block, store'.disk.block, pending', tip')
  BY <1>1, <1>9, <1>10 DEF Displayed, Held
<1>12. QED
  BY <1>1, <1>4, <1>8, <1>10, <1>11 DEF ShownInv

\* A move arrives.
LEMMA PendingMoveShown ==
    ASSUME IInv, ShownInv, NEW m \in Moves, PendingMove(m)
    PROVE  ShownInv'
<1> DEFINE c == store.view.block
<1>1. /\ PendingEnabled /\ state = "UP_TO_DATE"
      /\ pending' = ProcessMove(pending, store.view.state, m)
      /\ UNCHANGED <<tip, queue, state, target, reqToken, store>>
  BY DEF PendingMove, daemonVars, syncVars
<1>2. store.view.state = StateOf(c) /\ pending \in Processor
  BY <1>1 DEF IInv, TypeOK, SyncInv, Following, GoodStore, DatabaseCorrect
<1>3. ShownOn(pending, c) /\ Linked(pending.blockQueue)
  BY <1>1 DEF ShownInv, Displayed
<1> HIDE DEF c
<1>4. ShownOn(pending', c) /\ pending'.blockQueue = pending.blockQueue
  BY <1>1, <1>2, <1>3, MoveShown
<1>5. Displayed(state', store'.view.block, store'.disk.block, pending', tip')
  BY <1>1, <1>4 DEF Displayed, c
<1>6. QED
  BY <1>1, <1>3, <1>4, <1>5 DEF ShownInv

\* The process ends.
LEMMA TerminatedShown ==
    ASSUME ShownInv, NEW db, Terminated(db)
    PROVE  ShownInv'
<1>1. /\ state' = "UNKNOWN" /\ pending' = NewProcessor /\ queue' = <<>> /\ tip' = tip
      /\ store'.view = db /\ store'.disk = db
  BY DEF Terminated, NewStore
<1>2. Quiet(<<>>)
  BY DEF Quiet
<1>3. Displayed(state', store'.view.block, store'.disk.block, pending', tip')
  BY <1>1 DEF Displayed
<1>4. QED
  BY <1>1, <1>2, <1>3, NewShown DEF ShownInv

\* A message is taken, and nothing else happens.
LEMMA TakenShown ==
    ASSUME IInv, ShownInv, queue # <<>>, queue' = Tail(queue),
           UNCHANGED <<tip, pending, state, reqToken, target, store>>
    PROVE  ShownInv'
<1>1. queue \in Seq(Message)
  BY DEF IInv, TypeOK
<1>2. /\ Quiet(queue) => Quiet(queue')
      /\ \A t, g, b : FreshQueue(queue, t, g, b) => FreshQueue(queue', t, g, b)
  BY <1>1, TailShown
<1>3. QED
  BY <1>2, KeptShown

\* EnablePruning may drop undo data, but not the current block.
LEMMA EnablePruningShown ==
    ASSUME IInv, PruneInv, ShownInv, NEW n \in PruneSizes, EnablePruning(n)
    PROVE  ShownInv'
<1> DEFINE B == {store.view.block, store.disk.block}
<1>1. UNCHANGED <<tip, queue, pending, state, reqToken, target>>
  BY DEF EnablePruning, daemonVars, syncVars
<1>2. n \in Nat /\ 0 \in Int /\ GoodStore(store) /\ pruning \in Queue \cup {NoPruning}
  BY GameAssumption DEF IInv, TypeOK
<1>3. store'.view.block = store.view.block /\ store'.disk.block \in B
  <2>1. CASE pruning = NoPruning
    BY <2>1 DEF EnablePruning
  <2>2. CASE pruning # NoPruning
    <3>1. Held(store, B)
      BY DEF PruneInv, Held
    <3>2. store' = SetDesiredSizeStore(pruning, n, store) /\ pruning \in Queue
      BY <1>2, <2>2 DEF EnablePruning
    <3> HIDE DEF B
    <3>3. Trims(store, store', B)
      BY <1>2, <3>1, <3>2, SetDesiredSizeView
    <3>4. QED
      BY <3>3 DEF Trims, Held
  <2>3. QED
    BY <2>1, <2>2
<1>4. QED
  BY <1>1, <1>3, KeptShown

\* The process starts over, told by a gap in the numbers or by Start.
LEMMA RestartsShown ==
    ASSUME IInv, PruneInv, ShownInv,
           StartReinitialise \/ (\E type \in Topics : MissedNotifications(type))
    PROVE  ShownInv'
<1>1. CASE StartReinitialise
  <2>1. /\ rpc = "none" /\ ReinitialiseState(store) /\ tip' = tip /\ pending' = pending
        /\ queue' = queue
    BY <1>1 DEF StartReinitialise, daemonVars
  <2>2. tip = Genesis => Quiet(queue)
    BY DEF ShownInv
  <2>3. QED
    BY <2>1, <2>2, RestartShown
<1>2. CASE \E type \in Topics : MissedNotifications(type)
  <2>1. /\ rpc = "none" /\ ReinitialiseState(store) /\ tip' = tip /\ pending' = pending
        /\ queue \in Seq(Message) /\ queue # <<>> /\ queue' = Tail(queue)
    BY <1>2 DEF MissedNotifications, Receive, Unlocked, IInv, TypeOK
  <2>2. tip = Genesis => Quiet(queue')
    BY <2>1, TailShown DEF ShownInv
  <2>3. QED
    BY <2>1, <2>2, RestartShown
<1>3. QED
  BY <1>1, <1>2

\* ShownInv holds initially ...
LEMMA InitShown ==
    ASSUME Init, \A b \in InitTips : Height(Genesis) <= Height(b)
    PROVE  ShownInv
<1>1. /\ tip \in InitTips /\ queue = <<>> /\ state = "UNKNOWN" /\ pending = NewProcessor
      /\ store.view = EmptyDatabase /\ store.disk = EmptyDatabase
  BY DEF Init, NewStore
<1>2. Quiet(<<>>)
  BY DEF Quiet
<1>3. Displayed(state, store.view.block, store.disk.block, pending, tip)
  BY <1>1 DEF Displayed
<1>4. QED
  BY <1>1, <1>2, <1>3, NewShown DEF ShownInv

\* ... and is inductive relative to the other invariants.
LEMMA NextShown ==
    ASSUME ~AllowInvalidate, IInv, IInv', FollowInv, CatchInv, PruneInv, ShownInv,
           [Next]_vars
    PROVE  ShownInv'
<1>1. ASSUME NEW b \in Blocks, DaemonMove(b) PROVE ShownInv'
  BY <1>1, DaemonMoveShown
<1>2. CASE Lose
  BY <1>2, TakenShown DEF Lose, syncVars
<1>3. CASE StartReinitialise \/ \E type \in Topics : MissedNotifications(type)
  BY <1>3, RestartsShown
<1>4. ASSUME NEW type \in Topics, IgnoreNotification(type) PROVE ShownInv'
  BY <1>4, TakenShown DEF IgnoreNotification, Receive
<1>5. CASE BlockAttach
  BY <1>5, BlockAttachShown
<1>6. CASE BlockDetach
  BY <1>6, BlockDetachShown
<1>7. CASE BlockAttachRetry
  BY <1>7, BlockAttachRetryShown
<1>8. CASE BlockDetachRetry
  BY <1>8, BlockDetachRetryShown
<1>9. CASE SendUpdates
  BY <1>9, SendUpdatesShown
<1>10. ASSUME NEW m \in Moves, PendingMove(m) PROVE ShownInv'
  BY <1>10, PendingMoveShown
<1>11. CASE GetCustomStateData
  <2>1. GoodStore(store) /\ store' = FillHeight(store)
    BY <1>11 DEF GetCustomStateData, IInv
  <2>2. store'.view = store.view
    BY <2>1, FillHeightGood
  <2>3. store'.disk = store.disk
    BY <2>1 DEF FillHeight, GoodStore, Store
  <2>4. UNCHANGED <<tip, queue, pending, state, reqToken, target>>
    BY <1>11 DEF GetCustomStateData, daemonVars, syncVars
  <2>5. QED
    BY <2>2, <2>3, <2>4, KeptShown
<1>12. ASSUME NEW n \in PruneSizes, EnablePruning(n) PROVE ShownInv'
  BY <1>12, EnablePruningShown
<1>13. CASE Start
  BY <1>13, KeptShown DEF Start
<1>14. CASE Stop \/ Crash \/ CrashInPruning
  <2>1. PICK db : Terminated(db)
    BY <1>14 DEF Stop, Crash, CrashInPruning
  <2>2. QED
    BY <2>1, TerminatedShown
<1>15. CASE UNCHANGED vars
  BY <1>15, KeptShown DEF vars, daemonVars, syncVars
<1>16. QED
  BY <1>1, <1>2, <1>3, <1>4, <1>5, <1>6, <1>7, <1>8, <1>9, <1>10, <1>11, <1>12, <1>13,
     <1>14, <1>15 DEF Next, Notification

\* The pending state that Game shows while it is up to date was built on the
\* state it shows (PendingMoveProcessor::ProcessAttachedBlock and
\* ProcessDetachedBlock are told of every block that becomes current then),
\* whatever is lost or fails, across catch-ups, restarts and crashes.  It needs
\* a daemon that only moves to higher blocks and is at the genesis height from
\* the start: otherwise an invalidation, or storing the genesis state while
\* blocks below it are still announced, makes Game up to date in the handler of
\* a block that is not the current one, and the processor is told of that block.
THEOREM PendingTheorem ==
    ASSUME ~AllowInvalidate, \A b \in InitTips : Height(Genesis) <= Height(b)
    PROVE  Spec => []PendingOnCurrentState
<1>1. Init => FollowInv /\ CatchInv /\ PruneInv /\ ShownInv
  BY InitPruned, InitFollows, InitBacked, InitShown
<1>2. IInv /\ IInv' /\ FollowInv /\ CatchInv /\ PruneInv /\ ShownInv /\ [Next]_vars
      => FollowInv' /\ CatchInv' /\ PruneInv' /\ ShownInv'
  BY NextFollows, NextBacked, NextPruned, NextShown DEF PruneStep
<1>3. IInv /\ ShownInv => PendingOnCurrentState
  <2> SUFFICES ASSUME IInv, ShownInv, state = "UP_TO_DATE"
               PROVE  pending.contexts \subseteq {[block |-> store.view.block,
                                                   state |-> store.view.state]}
    BY DEF PendingOnCurrentState
  <2>1. ShownOn(pending, store.view.block)
    BY DEF ShownInv, Displayed
  <2>2. store.view.state = StateOf(store.view.block)
    BY DEF IInv, SyncInv, Following, GoodStore, DatabaseCorrect
  <2>3. QED
    BY <2>1, <2>2 DEF ShownOn
<1>4. QED
  BY <1>1, <1>2, <1>3, InvariantTheorem, PTL DEF Spec
=============================================================================
