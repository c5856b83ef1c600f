---------------------------- MODULE PruningQueue ----------------------------
(***************************************************************************)
(* The queue of the most recently attached blocks, from which Game prunes  *)
(* old undo data.  A queue is a record; its operations that touch the      *)
(* storage come in two parts, the new queue and the new store.             *)
(***************************************************************************)
EXTENDS Storage

CONSTANT NoPruning      \* in place of a queue: pruning was not enabled

Queue == [nBlocks : Nat, hashes : Seq(Seq(Labels)), initialPruningDone : BOOLEAN]

NewQueue(n) == [nBlocks |-> n, hashes |-> <<>>, initialPruningDone |-> FALSE]

Reset(q) == [q EXCEPT !.hashes = <<>>, !.initialPruningDone = FALSE]

Push(q, b) == [q EXCEPT !.hashes = Append(@, b)]

-----------------------------------------------------------------------------
\* The hashes in front of the queue that are too many.
Excess(q) == IF Len(q.hashes) > q.nBlocks THEN Len(q.hashes) - q.nBlocks ELSE 0

DropFront(q, k) == [q EXCEPT !.hashes = SubSeq(@, k + 1, Len(@))]

PruneIfTooLong(q) == DropFront(q, Excess(q))

PruneIfTooLongStore(q, s) ==
    IF Excess(q) = 0 THEN s
    ELSE Commit(s, ReleaseUndoData(s.view, {q.hashes[i] : i \in 1..Excess(q)}))

-----------------------------------------------------------------------------
(***************************************************************************)
(* AttachBlock pushes the block; when the queue is full for the first time *)
(* it prunes everything below the queue's front, whose height it computes  *)
(* from the new block's height; then it prunes the front.                  *)
(***************************************************************************)
FillsUp(q) == ~q.initialPruningDone /\ Len(q.hashes) >= q.nBlocks

\* CHECK_GE (height + 1, hashes.size ()), on the queue with b pushed.
FrontHeightCheck(q, b) == FillsUp(q) => Height(b) + 1 >= Len(q.hashes)

FrontHeight(q, b) == Height(b) + 1 - Len(q.hashes)

InitialPruneStore(q, b, s) ==
    IF FillsUp(q) /\ FrontHeight(q, b) > 0
    THEN Commit(s, PruneUndoData(s.view, FrontHeight(q, b) - 1))
    ELSE s

InitialPrune(q) == [q EXCEPT !.initialPruningDone = @ \/ FillsUp(q)]

AttachBlock(q, b) == PruneIfTooLong(InitialPrune(Push(q, b)))

AttachBlockStore(q, b, s) ==
    LET p == Push(q, b)
    IN  PruneIfTooLongStore(InitialPrune(p), InitialPruneStore(p, b, s))

\* Mutant: a detached block stays in the queue.
DetachBlockKeeps(q) == q

DetachBlock(q) ==
    [q EXCEPT !.hashes = IF @ = <<>> THEN @ ELSE SubSeq(@, 1, Len(@) - 1)]

SetDesiredSize(q, n) == PruneIfTooLong([q EXCEPT !.nBlocks = n])

SetDesiredSizeStore(q, n, s) == PruneIfTooLongStore([q EXCEPT !.nBlocks = n], s)

-----------------------------------------------------------------------------
(***************************************************************************)
(* AttachBlock when the storage throws RetryWithNewTransaction: in the     *)
(* initial pruning, or in PruneIfTooLong after k of the excess hashes were *)
(* popped.  The open batch is rolled back, the queue in memory is not.     *)
(***************************************************************************)
AttachBlockFailures(q, b, s) ==
    LET p == Push(q, b)
        initial == [queue |-> p, store |-> Rollback(s)]
        front(k) == [queue |-> DropFront(InitialPrune(p), k),
                     store |-> Rollback(InitialPruneStore(p, b, s))]
    IN  (IF FillsUp(p) /\ FrontHeight(p, b) > 0 THEN {initial} ELSE {})
        \cup (IF Excess(p) > 0 THEN {front(k) : k \in 0..Excess(p)} ELSE {})
=============================================================================
