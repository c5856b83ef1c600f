---------------------------- MODULE PendingMoves ----------------------------
(***************************************************************************)
(* PendingMoveProcessor: the moves known from the mempool and the pending  *)
(* state built from them on top of the confirmed one.  A move is its txid; *)
(* block b has the one move that is its label.  What the game makes of the *)
(* moves is left open: the model records the calls of AddPendingMove since *)
(* the last Clear, and the contexts (block meta data and game state) they  *)
(* were made in.                                                           *)
(***************************************************************************)
EXTENDS Blockchain

CONSTANT BlockQueueSize     \* BLOCK_QUEUE_SIZE

ASSUME PendingAssumption == BlockQueueSize \in Nat \ {0}

Moves == Labels

Context == [block : Seq(Labels), state : Seq(Labels)]

Processor == [blockQueue : Seq(Seq(Labels)), pending : SUBSET Moves,
              added : [Moves -> Nat], contexts : SUBSET Context]

NewProcessor == [blockQueue |-> <<>>, pending |-> {},
                 added |-> [m \in Moves |-> 0], contexts |-> {}]

MovesOf(b) == {b[Len(b)]}

Back(q) == q[Len(q)]

-----------------------------------------------------------------------------
\* AddPendingMove for each move of ms, in the context of the last block of
\* the queue and state st; without a block the moves are not processed.
AddPendingMoves(p, ms, st) ==
    IF p.blockQueue = <<>> \/ ms = {} THEN p
    ELSE [p EXCEPT !.added = [m \in Moves |-> @[m] + IF m \in ms THEN 1 ELSE 0],
                   !.contexts = @ \cup {[block |-> Back(p.blockQueue),
                                         state |-> st]}]

\* Clear, then rebuild from the known moves that are still in the mempool.
ResetPending(p, st, mempool) ==
    LET kept == p.pending \cap mempool
        cleared == [p EXCEPT !.pending = kept, !.added = [m \in Moves |-> 0],
                             !.contexts = {}]
    IN  AddPendingMoves(cleared, kept, st)

ProcessAttachedBlock(p, st, b, mempool) ==
    LET old == IF p.blockQueue # <<>> /\ Back(p.blockQueue) # Parent(b)
               THEN <<>> ELSE p.blockQueue
        new == Append(old, b)
        cut == IF Len(new) > BlockQueueSize THEN Tail(new) ELSE new
    IN  ResetPending([p EXCEPT !.blockQueue = cut], st, mempool)

\* Mutant: the detached block stays the last one of the queue.
ProcessDetachedBlockKeeps(p, st, b, mempool) ==
    ResetPending([p EXCEPT !.pending = @ \cup MovesOf(b)], st, mempool)

ProcessDetachedBlock(p, st, b, mempool) ==
    LET q == IF p.blockQueue # <<>> /\ Back(p.blockQueue) = b
             THEN SubSeq(p.blockQueue, 1, Len(p.blockQueue) - 1) ELSE <<>>
    IN  ResetPending([p EXCEPT !.blockQueue = q, !.pending = @ \cup MovesOf(b)],
                     st, mempool)

\* Mutant: a move is processed again when its notification is repeated.
ProcessMoveAgain(p, st, m) ==
    AddPendingMoves([p EXCEPT !.pending = @ \cup {m}], {m}, st)

ProcessMove(p, st, m) ==
    IF m \in p.pending THEN p
    ELSE AddPendingMoves([p EXCEPT !.pending = @ \cup {m}], {m}, st)
=============================================================================
