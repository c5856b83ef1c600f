---------------------------- MODULE ExampleGames ----------------------------
(***************************************************************************)
(* Mover and the game of non-fungible assets under the engine: one of the  *)
(* two games runs, moves come in as pending, blocks with some of them are  *)
(* attached and detached.  Mover writes undo data of its own; for the      *)
(* assets it is a changeset, whose inverse leads back to the state before  *)
(* (module SQLiteGame).  Pending moves are replayed from the mempool after *)
(* each block (module PendingMoves).                                       *)
(***************************************************************************)
EXTENDS Mover, NonFungible

CONSTANTS
    MoverMoves, AssetMoves,     \* the moves players of either game make
    MaxBlocks, MaxMoves         \* bounds: attached blocks, moves altogether

VARIABLES
    game,       \* which game is run
    state,      \* the current state of the game
    chain,      \* the attached blocks: moves, undo data, the state before
    mempool,    \* moves not in a block, in their order
    pending,    \* the game's pending state
    spoiled     \* has a block been undone for which Mover's undo is not exact?

vars == <<game, state, chain, mempool, pending, spoiled>>

Moves == IF game = "mover" THEN MoverMoves ELSE AssetMoves

Init ==
    /\ game \in {"mover", "assets"}
    /\ state = IF game = "mover" THEN GetInitialState ELSE InitialiseState
    /\ pending = IF game = "mover" THEN <<>> ELSE Clear
    /\ chain = <<>> /\ mempool = <<>>
    /\ spoiled = FALSE

AddPending(p, s, mv) ==
    IF game = "mover" THEN AddPendingMove(p, s, mv)
    ELSE AddPendingOperations(p, s, mv)

\* The engine clears the pending state and adds what the mempool holds.
Replay(s, moves) ==
    LET Add(p, mv) == AddPending(p, s, mv)
    IN  FoldLeft(Add, IF game = "mover" THEN <<>> ELSE Clear, moves)

-----------------------------------------------------------------------------
\* Number of moves in the attached blocks.
SumLens == FoldLeft(LAMBDA n, block : n + Len(block.moves), 0, chain)

\* A move arrives in the mempool, and the game hears of it.
MoveArrives ==
    /\ Len(mempool) + SumLens < MaxMoves
    /\ \E mv \in Moves :
        /\ mempool' = Append(mempool, mv)
        /\ pending' = AddPending(pending, state, mv)
    /\ UNCHANGED <<game, state, chain, spoiled>>

\* The moves a block may take: the updates of a name spend one another, so
\* that a later one is not mined without those before it.
Minable(S) ==
    \A i \in S, j \in DOMAIN mempool :
        j < i /\ mempool[j].name = mempool[i].name => j \in S

Taken(S) ==
    LET at == SetToSortSeq(S, <)
    IN  [i \in DOMAIN at |-> mempool[at[i]]]

AttachMover(moves) ==
    LET new == ProcessForward(state, moves)
    IN  /\ game = "mover"
        /\ new.ok
        /\ state' = new.players
        /\ chain' = Append(chain, [moves |-> moves, undo |-> new.undo, old |-> state])

AttachAssets(moves) ==
    /\ game = "assets"
    /\ state' = ProcessAll(state, moves)
    /\ chain' = Append(chain, [moves |-> moves, undo |-> <<>>, old |-> state])

Attach ==
    /\ Len(chain) < MaxBlocks
    /\ \E S \in SUBSET DOMAIN mempool :
        /\ Minable(S)
        /\ AttachMover(Taken(S)) \/ AttachAssets(Taken(S))
        /\ mempool' = Taken(DOMAIN mempool \ S)
        /\ pending' = Replay(state', mempool')
    /\ UNCHANGED <<game, spoiled>>

\* Players whose undo data is not exact: they were there before the block and
\* move in it more than once, and only the last change is remembered.
MovedTwice(block) ==
    {nm \in DOMAIN block.old :
        \E i, j \in DOMAIN block.moves :
            /\ i # j
            /\ \A k \in {i, j} : block.moves[k].name = nm /\ ParseMove(block.moves[k])}

DetachMover(block) ==
    LET old == ProcessBackwards(state, block.undo)
    IN  /\ game = "mover"
        /\ old.ok
        /\ state' = old.players
        /\ spoiled' = (spoiled \/ MovedTwice(block) # {})

DetachAssets(block) ==
    /\ game = "assets"
    /\ state' = block.old
    /\ UNCHANGED spoiled

\* The moves of the block are in the mempool again, before the others.
Detach ==
    /\ chain # <<>>
    /\ DetachMover(Last(chain)) \/ DetachAssets(Last(chain))
    /\ chain' = Front(chain)
    /\ mempool' = Last(chain).moves \o mempool
    /\ pending' = Replay(state', mempool')
    /\ UNCHANGED game

\* Nothing is claimed, and nothing followed, from a spoiled state on.
Next == ~spoiled /\ (MoveArrives \/ Attach \/ Detach)

Spec == Init /\ [][Next]_vars

-----------------------------------------------------------------------------
(***************************************************************************)
(* The contract of GameLogic::ProcessBackwards, for Mover: "compute the    *)
(* previous game state from the 'new' one" (gamelogic.hpp).                *)
(* Players and their positions come back always, directions and steps      *)
(* unless a player moves more than once in the block, and no CHECK fails.  *)
(* (After such a block was undone, nothing is claimed: see spoiled.)       *)
(***************************************************************************)
UndoRestoresState ==
    (game = "mover" /\ chain # <<>> /\ ~spoiled) =>
        LET block == Last(chain)
            back == ProcessBackwards(state, block.undo)
        IN  /\ back.ok
            /\ DOMAIN back.players = DOMAIN block.old
            /\ \A nm \in DOMAIN block.old :
                LET was == block.old[nm]
                    is == back.players[nm]
                IN  /\ <<is.x, is.y>> = <<was.x, was.y>>
                    /\ nm \notin MovedTwice(block) => is = was

\* The position of player nm once the moves are mined and it has come to rest.
RestsAt(nm, moves) ==
    LET Block(s, i) == ProcessForward(s, IF i = 1 THEN moves ELSE <<>>).players
        last == FoldLeft(Block, state, [i \in 1..pending[nm].steps |-> i])
    IN  <<last[nm].x, last[nm].y>>

(***************************************************************************)
(* What a game shows as its pending state comes true if the pending moves  *)
(* are mined as they are: Mover's players arrive at their targets, and the *)
(* balances and assets are those shown, although the one computation works *)
(* on an overlay and the other one in the database.  No CHECK on the way   *)
(* fails: no asset is minted twice, no balance leaves 0 .. MAX_AMOUNT.     *)
(***************************************************************************)
PendingForetellsBlock ==
    /\ game = "mover" =>
        /\ ProcessForward(state, mempool).ok
        /\ \A nm \in DOMAIN pending : RestsAt(nm, mempool) = pending[nm].target
    /\ game = "assets" =>
        LET mined == ProcessAll(state, mempool)
        IN  mined.ok /\ mined = Overlay(pending, state)
=============================================================================
