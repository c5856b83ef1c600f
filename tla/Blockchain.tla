----------------------------- MODULE Blockchain -----------------------------
(***************************************************************************)
(* The block tree Xaya Core serves to a game, and the game's rules on it.  *)
(*                                                                         *)
(* A block hash commits to the block's whole history, so a block is        *)
(* modelled as that history: the sequence of the labels of the blocks from *)
(* height 1 up to it.  A label stands for what a block does to the game    *)
(* (its moves).  The parent, the height and the chain of a block are then  *)
(* plain sequence operations.                                              *)
(*                                                                         *)
(* The daemon is not part of this repository: the updates it sends are     *)
(* modelled from how Game consumes them.                                   *)
(***************************************************************************)
EXTENDS Integers, Sequences, FiniteSets

CONSTANTS
    Labels,      \* the labels a block can have
    MaxHeight,   \* bound: height of the highest block of the tree
    Genesis,     \* the block for which the game defines its initial state
    NoBlock      \* "there is no current game state"

ASSUME BlockchainAssumption ==
    /\ MaxHeight \in Nat
    /\ Genesis \in Seq(Labels)
    /\ NoBlock \notin Seq(Labels)

-----------------------------------------------------------------------------
Height(b) == Len(b)

Prefix(b, h) == SubSeq(b, 1, h)

Parent(b) == Prefix(b, Len(b) - 1)

\* Block a is b or an ancestor of b.
OnChain(a, b) == Len(a) <= Len(b) /\ Prefix(b, Len(a)) = a

\* The blocks of the tree: there is one chain up to the game's genesis block.
Blocks == {b \in UNION {[1..h -> Labels] : h \in 0..MaxHeight} :
                OnChain(b, Genesis) \/ OnChain(Genesis, b)}

\* Height of the last common ancestor.
ForkHeight(a, b) == Cardinality({h \in 1..Len(a) : OnChain(Prefix(a, h), b)})

Step == [type : {"attach", "detach"}, block : Seq(Labels) \ {<<>>}]

\* The steps from block a to block b: a's blocks are detached down to the
\* fork, then b's are attached.
Updates(a, b) ==
    LET f == ForkHeight(a, b) IN
    [i \in 1..(Len(a) - f) |->
        [type |-> "detach", block |-> Prefix(a, Len(a) + 1 - i)]]
    \o [i \in 1..(Len(b) - f) |->
        [type |-> "attach", block |-> Prefix(b, f + i)]]

-----------------------------------------------------------------------------
(***************************************************************************)
(* The rules of the game.  The game state records the labels processed so  *)
(* far, which tells apart any two histories a deterministic game could     *)
(* tell apart: a block applied twice, skipped, out of order or to the      *)
(* wrong state shows.  Undo data is the old state, as CachingGame has it.  *)
(***************************************************************************)

\* The state the rules define for a block.
StateOf(b) == b

InitialState == StateOf(Genesis)

ProcessForward(old, b) == Append(old, b[Len(b)])

UndoFor(old, b) == old

ProcessBackwards(new, b, undo) == undo
=============================================================================
