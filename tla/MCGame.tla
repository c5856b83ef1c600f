------------------------------- MODULE MCGame -------------------------------
(***************************************************************************)
(* Instances of Game for TLC: the block trees' roots and first tips.       *)
(***************************************************************************)
EXTENDS Game, TLC

Genesis0 == <<>>
Genesis1 == <<1>>

TipsRoot == {<<>>}
Tips1 == {<<1>>}

\* What blocks do is exchangeable where no constant names a label.
LabelSymmetry == Permutations(Labels)
=============================================================================
