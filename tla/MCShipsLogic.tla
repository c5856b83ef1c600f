---------------------------- MODULE MCShipsLogic ----------------------------
EXTENDS ShipsLogic, TLC

MCParticipants == <<"addr first", "addr second">>

\* A short game: each seat has a move, the second one decides who wins.
MCBoardStates == {[count |-> c, winner |-> 0] : c \in 0 .. 1}
                    \cup {[count |-> 2, winner |-> w] : w \in 1 .. 2}

MCWhoseTurn(s) == IF s.count = 2 THEN 0 ELSE s.count + 1
MCTurnCount(s) == s.count + 1
MCIsMove(s, mv) == s.count = 0 => mv = 1
MCApplyMove(s, mv) == [count |-> s.count + 1,
                       winner |-> IF s.count = 1 THEN mv ELSE 0]
MCReinitState(r) == [count |-> 0, winner |-> 0]
MCWinner(s) == s.winner

Symmetry == Permutations(Reinits)
=============================================================================
