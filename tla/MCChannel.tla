----------------------------- MODULE MCChannel ------------------------------
EXTENDS Channel, TestGame, TLC

MCParticipants == <<"addr first", "addr second">>

\* Every reinitialisation of the game starts with 0.
MCReinitState(r) == [number |-> 0, count |-> 0]

Symmetry == Permutations(Reinits)
=============================================================================
