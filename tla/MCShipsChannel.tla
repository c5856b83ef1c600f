--------------------------- MODULE MCShipsChannel ---------------------------
EXTENDS ShipsChannel, Functions, TLC

MCFleet == {[size |-> 2, number |-> 1]}

MCStartingPlayer(s, t) == IF s = t THEN 1 ELSE 2

MCLowCells == {<<0, 0>>, <<0, 1>>, <<1, 0>>}

MCOwnPositions == {{<<0, 1>>, <<1, 1>>}}

MCOtherPositions == {{<<1, 0>>, <<1, 1>>}, {<<1, 1>>}}

Symmetry == Permutations(Threads) \cup Permutations(Seeds)

\* The rules for positions on a larger board, where ships can touch.
Two == INSTANCE ShipsGrid WITH
          SIDE <- 3, AVAILABLE_SHIPS <- {[size |-> 2, number |-> 2]}

Mixed == INSTANCE ShipsGrid WITH
            SIDE <- 3, AVAILABLE_SHIPS <- {[size |-> 2, number |-> 1],
                                           [size |-> 3, number |-> 1]}

\* When a game starts and a daemon waits for its position, it will accept
\* exactly the positions that are a fleet of straight ships of which no two
\* touch, though it only follows each ship from its first cell
\* (VerifyPositionOfShips, CheckShip).
PositionsAreFleets ==
    (/\ board = InitialBoardState /\ faults = 0
     /\ \A p \in daemons : ~IsPositionSet(p) /\ Range(call[p]) = {None}) =>
        /\ \A g \in Two!Grids : Two!VerifyPositionOfShips(g) <=> Two!IsFleet(g)
        /\ \A g \in Mixed!Grids :
              Mixed!VerifyPositionOfShips(g) <=> Mixed!IsFleet(g)
=============================================================================
