----------------------------- MODULE ShipsGrid ------------------------------
(***************************************************************************)
(* The board of Xayaships: coordinates, grids and the rules for placing    *)
(* ships.  A coordinate is <<row, column>>, a grid (64 bits in the code)   *)
(* is the set of its cells that are set.  SIDE is 8 in the code, and its   *)
(* fleet has four ships of size 2, two of size 3 and one of size 4.        *)
(***************************************************************************)
EXTENDS Integers, FiniteSets

CONSTANTS SIDE,
          AVAILABLE_SHIPS       \* set of [size, number], one for each size

ASSUME GridAssumption ==
    /\ SIDE \in Nat \ {0}
    /\ IsFiniteSet(AVAILABLE_SHIPS)
    /\ \A t \in AVAILABLE_SHIPS : t.size \in Nat \ {0} /\ t.number \in Nat

CELLS == SIDE * SIDE

\* For a negative index, too, the result is not on the board.
Coord(ind) == <<ind \div SIDE, ind % SIDE>>

IsOnBoard(c) == c[1] \in 0 .. SIDE - 1 /\ c[2] \in 0 .. SIDE - 1

GetIndex(c) == c[1] * SIDE + c[2]

Cells == {Coord(i) : i \in 0 .. CELLS - 1}

Grids == SUBSET Cells

\* The coordinate k steps from c in direction d, or against it for k < 0.
Steps(c, k, d) == CASE d = "RIGHT" -> <<c[1], c[2] + k>>
                    [] d = "LEFT"  -> <<c[1], c[2] - k>>
                    [] d = "DOWN"  -> <<c[1] + k, c[2]>>
                    [] d = "UP"    -> <<c[1] - k, c[2]>>

\* Each cell of each ship, so that there are size * number for each kind.
ShipCells == UNION {{t} \X ((1 .. t.number) \X (1 .. t.size)) :
                        t \in AVAILABLE_SHIPS}

TotalShipCells == Cardinality(ShipCells)

VerifyPositionForAnswers(position, targeted, hits) ==
    position \cap targeted = hits

HasShip(g, c) == IsOnBoard(c) /\ c \in g

\* The number of cells of the ship that starts at c.
ShipSize(g, c, dir) ==
    CHOOSE n \in 1 .. SIDE : /\ \A k \in 0 .. n - 1 : HasShip(g, Steps(c, k, dir))
                             /\ ~HasShip(g, Steps(c, n, dir))

\* Mutant: the cells diagonal to the end of the ship are not looked at.
CheckShipNoTail(g, c, dir, otherDir) ==
    /\ \A j \in -1 .. 1 : ~HasShip(g, Steps(Steps(c, -1, dir), j, otherDir))
    /\ \A k \in 0 .. ShipSize(g, c, dir) - 1, j \in {-1, 1} :
          ~HasShip(g, Steps(Steps(c, k, dir), j, otherDir))

\* There is no ship before the first cell, beside any cell of the ship, or
\* beside the cell after the last one.
CheckShip(g, c, dir, otherDir) ==
    /\ \A j \in -1 .. 1 : ~HasShip(g, Steps(Steps(c, -1, dir), j, otherDir))
    /\ \A k \in 0 .. ShipSize(g, c, dir), j \in {-1, 1} :
          ~HasShip(g, Steps(Steps(c, k, dir), j, otherDir))

\* The cells from which VerifyPositionOfShips follows a ship.
ShipStarts(g) == {c \in g : /\ ~HasShip(g, Steps(c, 1, "UP"))
                            /\ ~HasShip(g, Steps(c, 1, "LEFT"))}

ShipDir(g, c) == IF HasShip(g, Steps(c, 1, "DOWN")) THEN "DOWN" ELSE "RIGHT"

VerifyPositionOfShips(g) ==
    LET otherDir(d) == IF d = "DOWN" THEN "RIGHT" ELSE "DOWN"
        found(n) == {c \in ShipStarts(g) : ShipSize(g, c, ShipDir(g, c)) = n}
    IN  /\ \A c \in ShipStarts(g) :
              CheckShip(g, c, ShipDir(g, c), otherDir(ShipDir(g, c)))
        /\ \A t \in AVAILABLE_SHIPS : Cardinality(found(t.size)) = t.number
        /\ \A c \in ShipStarts(g) : \E t \in AVAILABLE_SHIPS :
              t.size = ShipSize(g, c, ShipDir(g, c))

-----------------------------------------------------------------------------
\* What a position is meant to be: a set of straight ships, as many of each
\* size as there should be, no two of which touch, not even diagonally.
Line(c, n, d) == {Steps(c, k, d) : k \in 0 .. n - 1}

Ships == {l \in {Line(c, t.size, d) : c \in Cells, t \in AVAILABLE_SHIPS,
                                      d \in {"RIGHT", "DOWN"}} :
             l \subseteq Cells}

Touch(a, b) == \E x \in a, y \in b : /\ x[1] - y[1] \in -1 .. 1
                                     /\ x[2] - y[2] \in -1 .. 1

IsFleet(g) ==
    LET inside == {l \in Ships : l \subseteq g /\
                      \A m \in Ships : m \subseteq g /\ l \subseteq m => m = l}
    IN  /\ UNION inside = g
        /\ \A a, b \in inside : a # b => ~Touch(a, b)
        /\ \A t \in AVAILABLE_SHIPS :
              Cardinality({l \in inside : Cardinality(l) = t.size}) = t.number
=============================================================================
