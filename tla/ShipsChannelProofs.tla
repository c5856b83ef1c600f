------------------------- MODULE ShipsChannelProofs -------------------------
(***************************************************************************)
(* Xayaships for every size of the board, every fleet and every set of     *)
(* positions and seeds.                                                    *)
(*                                                                         *)
(* First the geometry: the positions that VerifyPositionOfShips accepts    *)
(* are the fleets, and none has more cells than TotalShipCells.  Then the  *)
(* boards: GoodBoard says what a board looks like in each phase, and every *)
(* allowed move keeps it and raises the turn count.  Last the daemons:     *)
(* Honest says that a board agrees with the secrets of a player, and the   *)
(* invariant ShipsInv that it does for all who have kept theirs.           *)
(***************************************************************************)
EXTENDS ShipsChannel, FiniteSetTheorems, SequenceTheorems,
        WellFoundedInduction, TLAPS

(* A non-empty set of natural numbers has a least element. *)
LEMMA LeastNumber ==
    ASSUME NEW T, T \subseteq Nat, T # {}
    PROVE  \E x \in T : \A y \in T : x <= y
<1>1. PICK x \in T : \A y \in T : ~(<<y, x>> \in OpToRel(<, Nat))
  BY WFMin, NatLessThanWellFounded, Zenon
<1>2. \A y \in T : y < x => <<y, x>> \in OpToRel(<, Nat)
  BY DEF OpToRel
<1>3. \A y \in T : ~(y < x)
  BY <1>1, <1>2, Zenon
<1>4. QED
  BY <1>3

-----------------------------------------------------------------------------
(* The cells of the board. *)

(* A product grows with its factors. *)
LEMMA Monotone ==
    ASSUME NEW m \in Nat, NEW a \in Int, NEW b \in Int, a <= b
    PROVE  m * a <= m * b
  OBVIOUS

(* The only multiple of m between -m and m is 0. *)
LEMMA SmallMultiple ==
    ASSUME NEW m \in Nat \ {0}, NEW k \in Int, m * k < m, m * k > -m
    PROVE  k = 0
  OBVIOUS

(* Coord and GetIndex are inverse to each other. *)
LEMMA CoordOfIndex ==
    ASSUME NEW r \in 0 .. SIDE - 1, NEW c \in 0 .. SIDE - 1
    PROVE  r * SIDE + c \in 0 .. CELLS - 1 /\ Coord(r * SIDE + c) = <<r, c>>
<1> DEFINE i == SIDE * r + c
           q == i \div SIDE
           m == i % SIDE
<1>1. SIDE \in Nat \ {0} /\ r \in Nat /\ c \in Nat /\ r <= SIDE - 1
  BY GridAssumption
<1>2. SIDE * r \in Nat /\ r * SIDE = SIDE * r
  BY <1>1
<1>3. q \in Int /\ m \in 0 .. SIDE - 1 /\ i = SIDE * q + m
  BY <1>1, <1>2
<1> HIDE DEF q, m
<1>4. SIDE * (q - r) = SIDE * q - SIDE * r
  BY <1>1, <1>3
<1>5. SIDE * (q - r) < SIDE /\ SIDE * (q - r) > -SIDE
  BY <1>1, <1>2, <1>3, <1>4
<1>6. q - r = 0
  BY <1>1, <1>3, <1>5, SmallMultiple
<1>7. q = r /\ m = c
  BY <1>1, <1>2, <1>3, <1>6
<1>8. SIDE * r <= SIDE * (SIDE - 1) /\ SIDE * (SIDE - 1) = SIDE * SIDE - SIDE
  BY <1>1, Monotone
<1>9. i \in 0 .. SIDE * SIDE - 1
  BY <1>1, <1>2, <1>8
<1>10. QED
  BY <1>2, <1>7, <1>9 DEF Coord, CELLS, q, m

LEMMA CellsAre == Cells = (0 .. SIDE - 1) \X (0 .. SIDE - 1)
<1>1. SIDE \in Nat \ {0}
  BY GridAssumption
<1>2. ASSUME NEW i \in 0 .. CELLS - 1
      PROVE  Coord(i) \in (0 .. SIDE - 1) \X (0 .. SIDE - 1)
  <2> DEFINE q == i \div SIDE
             m == i % SIDE
  <2>1. i \in Nat /\ i < SIDE * SIDE
    BY <1>1 DEF CELLS
  <2>2. q \in Int /\ m \in 0 .. SIDE - 1 /\ i = SIDE * q + m
    BY <1>1, <2>1
  <2> HIDE DEF q, m
  <2>3. ~(q >= SIDE)
    <3> SUFFICES ASSUME q >= SIDE PROVE FALSE
      OBVIOUS
    <3>1. SIDE * SIDE <= SIDE * q
      BY <1>1, <2>2, Monotone
    <3>2. SIDE * SIDE \in Int /\ SIDE * q \in Int
      BY <1>1, <2>2
    <3>3. QED
      BY <2>1, <2>2, <3>1, <3>2
  <2>4. ~(q <= -1)
    <3> SUFFICES ASSUME q <= -1 PROVE FALSE
      OBVIOUS
    <3>1. SIDE * q <= SIDE * (-1) /\ SIDE * (-1) = -SIDE
      BY <1>1, <2>2, Monotone
    <3>2. SIDE * q \in Int
      BY <1>1, <2>2
    <3>3. QED
      BY <1>1, <2>1, <2>2, <3>1, <3>2
  <2>5. q \in 0 .. SIDE - 1
    BY <1>1, <2>2, <2>3, <2>4
  <2>6. QED
    BY <2>2, <2>5 DEF Coord, q, m
<1>3. ASSUME NEW c \in (0 .. SIDE - 1) \X (0 .. SIDE - 1)
      PROVE  \E i \in 0 .. CELLS - 1 : Coord(i) = c
  <2>1. c[1] \in 0 .. SIDE - 1 /\ c[2] \in 0 .. SIDE - 1 /\ c = <<c[1], c[2]>>
    OBVIOUS
  <2>2. QED
    BY <2>1, CoordOfIndex
<1>4. QED
  BY <1>2, <1>3 DEF Cells

(* The cells of a grid are on the board, and finitely many. *)
LEMMA CellParts ==
    ASSUME NEW g \in Grids
    PROVE  /\ IsFiniteSet(g) /\ Cardinality(g) \in Nat
           /\ \A c : HasShip(g, c) <=> c \in g
           /\ \A c \in g : /\ c[1] \in 0 .. SIDE - 1 /\ c[2] \in 0 .. SIDE - 1
                           /\ c = <<c[1], c[2]>>
<1>1. SIDE \in Nat /\ SIDE - 1 \in Int
  BY GridAssumption
<1>2. IsFiniteSet(0 .. SIDE - 1)
  BY <1>1, FS_Interval
<1>3. IsFiniteSet(Cells)
  BY <1>2, FS_Product, CellsAre
<1>4. g \subseteq Cells
  BY DEF Grids
<1>5. IsFiniteSet(g) /\ Cardinality(g) \in Nat
  BY <1>3, <1>4, FS_Subset, FS_CardinalityType
<1>6. \A c \in g : c[1] \in 0 .. SIDE - 1 /\ c[2] \in 0 .. SIDE - 1
                   /\ c = <<c[1], c[2]>>
  BY <1>4, CellsAre
<1>7. QED
  BY <1>5, <1>6 DEF HasShip, IsOnBoard

-----------------------------------------------------------------------------
(***************************************************************************)
(* The ships that VerifyPositionOfShips finds.  Each is a line from its    *)
(* start; around a line that CheckShip has accepted there is no other cell *)
(* of the grid, and everything else follows from that.                     *)
(***************************************************************************)
Near(x, y) == x[1] - y[1] \in -1 .. 1 /\ x[2] - y[2] \in -1 .. 1

Dirs == {"RIGHT", "DOWN"}

Across(d) == IF d = "DOWN" THEN "RIGHT" ELSE "DOWN"

FoundSize(g, s) == ShipSize(g, s, ShipDir(g, s))

FoundShip(g, s) == Line(s, FoundSize(g, s), ShipDir(g, s))

(* Steps, in coordinates. *)
LEMMA StepsAre ==
    ASSUME NEW c, NEW k \in Int
    PROVE  /\ Steps(c, k, "RIGHT") = <<c[1], c[2] + k>>
           /\ Steps(c, k, "DOWN") = <<c[1] + k, c[2]>>
           /\ Steps(c, k, "LEFT") = <<c[1], c[2] - k>>
           /\ Steps(c, k, "UP") = <<c[1] - k, c[2]>>
  BY DEF Steps

(* The loop that measures a ship ends, at the latest at the border. *)
LEMMA SizeFound ==
    ASSUME NEW g \in Grids, NEW c \in g, NEW d \in Dirs
    PROVE  /\ ShipSize(g, c, d) \in 1 .. SIDE
           /\ \A k \in 0 .. ShipSize(g, c, d) - 1 : Steps(c, k, d) \in g
           /\ Steps(c, ShipSize(g, c, d), d) \notin g
<1>1. SIDE \in Nat \ {0}
  BY GridAssumption
<1>2. \A e : HasShip(g, e) <=> e \in g
  BY CellParts
<1>3. c[1] \in 0 .. SIDE - 1 /\ c[2] \in 0 .. SIDE - 1 /\ c = <<c[1], c[2]>>
  BY CellParts
<1> DEFINE T == {n \in Nat : Steps(c, n, d) \notin g}
<1>4. Steps(c, 0, d) = c
  <2>1. c[1] + 0 = c[1] /\ c[2] + 0 = c[2]
    BY <1>1, <1>3
  <2>2. QED
    BY <1>3, <2>1 DEF Steps, Dirs
<1>5. Steps(c, SIDE, d) \notin g
  <2> SUFFICES ASSUME Steps(c, SIDE, d) \in g PROVE FALSE
    OBVIOUS
  <2> DEFINE e == Steps(c, SIDE, d)
  <2>1. e[1] = c[1] + SIDE \/ e[2] = c[2] + SIDE
    BY <1>1 DEF Steps, Dirs
  <2>2. e[1] \in 0 .. SIDE - 1 /\ e[2] \in 0 .. SIDE - 1
    BY CellParts
  <2> HIDE DEF e
  <2>3. QED
    BY <1>1, <1>3, <2>1, <2>2
<1>6. SIDE \in T /\ 0 \notin T
  BY <1>1, <1>4, <1>5
<1>7. PICK n \in T : \A m \in T : n <= m
  BY <1>6, LeastNumber
<1>8. n \in 1 .. SIDE /\ Steps(c, n, d) \notin g
  BY <1>1, <1>6, <1>7
<1>9. \A k \in 0 .. n - 1 : Steps(c, k, d) \in g
  <2> SUFFICES ASSUME NEW k \in 0 .. n - 1 PROVE Steps(c, k, d) \in g
    OBVIOUS
  <2>1. k \in Nat /\ ~(n <= k)
    BY <1>8
  <2>2. k \notin T
    BY <1>7, <2>1
  <2>3. QED
    BY <2>1, <2>2
<1> DEFINE Fits(m) == /\ \A k \in 0 .. m - 1 : HasShip(g, Steps(c, k, d))
                      /\ ~HasShip(g, Steps(c, m, d))
<1>10. Fits(n)
  BY <1>2, <1>8, <1>9
<1>11. ShipSize(g, c, d) = CHOOSE m \in 1 .. SIDE : Fits(m)
  BY DEF ShipSize
<1> HIDE DEF Fits
<1>12. ShipSize(g, c, d) \in 1 .. SIDE /\ Fits(ShipSize(g, c, d))
  BY <1>8, <1>10, <1>11, Zenon
<1>13. QED
  BY <1>2, <1>12 DEF Fits

(* What CheckShip has seen of the ship from s. *)
Surrounded(g, s, n, d) ==
    /\ \A j \in -1 .. 1 : Steps(Steps(s, -1, d), j, Across(d)) \notin g
    /\ \A k \in 0 .. n, j \in {-1, 1} :
          Steps(Steps(s, k, d), j, Across(d)) \notin g

LEMMA ShipParts ==
    ASSUME NEW g \in Grids, VerifyPositionOfShips(g), NEW s \in ShipStarts(g)
    PROVE  /\ s \in g /\ ShipDir(g, s) \in Dirs
           /\ FoundSize(g, s) \in 1 .. SIDE
           /\ \A k \in 0 .. FoundSize(g, s) - 1 :
                 Steps(s, k, ShipDir(g, s)) \in g
           /\ Steps(s, FoundSize(g, s), ShipDir(g, s)) \notin g
           /\ Surrounded(g, s, FoundSize(g, s), ShipDir(g, s))
           /\ \E t \in AVAILABLE_SHIPS : t.size = FoundSize(g, s)
<1>1. s \in g
  BY DEF ShipStarts
<1>2. ShipDir(g, s) \in Dirs
  BY DEF ShipDir, Dirs
<1>3. CheckShip(g, s, ShipDir(g, s), Across(ShipDir(g, s)))
      /\ \E t \in AVAILABLE_SHIPS : t.size = FoundSize(g, s)
  BY Zenon DEF VerifyPositionOfShips, Across, FoundSize
<1>4. \A e : HasShip(g, e) <=> e \in g
  BY CellParts
<1>5. Surrounded(g, s, FoundSize(g, s), ShipDir(g, s))
  BY <1>3, <1>4, Zenon DEF CheckShip, Surrounded, FoundSize
<1>6. QED
  BY <1>1, <1>2, <1>3, <1>5, SizeFound DEF FoundSize

(* Two starts, each to the left of or above all of its line. *)
LEMMA StartParts ==
    ASSUME NEW g \in Grids, NEW s \in ShipStarts(g)
    PROVE  /\ s[1] \in Int /\ s[2] \in Int /\ s = <<s[1], s[2]>>
           /\ <<s[1] - 1, s[2]>> \notin g /\ <<s[1], s[2] - 1>> \notin g
<1>1. s \in g /\ ~HasShip(g, Steps(s, 1, "UP")) /\ ~HasShip(g, Steps(s, 1, "LEFT"))
  BY DEF ShipStarts
<1>2. s[1] \in 0 .. SIDE - 1 /\ s[2] \in 0 .. SIDE - 1 /\ s = <<s[1], s[2]>>
  BY <1>1, CellParts
<1>3. Steps(s, 1, "UP") \notin g /\ Steps(s, 1, "LEFT") \notin g
  BY <1>1, CellParts
<1>4. SIDE - 1 \in Int
  BY GridAssumption
<1>5. QED
  BY <1>2, <1>3, <1>4 DEF Steps

(* A cell of the grid next to a ship is of that ship. *)
LEMMA NothingAround ==
    ASSUME NEW g \in Grids, VerifyPositionOfShips(g), NEW s \in ShipStarts(g),
           NEW x \in FoundShip(g, s), NEW y \in g, Near(x, y)
    PROVE  y \in FoundShip(g, s)
<1> DEFINE n == FoundSize(g, s)
           d == ShipDir(g, s)
<1>1. /\ d \in Dirs /\ n \in 1 .. SIDE /\ SIDE \in Nat
      /\ Steps(s, n, d) \notin g /\ Surrounded(g, s, n, d)
  BY ShipParts, GridAssumption
<1>2. PICK k \in 0 .. n - 1 : x = Steps(s, k, d)
  BY DEF FoundShip, Line
<1>3. s[1] \in Int /\ s[2] \in Int /\ y[1] \in Int /\ y[2] \in Int
      /\ y = <<y[1], y[2]>>
  <2>1. SIDE - 1 \in Int
    BY GridAssumption
  <2>2. y[1] \in 0 .. SIDE - 1 /\ y[2] \in 0 .. SIDE - 1 /\ y = <<y[1], y[2]>>
    BY CellParts
  <2>3. y[1] \in Int /\ y[2] \in Int
    BY <2>1, <2>2
  <2>4. s[1] \in Int /\ s[2] \in Int
    BY StartParts
  <2>5. QED
    BY <2>2, <2>3, <2>4
<1>4. n \in Nat /\ k \in Int /\ 0 <= k /\ k <= n - 1
  BY <1>1, <1>2
<1>5. \A m \in 0 .. n - 1 : Steps(s, m, d) \in FoundShip(g, s)
  BY DEF FoundShip, Line
<1> HIDE DEF n, d
<1>6. CASE d = "RIGHT"
  <2>1. x = <<s[1], s[2] + k>>
    BY <1>2, <1>4, <1>6, StepsAre
  <2>2. /\ y[1] \in {s[1] - 1, s[1], s[1] + 1}
        /\ y[2] \in {s[2] + k - 1, s[2] + k, s[2] + k + 1}
    <3>1. s[1] - y[1] \in -1 .. 1 /\ (s[2] + k) - y[2] \in -1 .. 1
      BY <2>1 DEF Near
    <3>2. QED
      BY <1>3, <1>4, <3>1
  <2> DEFINE m == y[2] - s[2]
  <2>3. m \in -1 .. n /\ y = <<y[1], s[2] + m>>
    BY <1>3, <1>4, <2>2
  <2>4. \A j \in -1 .. 1 : <<s[1] + j, s[2] - 1>> \notin g
    <3> SUFFICES ASSUME NEW j \in -1 .. 1 PROVE <<s[1] + j, s[2] - 1>> \notin g
      OBVIOUS
    <3>1. Steps(Steps(s, -1, d), j, "DOWN") \notin g
      BY <1>1, <1>6 DEF Surrounded, Across
    <3>2. Steps(s, -1, d) = <<s[1], s[2] - 1>>
      BY <1>3, <1>6 DEF Steps
    <3>3. Steps(<<s[1], s[2] - 1>>, j, "DOWN") = <<s[1] + j, s[2] - 1>>
      BY DEF Steps
    <3>4. QED
      BY <3>1, <3>2, <3>3, Zenon
  <2>5. \A i \in 0 .. n, j \in {-1, 1} : <<s[1] + j, s[2] + i>> \notin g
    <3> SUFFICES ASSUME NEW i \in 0 .. n, NEW j \in {-1, 1}
                 PROVE  <<s[1] + j, s[2] + i>> \notin g
      OBVIOUS
    <3>1. Steps(Steps(s, i, d), j, "DOWN") \notin g
      BY <1>1, <1>6 DEF Surrounded, Across
    <3>2. Steps(s, i, d) = <<s[1], s[2] + i>>
      BY <1>6, StepsAre
    <3>3. Steps(<<s[1], s[2] + i>>, j, "DOWN") = <<s[1] + j, s[2] + i>>
      BY DEF Steps
    <3>4. QED
      BY <3>1, <3>2, <3>3, Zenon
  <2>6. <<s[1], s[2] + n>> \notin g
    BY <1>1, <1>4, <1>6, StepsAre
  <2>7. CASE y[1] = s[1]
    <3>1. m # n
      BY <2>3, <2>6, <2>7
    <3>2. m # -1
      <4> SUFFICES ASSUME m = -1 PROVE FALSE
        OBVIOUS
      <4>1. y = <<s[1] + 0, s[2] - 1>>
        BY <1>3, <2>7
      <4>2. QED
        BY <2>4, <4>1
    <3>3. m \in 0 .. n - 1
      BY <1>4, <2>3, <3>1, <3>2
    <3>4. y = Steps(s, m, d)
      BY <1>6, <2>3, <2>7, <3>3 DEF Steps
    <3>5. QED
      BY <1>5, <3>3, <3>4
  <2>8. CASE y[1] # s[1]
    <3>1. PICK j \in {-1, 1} : y[1] = s[1] + j
      BY <1>3, <2>2, <2>8
    <3>2. m # -1
      <4> SUFFICES ASSUME m = -1 PROVE FALSE
        OBVIOUS
      <4>1. y = <<s[1] + j, s[2] - 1>>
        BY <1>3, <3>1
      <4>2. QED
        BY <2>4, <3>1, <4>1
    <3>3. m \in 0 .. n
      BY <1>4, <2>3, <3>2
    <3>4. QED
      BY <2>3, <2>5, <3>1, <3>3
  <2>9. QED
    BY <2>7, <2>8
<1>7. CASE d = "DOWN"
  <2>1. x = <<s[1] + k, s[2]>>
    BY <1>2, <1>4, <1>7, StepsAre
  <2>2. /\ y[2] \in {s[2] - 1, s[2], s[2] + 1}
        /\ y[1] \in {s[1] + k - 1, s[1] + k, s[1] + k + 1}
    <3>1. s[2] - y[2] \in -1 .. 1 /\ (s[1] + k) - y[1] \in -1 .. 1
      BY <2>1 DEF Near
    <3>2. QED
      BY <1>3, <1>4, <3>1
  <2> DEFINE m == y[1] - s[1]
  <2>3. m \in -1 .. n /\ y = <<s[1] + m, y[2]>>
    BY <1>3, <1>4, <2>2
  <2>4. \A j \in -1 .. 1 : <<s[1] - 1, s[2] + j>> \notin g
    <3> SUFFICES ASSUME NEW j \in -1 .. 1 PROVE <<s[1] - 1, s[2] + j>> \notin g
      OBVIOUS
    <3>1. Steps(Steps(s, -1, d), j, "RIGHT") \notin g
      BY <1>1, <1>7 DEF Surrounded, Across
    <3>2. Steps(s, -1, d) = <<s[1] - 1, s[2]>>
      BY <1>3, <1>7 DEF Steps
    <3>3. Steps(<<s[1] - 1, s[2]>>, j, "RIGHT") = <<s[1] - 1, s[2] + j>>
      BY DEF Steps
    <3>4. QED
      BY <3>1, <3>2, <3>3, Zenon
  <2>5. \A i \in 0 .. n, j \in {-1, 1} : <<s[1] + i, s[2] + j>> \notin g
    <3> SUFFICES ASSUME NEW i \in 0 .. n, NEW j \in {-1, 1}
                 PROVE  <<s[1] + i, s[2] + j>> \notin g
      OBVIOUS
    <3>1. Steps(Steps(s, i, d), j, "RIGHT") \notin g
      BY <1>1, <1>7 DEF Surrounded, Across
    <3>2. Steps(s, i, d) = <<s[1] + i, s[2]>>
      BY <1>7, StepsAre
    <3>3. Steps(<<s[1] + i, s[2]>>, j, "RIGHT") = <<s[1] + i, s[2] + j>>
      BY DEF Steps
    <3>4. QED
      BY <3>1, <3>2, <3>3, Zenon
  <2>6. <<s[1] + n, s[2]>> \notin g
    BY <1>1, <1>4, <1>7, StepsAre
  <2>7. CASE y[2] = s[2]
    <3>1. m # n
      BY <2>3, <2>6, <2>7
    <3>2. m # -1
      <4> SUFFICES ASSUME m = -1 PROVE FALSE
        OBVIOUS
      <4>1. y = <<s[1] - 1, s[2] + 0>>
        BY <1>3, <2>7
      <4>2. QED
        BY <2>4, <4>1
    <3>3. m \in 0 .. n - 1
      BY <1>4, <2>3, <3>1, <3>2
    <3>4. y = Steps(s, m, d)
      BY <1>7, <2>3, <2>7, <3>3, StepsAre
    <3>5. QED
      BY <1>5, <3>3, <3>4
  <2>8. CASE y[2] # s[2]
    <3>1. PICK j \in {-1, 1} : y[2] = s[2] + j
      BY <1>3, <2>2, <2>8
    <3>2. m # -1
      <4> SUFFICES ASSUME m = -1 PROVE FALSE
        OBVIOUS
      <4>1. y = <<s[1] - 1, s[2] + j>>
        BY <1>3, <3>1
      <4>2. QED
        BY <2>4, <3>1, <4>1
    <3>3. m \in 0 .. n
      BY <1>4, <2>3, <3>2
    <3>4. QED
      BY <2>3, <2>5, <3>1, <3>3
  <2>9. QED
    BY <2>7, <2>8
<1>8. QED
  BY <1>1, <1>6, <1>7 DEF Dirs

(* A ship is in the grid. *)
LEMMA ShipInGrid ==
    ASSUME NEW g \in Grids, VerifyPositionOfShips(g), NEW s \in ShipStarts(g)
    PROVE  FoundShip(g, s) \subseteq g
  BY ShipParts DEF FoundShip, Line

LEMMA CellInts ==
    ASSUME NEW g \in Grids, NEW c \in g
    PROVE  c[1] \in Nat /\ c[2] \in Nat /\ c = <<c[1], c[2]>>
<1>1. SIDE - 1 \in Int
  BY GridAssumption
<1>2. c[1] \in 0 .. SIDE - 1 /\ c[2] \in 0 .. SIDE - 1 /\ c = <<c[1], c[2]>>
  BY CellParts
<1>3. QED
  BY <1>1, <1>2

(* A line of the grid that begins on a ship stays on it. *)
LEMMA LineStays ==
    ASSUME NEW g \in Grids, VerifyPositionOfShips(g), NEW s \in ShipStarts(g),
           NEW c \in FoundShip(g, s), c[1] \in Int, c[2] \in Int,
           NEW n \in Nat, NEW d \in Dirs,
           \A k \in 0 .. n - 1 : Steps(c, k, d) \in g
    PROVE  Line(c, n, d) \subseteq FoundShip(g, s)
<1> DEFINE T == {k \in 0 .. n - 1 : Steps(c, k, d) \notin FoundShip(g, s)}
<1> SUFFICES ASSUME T # {} PROVE FALSE
  BY DEF Line
<1>0. T \subseteq Nat
  OBVIOUS
<1>1. PICK k \in T : \A j \in T : k <= j
  <2> HIDE DEF T
  <2>1. QED
    BY <1>0, LeastNumber
<1>2. k \in 0 .. n - 1 /\ Steps(c, k, d) \notin FoundShip(g, s)
  BY <1>1
<1>3. k # 0
  <2> SUFFICES ASSUME k = 0 PROVE FALSE
    OBVIOUS
  <2>1. c \in g
    BY ShipInGrid
  <2>2. c = <<c[1], c[2]>>
    BY <2>1, CellParts
  <2>3. Steps(c, 0, d) = c
    BY <2>2 DEF Steps, Dirs
  <2>4. QED
    BY <1>2, <2>3
<1>4. k - 1 \in 0 .. n - 1 /\ ~(k <= k - 1)
  BY <1>2, <1>3
<1>5. Steps(c, k - 1, d) \in FoundShip(g, s)
  BY <1>1, <1>4
<1>6. Near(Steps(c, k - 1, d), Steps(c, k, d))
  BY <1>2, <1>4 DEF Near, Steps, Dirs
<1>7. Steps(c, k, d) \in g
  BY <1>2
<1>8. QED
  BY <1>2, <1>5, <1>6, <1>7, NothingAround

(* Every cell of the grid is of a ship. *)
LEMMA ShipsCover ==
    ASSUME NEW g \in Grids, VerifyPositionOfShips(g), NEW c \in g
    PROVE  \E s \in ShipStarts(g) : c \in FoundShip(g, s)
<1> DEFINE Loose == {e \in g : \A s \in ShipStarts(g) : e \notin FoundShip(g, s)}
           T == {n \in Nat : \E e \in Loose : n = e[1] + e[2]}
<1>1. \A e \in g : e[1] \in Nat /\ e[2] \in Nat /\ e = <<e[1], e[2]>>
  BY CellInts
<1>2. T = {}
  <2> SUFFICES ASSUME T # {} PROVE FALSE
    OBVIOUS
  <2>1. PICK n \in T : \A m \in T : n <= m
    BY LeastNumber
  <2>2. PICK e \in Loose : n = e[1] + e[2]
    BY <2>1
  <2>3. e \in g /\ e[1] \in Nat /\ e[2] \in Nat /\ e = <<e[1], e[2]>>
    BY <1>1, <2>2
  <2>4. e \notin ShipStarts(g)
    <3> SUFFICES ASSUME e \in ShipStarts(g) PROVE FALSE
      OBVIOUS
    <3>1. FoundSize(g, e) \in 1 .. SIDE /\ ShipDir(g, e) \in Dirs /\ SIDE \in Nat
      BY ShipParts, GridAssumption
    <3>2. Steps(e, 0, ShipDir(g, e)) = e
      BY <2>3, <3>1 DEF Steps, Dirs
    <3>3. 0 \in 0 .. FoundSize(g, e) - 1
      BY <3>1
    <3>4. e \in FoundShip(g, e)
      BY <3>2, <3>3 DEF FoundShip, Line
    <3>5. QED
      BY <2>2, <3>4
  <2>5. <<e[1] - 1, e[2]>> \in g \/ <<e[1], e[2] - 1>> \in g
    <3>1. Steps(e, 1, "UP") = <<e[1] - 1, e[2]>>
          /\ Steps(e, 1, "LEFT") = <<e[1], e[2] - 1>>
      BY StepsAre
    <3>2. Steps(e, 1, "UP") \in g \/ Steps(e, 1, "LEFT") \in g
      BY <2>3, <2>4, CellParts DEF ShipStarts
    <3>3. QED
      BY <3>1, <3>2
  <2>6. PICK b \in g : /\ b = <<e[1] - 1, e[2]>> \/ b = <<e[1], e[2] - 1>>
    BY <2>5
  <2>7. b[1] \in Nat /\ b[2] \in Nat /\ b[1] + b[2] = n - 1 /\ n \in Nat
    BY <1>1, <2>2, <2>3, <2>6
  <2>8. b \notin Loose
    <3> SUFFICES ASSUME b \in Loose PROVE FALSE
      OBVIOUS
    <3>1. n - 1 \in Nat
      BY <2>7
    <3>2. n - 1 \in T
      BY <2>7, <3>1
    <3>3. ~(n <= n - 1)
      BY <2>7
    <3>4. QED
      BY <2>1, <3>2, <3>3
  <2>9. PICK s \in ShipStarts(g) : b \in FoundShip(g, s)
    BY <2>6, <2>8
  <2>10. Near(b, e)
    BY <2>3, <2>6 DEF Near
  <2>11. e \in FoundShip(g, s)
    BY <2>3, <2>9, <2>10, NothingAround
  <2>12. QED
    BY <2>2, <2>9, <2>11
<1>3. c[1] + c[2] \in Nat
  BY <1>1
<1>4. c \notin Loose
  BY <1>2, <1>3
<1>5. QED
  BY <1>4

(* Two ships that touch are the same. *)
LEMMA ShipsApart ==
    ASSUME NEW g \in Grids, VerifyPositionOfShips(g),
           NEW s \in ShipStarts(g), NEW r \in ShipStarts(g),
           NEW x \in FoundShip(g, s), NEW y \in FoundShip(g, r), Near(x, y)
    PROVE  s = r
<1> DEFINE n == FoundSize(g, s)
           d == ShipDir(g, s)
           T == {k \in 0 .. n - 1 : Steps(s, k, d) \in FoundShip(g, r)}
<1>1. n \in 1 .. SIDE /\ d \in Dirs /\ SIDE \in Nat
      /\ \A k \in 0 .. n - 1 : Steps(s, k, d) \in g
  BY ShipParts, GridAssumption
<1>2. x \in g /\ y \in g
  BY ShipInGrid
<1>3. Near(y, x)
  <2>1. x[1] \in Int /\ x[2] \in Int /\ y[1] \in Int /\ y[2] \in Int
    BY <1>2, CellInts
  <2>2. x[1] - y[1] \in -1 .. 1 /\ x[2] - y[2] \in -1 .. 1
    BY DEF Near
  <2>3. y[1] - x[1] \in -1 .. 1 /\ y[2] - x[2] \in -1 .. 1
    BY <2>1, <2>2
  <2>4. QED
    BY <2>3 DEF Near
<1>4. x \in FoundShip(g, r)
  BY <1>2, <1>3, NothingAround
<1>5. T # {}
  <2>1. PICK k \in 0 .. n - 1 : x = Steps(s, k, d)
    BY DEF FoundShip, Line
  <2>2. QED
    BY <1>4, <2>1
<1>6. PICK k \in T : \A j \in T : k <= j
  <2>1. T \subseteq Nat
    BY <1>1
  <2> HIDE DEF T
  <2>2. QED
    BY <1>5, <2>1, LeastNumber
<1>7. s[1] \in Int /\ s[2] \in Int /\ s = <<s[1], s[2]>>
  BY StartParts
<1>8. k = 0
  <2> SUFFICES ASSUME k # 0 PROVE FALSE
    OBVIOUS
  <2>1. k \in 0 .. n - 1 /\ k - 1 \in 0 .. n - 1 /\ ~(k <= k - 1)
    BY <1>1, <1>6
  <2>2. k - 1 \notin T
    BY <1>6, <2>1
  <2>3. Near(Steps(s, k, d), Steps(s, k - 1, d))
    BY <1>1, <1>7, <2>1 DEF Near, Steps, Dirs
  <2>4. Steps(s, k, d) \in FoundShip(g, r) /\ Steps(s, k - 1, d) \in g
    BY <1>1, <1>6, <2>1
  <2>5. Steps(s, k - 1, d) \in FoundShip(g, r)
    BY <2>3, <2>4, NothingAround
  <2>6. QED
    BY <2>1, <2>2, <2>5
<1>9. s \in FoundShip(g, r)
  <2>1. Steps(s, 0, d) = s
    BY <1>1, <1>7 DEF Steps, Dirs
  <2>2. QED
    BY <1>6, <1>8, <2>1
<1> HIDE DEF n, d, T
<1>10. PICK j \in 0 .. FoundSize(g, r) - 1 : s = Steps(r, j, ShipDir(g, r))
  BY <1>9 DEF FoundShip, Line
<1>11. FoundSize(g, r) \in 1 .. SIDE /\ ShipDir(g, r) \in Dirs
       /\ \A i \in 0 .. FoundSize(g, r) - 1 : Steps(r, i, ShipDir(g, r)) \in g
  BY ShipParts
<1>12. r[1] \in Int /\ r[2] \in Int /\ r = <<r[1], r[2]>>
  BY StartParts
<1>13. j = 0
  <2> SUFFICES ASSUME j # 0 PROVE FALSE
    OBVIOUS
  <2>1. j \in Nat /\ j - 1 \in 0 .. FoundSize(g, r) - 1
    BY <1>1, <1>10, <1>11
  <2>2. Steps(r, j - 1, ShipDir(g, r)) \in g
    BY <1>11, <2>1
  <2>3. \/ Steps(r, j - 1, ShipDir(g, r)) = <<s[1] - 1, s[2]>>
        \/ Steps(r, j - 1, ShipDir(g, r)) = <<s[1], s[2] - 1>>
    BY <1>10, <1>11, <1>12, <2>1 DEF Steps, Dirs
  <2>4. <<s[1] - 1, s[2]>> \notin g /\ <<s[1], s[2] - 1>> \notin g
    BY StartParts
  <2>5. QED
    BY <2>2, <2>3, <2>4
<1>14. QED
  BY <1>10, <1>11, <1>12, <1>13 DEF Steps, Dirs

(* A line of n cells. *)
LEMMA LineSize ==
    ASSUME NEW c, c[1] \in Int, c[2] \in Int, NEW n \in Nat, NEW d \in Dirs
    PROVE  IsFiniteSet(Line(c, n, d)) /\ Cardinality(Line(c, n, d)) = n
<1> DEFINE f == [k \in 0 .. n - 1 |-> Steps(c, k, d)]
<1>1. \A k, j \in 0 .. n - 1 : Steps(c, k, d) = Steps(c, j, d) => k = j
  BY DEF Steps, Dirs
<1>2. f \in Bijection(0 .. n - 1, Line(c, n, d))
  <2>1. f \in [0 .. n - 1 -> Line(c, n, d)]
    BY DEF Line
  <2>2. \A k \in 0 .. n - 1 : f[k] = Steps(c, k, d)
    OBVIOUS
  <2> HIDE DEF f
  <2>3. IsInjective(f)
    BY <1>1, <2>1, <2>2 DEF IsInjective
  <2>4. \A x \in Line(c, n, d) : \E k \in 0 .. n - 1 : f[k] = x
    BY <2>2 DEF Line
  <2>5. QED
    BY <2>1, <2>3, <2>4 DEF Bijection, Injection, Surjection
<1>3. IsFiniteSet(0 .. n - 1) /\ Cardinality(0 .. n - 1) = n
  <2>1. n - 1 \in Int /\ (IF 0 > n - 1 THEN 0 ELSE (n - 1) - 0 + 1) = n
    OBVIOUS
  <2>2. QED
    BY <2>1, FS_Interval
<1>4. QED
  BY <1>2, <1>3, FS_Bijection DEF ExistsBijection

LEMMA ShipLength ==
    ASSUME NEW g \in Grids, VerifyPositionOfShips(g), NEW s \in ShipStarts(g)
    PROVE  Cardinality(FoundShip(g, s)) = FoundSize(g, s)
<1>1. FoundSize(g, s) \in 1 .. SIDE /\ SIDE \in Nat /\ ShipDir(g, s) \in Dirs
  BY ShipParts, GridAssumption
<1>2. s[1] \in Int /\ s[2] \in Int
  BY StartParts
<1>3. QED
  BY <1>1, <1>2, LineSize DEF FoundShip

(* A start is on its ship. *)
LEMMA StartOnShip ==
    ASSUME NEW g \in Grids, VerifyPositionOfShips(g), NEW s \in ShipStarts(g)
    PROVE  s \in FoundShip(g, s) /\ Near(s, s)
<1>1. FoundSize(g, s) \in 1 .. SIDE /\ SIDE \in Nat /\ ShipDir(g, s) \in Dirs
  BY ShipParts, GridAssumption
<1>2. s[1] \in Int /\ s[2] \in Int /\ s = <<s[1], s[2]>>
  BY StartParts
<1>3. 0 \in 0 .. FoundSize(g, s) - 1 /\ Steps(s, 0, ShipDir(g, s)) = s
  BY <1>1, <1>2 DEF Steps, Dirs
<1>4. QED
  BY <1>2, <1>3 DEF FoundShip, Line, Near

(* The starts of the ships of one size. *)
StartsOf(g, n) == {s \in ShipStarts(g) : FoundSize(g, s) = n}

LEMMA StartCount ==
    ASSUME NEW g \in Grids, VerifyPositionOfShips(g), NEW t \in AVAILABLE_SHIPS
    PROVE  /\ IsFiniteSet(StartsOf(g, t.size))
           /\ Cardinality(StartsOf(g, t.size)) = t.number
<1>1. StartsOf(g, t.size) \subseteq g
  BY DEF StartsOf, ShipStarts
<1>2. IsFiniteSet(g)
  BY CellParts
<1>3. QED
  BY <1>1, <1>2, FS_Subset, Zenon
  DEF VerifyPositionOfShips, StartsOf, FoundSize

(* The cells of the whole fleet are finitely many. *)
LEMMA ShipCellsFinite == IsFiniteSet(ShipCells)
<1> DEFINE Part(t) == {t} \X ((1 .. t.number) \X (1 .. t.size))
           f == [t \in AVAILABLE_SHIPS |-> Part(t)]
           P == {Part(t) : t \in AVAILABLE_SHIPS}
<1>1. ASSUME NEW t \in AVAILABLE_SHIPS PROVE IsFiniteSet(Part(t))
  <2>1. t.number \in Int /\ t.size \in Int
    BY GridAssumption
  <2>2. IsFiniteSet(1 .. t.number) /\ IsFiniteSet(1 .. t.size)
    BY <2>1, FS_Interval
  <2>3. IsFiniteSet((1 .. t.number) \X (1 .. t.size))
    BY <2>2, FS_Product
  <2>4. IsFiniteSet({t})
    BY FS_Singleton
  <2>5. QED
    BY <2>3, <2>4, FS_Product
<1>2. f \in Surjection(AVAILABLE_SHIPS, P)
  <2> HIDE DEF Part
  <2>1. QED
    BY DEF Surjection
<1>3. IsFiniteSet(P)
  <2> HIDE DEF f, P
  <2>1. QED
    BY <1>2, GridAssumption, FS_Surjection
<1>4. \A p \in P : IsFiniteSet(p)
  <2> HIDE DEF Part
  <2>1. QED
    BY <1>1
<1>5. ShipCells = UNION P
  BY DEF ShipCells
<1>6. QED
  <2> HIDE DEF P
  <2>1. QED
    BY <1>3, <1>4, <1>5, FS_UNION

(***************************************************************************)
(* A valid position has no more cells than the fleet: TotalShipCells hits  *)
(* are all of it.                                                          *)
(***************************************************************************)
LEMMA FleetSize ==
    ASSUME NEW g \in Grids, VerifyPositionOfShips(g)
    PROVE  TotalShipCells \in Nat /\ Cardinality(g) <= TotalShipCells
<1> DEFINE Nth(t) == CHOOSE f : f \in Surjection(1 .. t.number, StartsOf(g, t.size))
           At(x) == LET s == Nth(x[1])[x[2][1]]
                    IN  Steps(s, x[2][2] - 1, ShipDir(g, s))
           F == [x \in ShipCells |-> At(x)]
<1>1. ASSUME NEW t \in AVAILABLE_SHIPS
      PROVE  Nth(t) \in Surjection(1 .. t.number, StartsOf(g, t.size))
  <2>1. ExistsBijection(1 .. t.number, StartsOf(g, t.size))
    BY StartCount, FS_CardinalityType
  <2>2. \E f : f \in Surjection(1 .. t.number, StartsOf(g, t.size))
    BY <2>1 DEF ExistsBijection, Bijection
  <2>3. QED
    BY <2>2, Zenon
<1>2. ASSUME NEW x \in ShipCells
      PROVE  At(x) \in g
  <2>1. PICK t \in AVAILABLE_SHIPS : x \in {t} \X ((1 .. t.number) \X (1 .. t.size))
    BY DEF ShipCells
  <2>2. x[1] = t /\ x[2][1] \in 1 .. t.number /\ x[2][2] \in 1 .. t.size
    BY <2>1
  <2> DEFINE s == Nth(x[1])[x[2][1]]
  <2>3. s \in StartsOf(g, t.size)
    <3> HIDE DEF Nth
    <3>1. QED
      BY <1>1, <2>2 DEF Surjection
  <2>4. s \in ShipStarts(g) /\ FoundSize(g, s) = t.size
    BY <2>3 DEF StartsOf
  <2> HIDE DEF s
  <2>5. t.size \in Nat
    BY GridAssumption
  <2>6. x[2][2] - 1 \in 0 .. FoundSize(g, s) - 1
    BY <2>2, <2>4, <2>5
  <2>7. Steps(s, x[2][2] - 1, ShipDir(g, s)) \in g
    BY <2>4, <2>6, ShipParts
  <2>8. QED
    BY <2>7 DEF s
<1>3. ASSUME NEW c \in g
      PROVE  \E x \in ShipCells : At(x) = c
  <2>1. PICK s \in ShipStarts(g) : c \in FoundShip(g, s)
    BY ShipsCover
  <2>2. PICK k \in 0 .. FoundSize(g, s) - 1 : c = Steps(s, k, ShipDir(g, s))
    BY <2>1 DEF FoundShip, Line
  <2>3. PICK t \in AVAILABLE_SHIPS : t.size = FoundSize(g, s)
    BY ShipParts
  <2>4. s \in StartsOf(g, t.size)
    BY <2>3 DEF StartsOf
  <2>5. PICK i \in 1 .. t.number : Nth(t)[i] = s
    <3> HIDE DEF Nth
    <3>1. QED
      BY <1>1, <2>4 DEF Surjection
  <2> DEFINE x == <<t, <<i, k + 1>>>>
  <2>6. t.size \in Nat /\ k \in 0 .. t.size - 1
    BY <2>2, <2>3, GridAssumption
  <2>7. k + 1 \in 1 .. t.size /\ (k + 1) - 1 = k
    BY <2>6
  <2>8. x \in ShipCells
    BY <2>7 DEF ShipCells
  <2>9. At(x) = c
    <3> HIDE DEF Nth
    <3>1. x[1] = t /\ x[2][1] = i /\ x[2][2] = k + 1
      OBVIOUS
    <3> HIDE DEF x
    <3>2. QED
      BY <2>2, <2>5, <2>7, <3>1
  <2>10. QED
    BY <2>8, <2>9
<1>4. F \in Surjection(ShipCells, g)
  <2> HIDE DEF At
  <2>1. F \in [ShipCells -> g]
    BY <1>2
  <2>2. \A x \in ShipCells : F[x] = At(x)
    OBVIOUS
  <2> HIDE DEF F
  <2>3. QED
    BY <1>3, <2>1, <2>2 DEF Surjection
<1>5. QED
  <2> HIDE DEF F
  <2>1. QED
    BY <1>4, ShipCellsFinite, FS_Surjection, FS_CardinalityType DEF TotalShipCells

-----------------------------------------------------------------------------
(***************************************************************************)
(* The positions that VerifyPositionOfShips accepts are the fleets.        *)
(***************************************************************************)
Inside(g) == {l \in Ships : l \subseteq g /\
                 \A m \in Ships : m \subseteq g /\ l \subseteq m => m = l}

LEMMA FleetParts ==
    ASSUME NEW g
    PROVE  IsFleet(g) <=>
              /\ UNION Inside(g) = g
              /\ \A a, b \in Inside(g) : a # b => ~Touch(a, b)
              /\ \A t \in AVAILABLE_SHIPS :
                    Cardinality({l \in Inside(g) : Cardinality(l) = t.size})
                        = t.number
  BY Zenon DEF IsFleet, Inside

(* A ship is a line of a size of the fleet, and has its first cell. *)
LEMMA ShipIsLine ==
    ASSUME NEW l \in Ships
    PROVE  \E c \in l, t \in AVAILABLE_SHIPS, d \in Dirs :
              /\ l = Line(c, t.size, d) /\ t.size \in Nat \ {0}
              /\ c[1] \in Int /\ c[2] \in Int /\ c = <<c[1], c[2]>>
              /\ l \in Grids
<1>1. PICK c \in Cells, t \in AVAILABLE_SHIPS, d \in Dirs :
         l = Line(c, t.size, d) /\ l \subseteq Cells
  BY DEF Ships, Dirs
<1>2. t.size \in Nat \ {0} /\ SIDE - 1 \in Int
  BY GridAssumption
<1>3. c \in (0 .. SIDE - 1) \X (0 .. SIDE - 1)
  BY CellsAre
<1>4. c[1] \in Int /\ c[2] \in Int /\ c = <<c[1], c[2]>>
  BY <1>2, <1>3
<1>5. 0 \in 0 .. t.size - 1 /\ Steps(c, 0, d) = c
  BY <1>2, <1>4 DEF Steps, Dirs
<1>6. c \in l
  BY <1>1, <1>5 DEF Line
<1>7. QED
  BY <1>1, <1>2, <1>4, <1>6 DEF Grids

(* The ships inside the grid are those found, one from each start. *)
FoundInside(g) ==
    /\ \A s \in ShipStarts(g) : /\ FoundShip(g, s) \in Inside(g)
                                /\ Cardinality(FoundShip(g, s)) = FoundSize(g, s)
    /\ \A l \in Inside(g) : \E s \in ShipStarts(g) : l = FoundShip(g, s)
    /\ \A s, r \in ShipStarts(g) : FoundShip(g, s) = FoundShip(g, r) => s = r

(* Then there are as many of each size. *)
LEMMA CountsAgree ==
    ASSUME NEW g \in Grids, FoundInside(g), NEW n
    PROVE  Cardinality(StartsOf(g, n))
              = Cardinality({l \in Inside(g) : Cardinality(l) = n})
<1> DEFINE L == {l \in Inside(g) : Cardinality(l) = n}
           f == [s \in StartsOf(g, n) |-> FoundShip(g, s)]
<1>1. IsFiniteSet(StartsOf(g, n))
  <2>1. StartsOf(g, n) \subseteq g
    BY DEF StartsOf, ShipStarts
  <2>2. QED
    BY <2>1, CellParts, FS_Subset
<1>2. \A s \in StartsOf(g, n) : s \in ShipStarts(g) /\ FoundShip(g, s) \in L
  BY DEF StartsOf, FoundInside
<1>3. \A l \in L : \E s \in StartsOf(g, n) : FoundShip(g, s) = l
  BY DEF StartsOf, FoundInside
<1>4. \A s, r \in StartsOf(g, n) : FoundShip(g, s) = FoundShip(g, r) => s = r
  BY <1>2 DEF FoundInside
<1> HIDE DEF L
<1>5. f \in [StartsOf(g, n) -> L] /\ \A s \in StartsOf(g, n) : f[s] = FoundShip(g, s)
  BY <1>2
<1> HIDE DEF f
<1>6. IsInjective(f)
  BY <1>4, <1>5 DEF IsInjective
<1>7. \A l \in L : \E s \in StartsOf(g, n) : f[s] = l
  BY <1>3, <1>5
<1>8. f \in Bijection(StartsOf(g, n), L)
  BY <1>5, <1>6, <1>7 DEF Bijection, Injection, Surjection
<1>9. Cardinality(L) = Cardinality(StartsOf(g, n))
  BY <1>1, <1>8, FS_Bijection DEF ExistsBijection
<1>10. QED
  BY <1>9 DEF L

(* A line of the grid is on one of the ships that were found. *)
LEMMA LineOnShip ==
    ASSUME NEW g \in Grids, VerifyPositionOfShips(g),
           NEW l \in Ships, l \subseteq g
    PROVE  \E s \in ShipStarts(g) : l \subseteq FoundShip(g, s)
<1>1. PICK c \in l, t \in AVAILABLE_SHIPS, d \in Dirs :
         /\ l = Line(c, t.size, d) /\ t.size \in Nat \ {0}
         /\ c[1] \in Int /\ c[2] \in Int
  BY ShipIsLine
<1>2. PICK s \in ShipStarts(g) : c \in FoundShip(g, s)
  BY ShipsCover
<1>3. \A k \in 0 .. t.size - 1 : Steps(c, k, d) \in g
  BY <1>1 DEF Line
<1>4. QED
  BY <1>1, <1>2, <1>3, LineStays

LEMMA ValidFound ==
    ASSUME NEW g \in Grids, VerifyPositionOfShips(g)
    PROVE  FoundInside(g)
<1>1. ASSUME NEW s \in ShipStarts(g) PROVE FoundShip(g, s) \in Ships
  <2>1. PICK t \in AVAILABLE_SHIPS : t.size = FoundSize(g, s)
    BY ShipParts
  <2>2. s \in Cells /\ FoundShip(g, s) \subseteq Cells
    BY ShipInGrid DEF Grids, ShipStarts
  <2>3. ShipDir(g, s) \in {"RIGHT", "DOWN"}
    BY DEF ShipDir
  <2>4. FoundShip(g, s) = Line(s, t.size, ShipDir(g, s))
    BY <2>1 DEF FoundShip
  <2>5. QED
    BY <2>2, <2>3, <2>4 DEF Ships
<1>2. ASSUME NEW s \in ShipStarts(g), NEW r \in ShipStarts(g),
             FoundShip(g, s) \subseteq FoundShip(g, r)
      PROVE  s = r
  <2>1. s \in FoundShip(g, s) /\ s \in FoundShip(g, r) /\ Near(s, s)
    BY <1>2, StartOnShip
  <2>2. QED
    BY <2>1, ShipsApart
<1>3. ASSUME NEW s \in ShipStarts(g) PROVE FoundShip(g, s) \in Inside(g)
  <2>1. FoundShip(g, s) \subseteq g
    BY ShipInGrid
  <2>2. ASSUME NEW m \in Ships, m \subseteq g, FoundShip(g, s) \subseteq m
        PROVE  m = FoundShip(g, s)
    <3>1. PICK r \in ShipStarts(g) : m \subseteq FoundShip(g, r)
      BY <2>2, LineOnShip
    <3>2. s = r
      BY <1>2, <2>2, <3>1
    <3>3. QED
      BY <2>2, <3>1, <3>2
  <2>3. QED
    BY <1>1, <2>1, <2>2 DEF Inside
<1>4. ASSUME NEW l \in Inside(g)
      PROVE  \E s \in ShipStarts(g) : l = FoundShip(g, s)
  <2>1. l \in Ships /\ l \subseteq g
    BY DEF Inside
  <2>2. PICK s \in ShipStarts(g) : l \subseteq FoundShip(g, s)
    BY <2>1, LineOnShip
  <2>3. FoundShip(g, s) \in Ships /\ FoundShip(g, s) \subseteq g
    BY <1>1, ShipInGrid
  <2>4. QED
    BY <2>2, <2>3 DEF Inside
<1>5. QED
  BY <1>2, <1>3, <1>4, ShipLength DEF FoundInside

LEMMA ValidIsFleet ==
    ASSUME NEW g \in Grids, VerifyPositionOfShips(g)
    PROVE  IsFleet(g)
<1>1. FoundInside(g)
  BY ValidFound
<1>2. UNION Inside(g) = g
  <2>1. UNION Inside(g) \subseteq g
    BY DEF Inside
  <2>2. ASSUME NEW c \in g PROVE c \in UNION Inside(g)
    <3>1. PICK s \in ShipStarts(g) : c \in FoundShip(g, s)
      BY ShipsCover
    <3>2. FoundShip(g, s) \in Inside(g)
      BY <1>1 DEF FoundInside
    <3>3. QED
      BY <3>1, <3>2
  <2>3. QED
    BY <2>1, <2>2
<1>3. ASSUME NEW a \in Inside(g), NEW b \in Inside(g), Touch(a, b)
      PROVE  a = b
  <2>1. PICK s \in ShipStarts(g), r \in ShipStarts(g) :
           a = FoundShip(g, s) /\ b = FoundShip(g, r)
    BY <1>1 DEF FoundInside
  <2>2. PICK x \in a, y \in b : Near(x, y)
    BY <1>3 DEF Touch, Near
  <2>3. s = r
    BY <2>1, <2>2, ShipsApart
  <2>4. QED
    BY <2>1, <2>3
<1>4. \A t \in AVAILABLE_SHIPS :
         Cardinality({l \in Inside(g) : Cardinality(l) = t.size}) = t.number
  <2> SUFFICES ASSUME NEW t \in AVAILABLE_SHIPS
               PROVE  Cardinality({l \in Inside(g) : Cardinality(l) = t.size})
                         = t.number
    OBVIOUS
  <2>1. Cardinality(StartsOf(g, t.size)) = t.number
    BY StartCount
  <2>2. Cardinality(StartsOf(g, t.size))
           = Cardinality({l \in Inside(g) : Cardinality(l) = t.size})
    BY <1>1, CountsAgree
  <2>3. QED
    BY <2>1, <2>2
<1>5. QED
  BY <1>2, <1>3, <1>4, FleetParts

(* In a fleet, too, a cell next to a ship is of that ship. *)
LEMMA FleetApart ==
    ASSUME NEW g \in Grids, IsFleet(g), NEW l \in Inside(g),
           NEW x \in l, NEW y \in g, Near(x, y)
    PROVE  y \in l
<1>1. PICK m \in Inside(g) : y \in m
  BY FleetParts
<1>2. Touch(l, m)
  BY <1>1 DEF Touch, Near
<1>3. QED
  BY <1>1, <1>2, FleetParts

(* A line whose cells before and beside the first one are free is found. *)
LEMMA LineFound ==
    ASSUME NEW g \in Grids, NEW s \in ShipStarts(g), NEW n \in Nat \ {0},
           NEW d \in Dirs, Line(s, n, d) \subseteq g,
           \A x \in Line(s, n, d), y \in g : Near(x, y) => y \in Line(s, n, d)
    PROVE  /\ FoundSize(g, s) = n /\ FoundShip(g, s) = Line(s, n, d)
           /\ CheckShip(g, s, ShipDir(g, s), Across(ShipDir(g, s)))
<1> DEFINE l == Line(s, n, d)
           e == ShipDir(g, s)
<1>1. s[1] \in Int /\ s[2] \in Int /\ s = <<s[1], s[2]>> /\ s \in g
  BY StartParts DEF ShipStarts
<1>2. \A c : HasShip(g, c) <=> c \in g
  BY CellParts
<1>3. \A k \in 0 .. n - 1 : Steps(s, k, d) \in l
  BY DEF Line
<1>4. \A c \in l : \E k \in 0 .. n - 1 : c = Steps(s, k, d)
  BY DEF Line
<1> HIDE DEF l
<1>5. \A x \in l, y \in g : Near(x, y) => y \in l
  BY DEF l
<1>6. s \in l
  <2>1. 0 \in 0 .. n - 1 /\ Steps(s, 0, d) = s
    BY <1>1 DEF Steps, Dirs
  <2>2. QED
    BY <1>3, <2>1
<1>7. e \in Dirs /\ (n > 1 => e = d) /\ \A k \in 0 .. n - 1 : Steps(s, k, e) = Steps(s, k, d)
  <2>1. e \in Dirs /\ (e = "DOWN" <=> Steps(s, 1, "DOWN") \in g)
    BY <1>2 DEF ShipDir, Dirs
  <2> DEFINE v == Steps(s, 1, "DOWN")
  <2>2. v = <<s[1] + 1, s[2]>>
    BY StepsAre
  <2>3. v \in g => v \in l
    <3>1. Near(s, v)
      BY <1>1, <2>2 DEF Near
    <3>2. QED
      BY <1>5, <1>6, <3>1
  <2>4. CASE n = 1
    <3>1. \A k \in 0 .. n - 1 : k = 0
      BY <2>4
    <3>2. \A b \in Dirs : Steps(s, 0, b) = s
      BY <1>1 DEF Steps, Dirs
    <3>3. QED
      BY <2>1, <2>4, <3>1, <3>2
  <2>5. CASE n > 1
    <3>1. d = "DOWN" => v \in g
      <4>1. 1 \in 0 .. n - 1
        BY <2>5
      <4>2. Steps(s, 1, d) \in g
        BY <1>3, <4>1 DEF l
      <4>3. QED
        BY <4>2
    <3>2. d = "RIGHT" => v \notin l
      <4> SUFFICES ASSUME d = "RIGHT", v \in l PROVE FALSE
        OBVIOUS
      <4>1. PICK k \in 0 .. n - 1 : v = Steps(s, k, d)
        BY <1>4
      <4>2. v = <<s[1], s[2] + k>>
        BY <4>1 DEF Steps
      <4>3. s[1] + 1 = s[1]
        BY <2>2, <4>2
      <4>4. QED
        BY <1>1, <4>3
    <3>3. e = d
      <4> HIDE DEF v, e
      <4>1. QED
        BY <2>1, <2>3, <3>1, <3>2 DEF Dirs, v
    <3>4. QED
      BY <2>1, <3>3
  <2>6. QED
    BY <2>4, <2>5
<1> HIDE DEF e
<1>8. Line(s, n, e) = l
  <2>1. \A k \in 0 .. n - 1 : Steps(s, k, e) = Steps(s, k, d)
    BY <1>7
  <2>2. QED
    BY <2>1 DEF Line, l
<1>9. \A k \in 0 .. n - 1 : Steps(s, k, e) \in l /\ Steps(s, k, e) \in g
  BY <1>3, <1>7 DEF l
<1>10. \A c \in l : \E k \in 0 .. n - 1 : c = Steps(s, k, e)
  BY <1>8 DEF Line
<1>11. Steps(s, n, e) \notin g
  <2> SUFFICES ASSUME Steps(s, n, e) \in g PROVE FALSE
    OBVIOUS
  <2>1. n - 1 \in 0 .. n - 1 /\ Near(Steps(s, n - 1, e), Steps(s, n, e))
    BY <1>1, <1>7 DEF Near, Steps, Dirs
  <2>2. Steps(s, n, e) \in l
    BY <1>5, <1>9, <2>1
  <2>3. PICK k \in 0 .. n - 1 : Steps(s, n, e) = Steps(s, k, e)
    BY <1>10, <2>2
  <2>4. n = k
    BY <1>1, <1>7, <2>3 DEF Steps, Dirs
  <2>5. QED
    BY <2>3, <2>4
<1>12. FoundSize(g, s) = n
  <2> DEFINE m == FoundSize(g, s)
  <2>1. /\ m \in 1 .. SIDE /\ SIDE \in Nat
        /\ \A k \in 0 .. m - 1 : Steps(s, k, e) \in g
        /\ Steps(s, m, e) \notin g
    BY <1>1, <1>7, SizeFound, GridAssumption DEF FoundSize, e
  <2> HIDE DEF m
  <2>2. ~(m < n)
    <3> SUFFICES ASSUME m < n PROVE FALSE
      OBVIOUS
    <3>1. m \in 0 .. n - 1
      BY <2>1
    <3>2. QED
      BY <1>9, <2>1, <3>1
  <2>3. ~(n < m)
    <3> SUFFICES ASSUME n < m PROVE FALSE
      OBVIOUS
    <3>1. n \in 0 .. m - 1
      BY <2>1
    <3>2. QED
      BY <1>11, <2>1, <3>1
  <2>4. m = n
    BY <2>1, <2>2, <2>3
  <2>5. QED
    BY <2>4 DEF m
<1>13. FoundShip(g, s) = Line(s, n, d)
  BY <1>8, <1>12 DEF FoundShip, e, l
<1>14. \A k \in -1 .. n, j \in -1 .. 1 :
          j # 0 \/ k = -1 => Steps(Steps(s, k, e), j, Across(e)) \notin g
  <2> SUFFICES ASSUME NEW k \in -1 .. n, NEW j \in -1 .. 1, j # 0 \/ k = -1,
                      Steps(Steps(s, k, e), j, Across(e)) \in g
               PROVE  FALSE
    OBVIOUS
  <2> DEFINE y == Steps(Steps(s, k, e), j, Across(e))
             i == IF k = -1 THEN 0 ELSE IF k = n THEN n - 1 ELSE k
  <2>1. i \in 0 .. n - 1 /\ k - i \in -1 .. 1
    OBVIOUS
  <2> HIDE DEF i
  <2>2. Near(Steps(s, i, e), y)
    BY <1>1, <1>7, <2>1 DEF Near, Steps, Dirs, Across
  <2>3. y \in l
    BY <1>5, <1>9, <2>1, <2>2
  <2>4. PICK h \in 0 .. n - 1 : y = Steps(s, h, e)
    BY <1>10, <2>3
  <2>5. j = 0 /\ k = h
    BY <1>1, <1>7, <2>4 DEF Steps, Dirs, Across
  <2>6. QED
    BY <2>4, <2>5
<1>15. CheckShip(g, s, e, Across(e))
  <2>1. ShipSize(g, s, e) = n
    BY <1>12 DEF FoundSize, e
  <2>2. \A j \in -1 .. 1 : Steps(Steps(s, -1, e), j, Across(e)) \notin g
    <3>1. -1 \in -1 .. n
      OBVIOUS
    <3>2. QED
      BY <1>14, <3>1
  <2>3. \A k \in 0 .. n, j \in {-1, 1} : Steps(Steps(s, k, e), j, Across(e)) \notin g
    <3> SUFFICES ASSUME NEW k \in 0 .. n, NEW j \in {-1, 1}
                 PROVE  Steps(Steps(s, k, e), j, Across(e)) \notin g
      OBVIOUS
    <3>1. k \in -1 .. n /\ j \in -1 .. 1 /\ j # 0
      OBVIOUS
    <3>2. QED
      BY <1>14, <3>1
  <2>4. QED
    BY <1>2, <2>1, <2>2, <2>3 DEF CheckShip
<1>16. QED
  BY <1>12, <1>13, <1>15 DEF e

(* Every ship of a fleet is found, from its first cell. *)
LEMMA FleetShipFound ==
    ASSUME NEW g \in Grids, IsFleet(g), NEW l \in Inside(g)
    PROVE  \E s \in ShipStarts(g) :
              /\ s \in l /\ l = FoundShip(g, s)
              /\ Cardinality(l) = FoundSize(g, s)
              /\ CheckShip(g, s, ShipDir(g, s), Across(ShipDir(g, s)))
              /\ \E t \in AVAILABLE_SHIPS : t.size = FoundSize(g, s)
<1>1. l \in Ships /\ l \subseteq g
  BY DEF Inside
<1>2. PICK c \in l, t \in AVAILABLE_SHIPS, d \in Dirs :
         /\ l = Line(c, t.size, d) /\ t.size \in Nat \ {0}
         /\ c[1] \in Int /\ c[2] \in Int /\ c = <<c[1], c[2]>>
  BY <1>1, ShipIsLine
<1>3. \A e \in l : \E k \in 0 .. t.size - 1 : e = Steps(c, k, d)
  BY <1>2 DEF Line
<1>4. <<c[1] - 1, c[2]>> \notin g /\ <<c[1], c[2] - 1>> \notin g
  <2> SUFFICES ASSUME NEW y \in g,
                      y = <<c[1] - 1, c[2]>> \/ y = <<c[1], c[2] - 1>>
               PROVE  FALSE
    OBVIOUS
  <2>1. Near(c, y)
    BY <1>2 DEF Near
  <2>2. y \in l
    BY <1>2, <2>1, FleetApart
  <2>3. PICK k \in 0 .. t.size - 1 : y = Steps(c, k, d)
    BY <1>3, <2>2
  <2>4. k \in Nat
    BY <1>2, <2>3
  <2>5. y = <<c[1] + k, c[2]>> \/ y = <<c[1], c[2] + k>>
    BY <2>3 DEF Steps, Dirs
  <2>6. QED
    BY <1>2, <2>4, <2>5
<1>5. c \in ShipStarts(g)
  <2>1. Steps(c, 1, "UP") = <<c[1] - 1, c[2]>>
        /\ Steps(c, 1, "LEFT") = <<c[1], c[2] - 1>>
    BY StepsAre
  <2>2. ~HasShip(g, Steps(c, 1, "UP")) /\ ~HasShip(g, Steps(c, 1, "LEFT"))
    BY <1>4, <2>1, CellParts
  <2>3. QED
    BY <1>1, <1>2, <2>2 DEF ShipStarts
<1>6. \A x \in l, y \in g : Near(x, y) => y \in l
  BY FleetApart
<1>7. /\ FoundSize(g, c) = t.size /\ FoundShip(g, c) = l
      /\ CheckShip(g, c, ShipDir(g, c), Across(ShipDir(g, c)))
  BY <1>1, <1>2, <1>5, <1>6, LineFound
<1>8. Cardinality(l) = t.size
  BY <1>2, LineSize
<1>9. QED
  BY <1>2, <1>5, <1>7, <1>8

LEMMA FleetFound ==
    ASSUME NEW g \in Grids, IsFleet(g)
    PROVE  /\ FoundInside(g)
           /\ \A s \in ShipStarts(g) :
                 /\ CheckShip(g, s, ShipDir(g, s), Across(ShipDir(g, s)))
                 /\ \E t \in AVAILABLE_SHIPS : t.size = FoundSize(g, s)
<1>1. ASSUME NEW l \in Inside(g), NEW s \in ShipStarts(g), s \in l,
             NEW r \in ShipStarts(g), r \in l, l = FoundShip(g, r)
      PROVE  s = r
  <2>1. PICK k \in 0 .. FoundSize(g, r) - 1 : s = Steps(r, k, ShipDir(g, r))
    BY <1>1 DEF FoundShip, Line
  <2>2. /\ r \in g /\ ShipDir(g, r) \in Dirs
        /\ r[1] \in Int /\ r[2] \in Int /\ r = <<r[1], r[2]>>
    BY StartParts DEF ShipStarts, ShipDir, Dirs
  <2>3. /\ FoundSize(g, r) \in 1 .. SIDE /\ SIDE \in Nat
        /\ \A i \in 0 .. FoundSize(g, r) - 1 : Steps(r, i, ShipDir(g, r)) \in g
    BY <2>2, SizeFound, GridAssumption DEF FoundSize
  <2>4. k = 0
    <3> SUFFICES ASSUME k # 0 PROVE FALSE
      OBVIOUS
    <3>1. k \in Nat /\ k - 1 \in 0 .. FoundSize(g, r) - 1
      BY <2>1, <2>3
    <3>2. Steps(r, k - 1, ShipDir(g, r)) \in g
      BY <2>3, <3>1
    <3>3. \/ Steps(r, k - 1, ShipDir(g, r)) = <<s[1] - 1, s[2]>>
          \/ Steps(r, k - 1, ShipDir(g, r)) = <<s[1], s[2] - 1>>
      BY <2>1, <2>2, <3>1 DEF Steps, Dirs
    <3>4. <<s[1] - 1, s[2]>> \notin g /\ <<s[1], s[2] - 1>> \notin g
      BY StartParts
    <3>5. QED
      BY <3>2, <3>3, <3>4
  <2>5. QED
    BY <2>1, <2>2, <2>4 DEF Steps, Dirs
<1>2. ASSUME NEW s \in ShipStarts(g)
      PROVE  /\ FoundShip(g, s) \in Inside(g) /\ s \in FoundShip(g, s)
             /\ Cardinality(FoundShip(g, s)) = FoundSize(g, s)
             /\ CheckShip(g, s, ShipDir(g, s), Across(ShipDir(g, s)))
             /\ \E t \in AVAILABLE_SHIPS : t.size = FoundSize(g, s)
  <2>1. s \in g
    BY DEF ShipStarts
  <2>2. PICK l \in Inside(g) : s \in l
    BY <2>1, FleetParts
  <2>3. PICK r \in ShipStarts(g) :
              /\ r \in l /\ l = FoundShip(g, r)
              /\ Cardinality(l) = FoundSize(g, r)
              /\ CheckShip(g, r, ShipDir(g, r), Across(ShipDir(g, r)))
              /\ \E t \in AVAILABLE_SHIPS : t.size = FoundSize(g, r)
    BY FleetShipFound
  <2>4. s = r
    BY <1>1, <2>2, <2>3
  <2>5. QED
    BY <2>2, <2>3, <2>4
<1>3. \A l \in Inside(g) : \E s \in ShipStarts(g) : l = FoundShip(g, s)
  BY FleetShipFound
<1>4. ASSUME NEW s \in ShipStarts(g), NEW r \in ShipStarts(g),
             FoundShip(g, s) = FoundShip(g, r)
      PROVE  s = r
  BY <1>1, <1>2, <1>4
<1>5. QED
  BY <1>2, <1>3, <1>4 DEF FoundInside

LEMMA FleetIsValid ==
    ASSUME NEW g \in Grids, IsFleet(g)
    PROVE  VerifyPositionOfShips(g)
<1>1. /\ FoundInside(g)
      /\ \A s \in ShipStarts(g) :
            /\ CheckShip(g, s, ShipDir(g, s), Across(ShipDir(g, s)))
            /\ \E t \in AVAILABLE_SHIPS : t.size = FoundSize(g, s)
  BY FleetFound
<1>2. ASSUME NEW t \in AVAILABLE_SHIPS
      PROVE  Cardinality(StartsOf(g, t.size)) = t.number
  <2>1. Cardinality(StartsOf(g, t.size))
           = Cardinality({l \in Inside(g) : Cardinality(l) = t.size})
    BY <1>1, CountsAgree
  <2>2. QED
    BY <2>1, FleetParts
<1>3. QED
  BY <1>1, <1>2, Zenon DEF VerifyPositionOfShips, Across, StartsOf, FoundSize

(***************************************************************************)
(* For every board and every fleet: following each ship from its first     *)
(* cell, VerifyPositionOfShips accepts exactly the positions that are a    *)
(* fleet of straight ships of which no two touch.                          *)
(***************************************************************************)
THEOREM ValidPositionsAreFleets ==
    \A g \in Grids : VerifyPositionOfShips(g) <=> IsFleet(g)
  BY ValidIsFleet, FleetIsValid

-----------------------------------------------------------------------------
(***************************************************************************)
(* The boards that moves lead to, phase by phase.                          *)
(***************************************************************************)
(* Before the seeds are known. *)
Opening(pb) ==
    /\ pb.winner = None /\ pb.known_ships = <<>> /\ pb.current_shot = None
    /\ pb.positions = <<>>

Fresh(pb) ==
    /\ Opening(pb) /\ pb.turn = 1 /\ pb.position_hashes = <<>>
    /\ pb.seed_hash_0 = None /\ pb.seed_1 = None

Committed(pb) ==
    /\ Opening(pb) /\ pb.turn = 2 /\ pb.position_hashes \in [1 .. 1 -> PositionHashes]
    /\ pb.seed_hash_0 \in SeedHashes /\ pb.seed_1 = None

Seeding(pb) ==
    /\ Opening(pb) /\ pb.turn = 1 /\ pb.position_hashes \in [1 .. 2 -> PositionHashes]
    /\ pb.seed_hash_0 \in SeedHashes

(* What is known of the ships; a shot that q has not answered. *)
Known(pb) ==
    /\ pb.known_ships \in [1 .. 2 -> Knowledge]
    /\ \A q \in 1 .. 2 : pb.known_ships[q].hits \subseteq pb.known_ships[q].guessed

ShotAt(pb, q) ==
    pb.current_shot # None =>
        /\ IsOnBoard(Coord(pb.current_shot))
        /\ Coord(pb.current_shot) \in pb.known_ships[q].guessed
        /\ Coord(pb.current_shot) \notin pb.known_ships[q].hits

Playing(pb) ==
    /\ pb.winner = None /\ pb.turn \in {1, 2}
    /\ pb.position_hashes \in [1 .. 2 -> PositionHashes]
    /\ Known(pb) /\ ShotAt(pb, pb.turn) /\ pb.positions = <<>>
    /\ pb.seed_hash_0 = None

(* What q has revealed is valid and agrees with q's answers. *)
Verified(pb, q) ==
    /\ VerifyPositionOfShips(pb.positions[q])
    /\ VerifyPositionForAnswers(pb.positions[q], pb.known_ships[q].guessed,
                                pb.known_ships[q].hits)

Revealing(pb) ==
    /\ pb.winner = None /\ pb.turn \in {1, 2}
    /\ pb.position_hashes \in [1 .. 2 -> PositionHashes \cup {None}]
    /\ pb.position_hashes[pb.turn] \in PositionHashes
    /\ pb.position_hashes[Other(pb.turn)] = None
    /\ Known(pb) /\ ShotAt(pb, Other(pb.turn))
    /\ pb.positions \in [1 .. 2 -> Grids]
    /\ pb.positions[pb.turn] = {} /\ Verified(pb, Other(pb.turn))
    /\ pb.seed_hash_0 = None

Over(pb) ==
    /\ pb.winner \in {1, 2} /\ pb.turn = None
    /\ pb.position_hashes = <<None, None>>
    /\ Known(pb) /\ pb.positions \in [1 .. 2 -> Grids]
    /\ pb.positions[pb.winner] # {} => Verified(pb, pb.winner)
    /\ pb.seed_hash_0 = None

GoodBoard(pb) ==
    /\ pb \in BoardRecords
    /\ \/ Fresh(pb) \/ Committed(pb) \/ Seeding(pb)
       \/ Playing(pb) \/ Revealing(pb) \/ Over(pb)

(***************************************************************************)
(* What a board says of the position and the seed that the daemon of p     *)
(* keeps: it has committed to them, with the salt it has or with the one   *)
(* from before the salt was written, and answered truthfully every shot    *)
(* but the one that waits for an answer.                                   *)
(***************************************************************************)
Target(pb) == IF pb.positions = <<>> THEN pb.turn ELSE Other(pb.turn)

Unanswered(pb, p) ==
    IF pb.current_shot # None /\ p = Target(pb) THEN {Coord(pb.current_shot)}
    ELSE {}

Honest(pb, p, pos, salt, seed) ==
    /\ p \in DOMAIN pb.position_hashes =>
          /\ pos # {}
          /\ pb.position_hashes[p] \in {Hash(<<pos, salt>>), Hash(<<pos, NotDrawn>>),
                                        None}
    /\ p = 1 /\ pb.seed_hash_0 # None => pb.seed_hash_0 = Hash(seed)
    /\ pb.known_ships # <<>> /\ pb.winner = None =>
          pb.known_ships[p].hits
              = pos \cap (pb.known_ships[p].guessed \ Unanswered(pb, p))

DaemonType ==
    /\ daemons \subseteq Players
    /\ position \in [Players -> Grids]
    /\ positionSalt \in [Players -> Nat]
    /\ seed0 \in [Players -> Seeds \cup {None}]
    /\ call \in [Players -> [Threads -> Grids \cup {None}]]
    /\ fate \in [Players -> {"running", "setposition", "automove", "not signed"}]
    /\ faults \in Nat

ValidPositions ==
    \A p \in Players :
        /\ IsPositionSet(p) => VerifyPositionOfShips(position[p])
        /\ \A t \in Threads :
              call[p][t] # None => VerifyPositionOfShips(call[p][t])

BoardsGood ==
    /\ GoodBoard(board)
    /\ aside # None => GoodBoard(aside) /\ Opening(aside)

DaemonsHonest ==
    \A p \in daemons \ forgot :
        /\ Honest(board, p, position[p], positionSalt[p], seed0[p])
        /\ aside # None => Honest(aside, p, position[p], positionSalt[p], seed0[p])
        /\ Revealing(board) /\ board.turn = Other(p) => p \in revealed

(* The daemon of p committed early, and it is p's turn to reveal: the game *)
(* goes no further.                                                        *)
Stuck(p) ==
    /\ p \in daemons /\ board.turn = p /\ board.known_ships # <<>> /\ aside = None
    /\ CommittedEarly(p)

AbortsExplained ==
    \A p \in Players : fate[p] = "automove" => p \in forgot \/ Stuck(p)

ShipsInv ==
    /\ DaemonType /\ ValidPositions /\ BoardsGood /\ DaemonsHonest
    /\ LosesOnlyIfSunk /\ AbortsExplained

-----------------------------------------------------------------------------
(* Phases and turn counts. *)

LEMMA Absent ==
    /\ None # Malformed /\ None # 1 /\ None # 2 /\ Malformed # 1
    /\ None \notin Int /\ None \notin PositionHashes /\ None \notin SeedHashes
    /\ None \notin Seeds /\ Malformed \notin Seeds
    /\ Malformed \notin Int /\ Malformed \notin PositionHashes
    /\ Malformed \notin SeedHashes
    /\ None \notin Grids /\ Malformed \notin Grids /\ None \notin BoardRecords
<1>1. 1 \in Int /\ 2 \in Int
  OBVIOUS
<1>2. QED
  BY <1>1, BoardAssumption

LEMMA PairIsSeq ==
    ASSUME NEW S, NEW f \in [1 .. 2 -> S]
    PROVE  f \in Seq(S) /\ Len(f) = 2 /\ DOMAIN f = 1 .. 2 /\ f # <<>>
<1>1. 2 \in Nat /\ DOMAIN f = 1 .. 2
  OBVIOUS
<1>2. f \in Seq(S)
  BY <1>1, SeqDef
<1>3. Len(f) \in Nat /\ 1 .. Len(f) = 1 .. 2
  BY <1>1, <1>2, LenProperties
<1>4. Len(f) = 2
  <2>1. Len(f) >= 1 => Len(f) \in 1 .. Len(f)
    BY <1>3
  <2>2. 2 \in 1 .. Len(f) /\ Len(f) >= 1
    BY <1>3
  <2>3. QED
    BY <1>3, <2>1, <2>2
<1>5. f # <<>>
  BY <1>2, <1>4
<1>6. QED
  BY <1>1, <1>2, <1>4, <1>5

LEMMA SingleIsSeq ==
    ASSUME NEW S, NEW f \in [1 .. 1 -> S]
    PROVE  f \in Seq(S) /\ Len(f) = 1 /\ DOMAIN f = 1 .. 1
<1>1. 1 \in Nat /\ DOMAIN f = 1 .. 1
  OBVIOUS
<1>2. f \in Seq(S)
  BY <1>1, SeqDef
<1>3. Len(f) \in Nat /\ 1 .. Len(f) = 1 .. 1
  BY <1>1, <1>2, LenProperties
<1>4. Len(f) = 1
  <2>1. Len(f) >= 1 => Len(f) \in 1 .. Len(f)
    BY <1>3
  <2>2. 1 \in 1 .. Len(f) /\ Len(f) >= 1
    BY <1>3
  <2>3. QED
    BY <1>3, <2>1, <2>2
<1>5. QED
  BY <1>1, <1>2, <1>4

LEMMA AppendToSeq ==
    ASSUME NEW S, NEW f \in Seq(S), Len(f) = 1, NEW e \in S
    PROVE  Append(f, e) = <<f[1], e>>
<1>1. Append(f, e) \in Seq(S)
  BY AppendProperties
<1>2. Len(Append(f, e)) = Len(f) + 1
  BY AppendProperties
<1>3. Append(f, e)[Len(f) + 1] = e
  BY AppendProperties
<1>4. Append(f, e)[1] = f[1]
  <2>1. 1 \in 1 .. Len(f)
    OBVIOUS
  <2>2. QED
    BY <2>1, AppendProperties
<1> DEFINE a == Append(f, e)
<1>5. a \in Seq(S) /\ Len(a) = 2
  BY <1>1, <1>2
<1>6. a[1] = f[1] /\ a[2] = e
  <2>1. Len(f) + 1 = 2
    OBVIOUS
  <2>2. QED
    BY <1>3, <1>4, <2>1
<1> HIDE DEF a
<1>7. a = <<f[1], e>>
  BY <1>5, <1>6
<1>8. QED
  BY <1>7 DEF a

LEMMA AppendToOne ==
    ASSUME NEW S, NEW f \in [1 .. 1 -> S], NEW e \in S
    PROVE  Append(f, e) = <<f[1], e>> /\ f[1] \in S
  BY SingleIsSeq, AppendToSeq

(* The phases are those that GetPhase tells. *)
LEMMA PhaseOf ==
    ASSUME NEW pb
    PROVE  /\ Fresh(pb) => GetPhase(pb) = "FIRST_COMMITMENT"
           /\ Committed(pb) => GetPhase(pb) = "SECOND_COMMITMENT"
           /\ Seeding(pb) => GetPhase(pb) = "FIRST_REVEAL_SEED"
           /\ Playing(pb) => GetPhase(pb) = IF pb.current_shot # None
                                            THEN "ANSWER" ELSE "SHOOT"
           /\ Revealing(pb) => GetPhase(pb) = "SECOND_REVEAL_POSITION"
           /\ Over(pb) => GetPhase(pb) = "FINISHED"
<1>1. Len(<<>>) = 0
  OBVIOUS
<1>2. Fresh(pb) => GetPhase(pb) = "FIRST_COMMITMENT"
  BY <1>1 DEF GetPhase, Fresh, Opening
<1>3. Committed(pb) => GetPhase(pb) = "SECOND_COMMITMENT"
  <2>1. Committed(pb) => pb.winner = None /\ Len(pb.position_hashes) = 1
    BY SingleIsSeq DEF Committed, Opening
  <2>2. QED
    BY <2>1 DEF GetPhase
<1>4. Seeding(pb) => GetPhase(pb) = "FIRST_REVEAL_SEED"
  <2>1. Seeding(pb) => /\ pb.winner = None /\ Len(pb.position_hashes) = 2
                       /\ Len(pb.known_ships) = 0
    BY <1>1, PairIsSeq DEF Seeding, Opening
  <2>2. QED
    BY <2>1 DEF GetPhase
<1>5. Playing(pb) => GetPhase(pb) = IF pb.current_shot # None
                                    THEN "ANSWER" ELSE "SHOOT"
  <2>1. Playing(pb) => /\ pb.winner = None /\ Len(pb.position_hashes) = 2
                       /\ Len(pb.known_ships) = 2 /\ Len(pb.positions) = 0
    BY <1>1, PairIsSeq DEF Playing, Known
  <2>2. QED
    BY <2>1 DEF GetPhase
<1>6. Revealing(pb) => GetPhase(pb) = "SECOND_REVEAL_POSITION"
  <2>1. Revealing(pb) => /\ pb.winner = None /\ Len(pb.position_hashes) = 2
                         /\ Len(pb.known_ships) = 2 /\ Len(pb.positions) = 2
    BY PairIsSeq DEF Revealing, Known
  <2>2. QED
    BY <2>1 DEF GetPhase
<1>7. Over(pb) => GetPhase(pb) = "FINISHED"
  <2>1. Over(pb) => pb.winner # None
    BY Absent DEF Over
  <2>2. QED
    BY <2>1 DEF GetPhase
<1>8. QED
  BY <1>2, <1>3, <1>4, <1>5, <1>6, <1>7

LEMMA ShapeOf ==
    ASSUME NEW pb, GoodBoard(pb)
    PROVE  /\ GetPhase(pb) = "FIRST_COMMITMENT" => Fresh(pb)
           /\ GetPhase(pb) = "SECOND_COMMITMENT" => Committed(pb)
           /\ GetPhase(pb) = "FIRST_REVEAL_SEED" => Seeding(pb)
           /\ GetPhase(pb) = "SHOOT" => Playing(pb) /\ pb.current_shot = None
           /\ GetPhase(pb) = "ANSWER" => Playing(pb) /\ pb.current_shot # None
           /\ GetPhase(pb) = "SECOND_REVEAL_POSITION" => Revealing(pb)
           /\ GetPhase(pb) = "FINISHED" => Over(pb)
  BY PhaseOf DEF GoodBoard

(* The numbers that TurnCount adds. *)
Shots(pb) == Cardinality(UNION {{i} \X pb.known_ships[i].guessed :
                                   i \in DOMAIN pb.known_ships})

LEMMA KnownParts ==
    ASSUME NEW pb, Known(pb), NEW q \in 1 .. 2
    PROVE  /\ pb.known_ships[q] \in Knowledge
           /\ pb.known_ships[q].guessed \in Grids /\ pb.known_ships[q].hits \in Grids
           /\ pb.known_ships[q].hits \subseteq pb.known_ships[q].guessed
           /\ IsFiniteSet(pb.known_ships[q].guessed)
           /\ Cardinality(pb.known_ships[q].guessed) \in Nat
           /\ Cardinality(pb.known_ships[q].hits) \in Nat
<1>1. pb.known_ships[q] \in Knowledge
      /\ pb.known_ships[q].hits \subseteq pb.known_ships[q].guessed
  BY DEF Known
<1>2. pb.known_ships[q].guessed \in Grids /\ pb.known_ships[q].hits \in Grids
  BY <1>1 DEF Knowledge
<1>3. QED
  BY <1>1, <1>2, CellParts

LEMMA ShotsAre ==
    ASSUME NEW pb, Known(pb)
    PROVE  Shots(pb) = Cardinality(pb.known_ships[1].guessed)
                          + Cardinality(pb.known_ships[2].guessed)
<1> DEFINE A == pb.known_ships[1].guessed
           B == pb.known_ships[2].guessed
<1>1. DOMAIN pb.known_ships = 1 .. 2
  BY DEF Known
<1>2. 1 \in 1 .. 2 /\ 2 \in 1 .. 2 /\ \A i \in 1 .. 2 : i = 1 \/ i = 2
  OBVIOUS
<1>3. UNION {{i} \X pb.known_ships[i].guessed : i \in DOMAIN pb.known_ships}
         = ({1} \X A) \cup ({2} \X B)
  BY <1>1, <1>2
<1>4. IsFiniteSet(A) /\ IsFiniteSet(B) /\ Cardinality(A) \in Nat
      /\ Cardinality(B) \in Nat
  BY <1>2, KnownParts
<1> HIDE DEF A, B
<1>5. /\ IsFiniteSet({1}) /\ Cardinality({1}) = 1
      /\ IsFiniteSet({2}) /\ Cardinality({2}) = 1
  BY FS_Singleton
<1>6. /\ IsFiniteSet({1} \X A) /\ Cardinality({1} \X A) = Cardinality(A)
      /\ IsFiniteSet({2} \X B) /\ Cardinality({2} \X B) = Cardinality(B)
  <2>1. 1 * Cardinality(A) = Cardinality(A) /\ 1 * Cardinality(B) = Cardinality(B)
    BY <1>4
  <2>2. /\ IsFiniteSet({1} \X A)
        /\ Cardinality({1} \X A) = Cardinality({1}) * Cardinality(A)
    BY <1>4, <1>5, FS_Product
  <2>3. /\ IsFiniteSet({2} \X B)
        /\ Cardinality({2} \X B) = Cardinality({2}) * Cardinality(B)
    BY <1>4, <1>5, FS_Product
  <2>4. QED
    BY <1>5, <2>1, <2>2, <2>3
<1>7. ({1} \X A) \cap ({2} \X B) = {}
  OBVIOUS
<1>8. Cardinality(({1} \X A) \cup ({2} \X B))
         = Cardinality(A) + Cardinality(B) - Cardinality({})
  BY <1>6, <1>7, FS_Union
<1>9. Cardinality({}) = 0
  BY FS_EmptySet
<1>10. QED
  <2>1. Shots(pb) = Cardinality(({1} \X A) \cup ({2} \X B))
    BY <1>3 DEF Shots
  <2>2. Shots(pb) = Cardinality(A) + Cardinality(B)
    BY <1>4, <1>8, <1>9, <2>1
  <2>3. QED
    BY <2>2 DEF A, B

LEMMA RevealsAre ==
    ASSUME NEW pb
    PROVE  /\ pb.positions = <<>> => RevealsCounted(pb) = 0
           /\ pb.positions \in [1 .. 2 -> Grids] =>
                 /\ RevealsCounted(pb)
                       = Cardinality({i \in 1 .. 2 : pb.positions[i] \cap LowCells # {}})
                 /\ RevealsCounted(pb) \in Nat
<1>1. ASSUME pb.positions = <<>> PROVE RevealsCounted(pb) = 0
  <2>1. {i \in DOMAIN pb.positions : pb.positions[i] \cap LowCells # {}} = {}
    BY <1>1
  <2>2. QED
    BY <2>1, FS_EmptySet DEF RevealsCounted
<1>2. ASSUME pb.positions \in [1 .. 2 -> Grids]
      PROVE  /\ RevealsCounted(pb)
                   = Cardinality({i \in 1 .. 2 : pb.positions[i] \cap LowCells # {}})
             /\ RevealsCounted(pb) \in Nat
  <2>1. DOMAIN pb.positions = 1 .. 2
    BY <1>2
  <2>2. IsFiniteSet(1 .. 2)
    <3>1. 1 \in Int /\ 2 \in Int
      OBVIOUS
    <3>2. QED
      BY <3>1, FS_Interval
  <2>3. {i \in 1 .. 2 : pb.positions[i] \cap LowCells # {}} \subseteq 1 .. 2
    OBVIOUS
  <2>4. QED
    BY <2>1, <2>2, <2>3, FS_Subset, FS_CardinalityType DEF RevealsCounted
<1>3. QED
  BY <1>1, <1>2

LEMMA CountOf ==
    ASSUME NEW pb
    PROVE  /\ Fresh(pb) => TurnCount(pb) = 1
           /\ Committed(pb) => TurnCount(pb) = 2
           /\ Seeding(pb) => TurnCount(pb) = 3
           /\ Playing(pb) \/ Revealing(pb) \/ Over(pb) =>
                 /\ TurnCount(pb) = 4 + 2 * Shots(pb)
                                      - (IF pb.current_shot # None THEN 1 ELSE 0)
                                      + RevealsCounted(pb)
                 /\ Known(pb) /\ Shots(pb) \in Nat /\ RevealsCounted(pb) \in Nat
<1>1. Fresh(pb) => TurnCount(pb) = 1
  BY PhaseOf DEF TurnCount
<1>2. Committed(pb) => TurnCount(pb) = 2
  BY PhaseOf DEF TurnCount
<1>3. Seeding(pb) => TurnCount(pb) = 3
  BY PhaseOf DEF TurnCount
<1>4. ASSUME Playing(pb) \/ Revealing(pb) \/ Over(pb)
      PROVE  /\ TurnCount(pb) = 4 + 2 * Shots(pb)
                                  - (IF pb.current_shot # None THEN 1 ELSE 0)
                                  + RevealsCounted(pb)
             /\ Known(pb) /\ Shots(pb) \in Nat /\ RevealsCounted(pb) \in Nat
  <2>1. GetPhase(pb) \notin {"FIRST_COMMITMENT", "SECOND_COMMITMENT",
                             "FIRST_REVEAL_SEED"}
    BY <1>4, PhaseOf
  <2>2. TurnCount(pb) = 4 + 2 * Shots(pb)
                          - (IF pb.current_shot # None THEN 1 ELSE 0)
                          + RevealsCounted(pb)
    BY <2>1 DEF TurnCount, Shots
  <2>3. Known(pb) /\ (pb.positions = <<>> \/ pb.positions \in [1 .. 2 -> Grids])
    BY <1>4 DEF Playing, Revealing, Over
  <2>4. RevealsCounted(pb) \in Nat
    <3>1. 0 \in Nat
      OBVIOUS
    <3>2. QED
      BY <2>3, <3>1, RevealsAre, Zenon
  <2>5. /\ Cardinality(pb.known_ships[1].guessed) \in Nat
        /\ Cardinality(pb.known_ships[2].guessed) \in Nat
    <3>1. 1 \in 1 .. 2 /\ 2 \in 1 .. 2
      OBVIOUS
    <3>2. QED
      BY <2>3, <3>1, KnownParts
  <2>6. Shots(pb) \in Nat
    BY <2>3, <2>5, ShotsAre
  <2>7. QED
    BY <2>2, <2>3, <2>4, <2>6
<1>5. QED
  BY <1>1, <1>2, <1>3, <1>4

-----------------------------------------------------------------------------
(***************************************************************************)
(* What each move does to a good board, when it is allowed: the new board  *)
(* is good, and its turn count higher.                                     *)
(***************************************************************************)
Commitments ==
    [move : {"position_commitment"}, position_hash : PositionHashes \cup {Malformed},
     seed_hash : SeedHashes \cup {None, Malformed},
     seed : Seeds \cup {None, Malformed}]
SeedReveals == [move : {"seed_reveal"}, seed : Seeds \cup {None, Malformed}]
ShotMoves == [move : {"shot"}, location : Int]
Replies == [move : {"reply"}, reply : {"HIT", "MISS", "INVALID"}]
Reveals == [move : {"position_reveal"}, position : Grids, salt : Nat]

LEMMA TwoPlayers ==
    /\ 1 .. 2 = {1, 2} /\ 1 # 2
    /\ \A q \in {1, 2} : /\ Other(q) \in {1, 2} /\ Other(q) # q
                         /\ Other(Other(q)) = q
                         /\ \A p \in {1, 2} : p = q \/ p = Other(q)
  BY DEF Other

(* The fields of a board. *)
LEMMA BoardParts ==
    ASSUME NEW pb \in BoardRecords
    PROVE  /\ pb.turn \in {None, 1, 2} /\ pb.winner \in {None, 1, 2}
           /\ pb.position_hashes \in Seq(PositionHashes \cup {None})
           /\ pb.seed_hash_0 \in SeedHashes \cup {None}
           /\ pb.seed_1 \in Seeds \cup {None}
           /\ pb.known_ships \in [1 .. 2 -> Knowledge] \cup {<<>>}
           /\ pb.current_shot \in Int \cup {None}
           /\ pb.positions \in [1 .. 2 -> Grids] \cup {<<>>}
  BY DEF BoardRecords

CommitAllowed(pb, mv) ==
    /\ mv.position_hash # Malformed
    /\ \/ /\ GetPhase(pb) = "FIRST_COMMITMENT" /\ mv.seed = None
          /\ mv.seed_hash \notin {None, Malformed}
       \/ /\ GetPhase(pb) = "SECOND_COMMITMENT" /\ mv.seed # Malformed
          /\ mv.seed_hash = None

CommitStep(pb, mv, r) ==
    \/ /\ Fresh(pb) /\ Committed(r) /\ r.position_hashes = <<mv.position_hash>>
       /\ r.seed_hash_0 = mv.seed_hash
    \/ /\ Committed(pb) /\ Seeding(r)
       /\ r.position_hashes = <<pb.position_hashes[1], mv.position_hash>>
       /\ r.seed_hash_0 = pb.seed_hash_0

LEMMA CommitGood ==
    ASSUME NEW pb, GoodBoard(pb), NEW mv \in Commitments,
           NEW r, r = ApplyPositionCommitment(pb, mv),
           r # None \/ CommitAllowed(pb, mv)
    PROVE  GoodBoard(r) /\ CommitStep(pb, mv, r) /\ TurnCount(r) > TurnCount(pb)
<1> DEFINE h == mv.position_hash
           add == Append(pb.position_hashes, h)
<1>1. /\ h # Malformed /\ GetPhase(pb) \in {"FIRST_COMMITMENT", "SECOND_COMMITMENT"}
      /\ GetPhase(pb) = "FIRST_COMMITMENT" =>
            /\ mv.seed_hash \notin {None, Malformed}
            /\ r = [pb EXCEPT !.turn = 2, !.position_hashes = add,
                              !.seed_hash_0 = mv.seed_hash]
      /\ GetPhase(pb) = "SECOND_COMMITMENT" =>
            /\ mv.seed # Malformed
            /\ r = [pb EXCEPT !.turn = 1, !.position_hashes = add,
                              !.seed_1 = mv.seed]
  BY DEF ApplyPositionCommitment, CommitAllowed
<1>2. h \in PositionHashes /\ mv.seed_hash \in SeedHashes \cup {None, Malformed}
      /\ mv.seed \in Seeds \cup {None, Malformed}
  BY <1>1 DEF Commitments
<1>3. pb \in BoardRecords
  BY DEF GoodBoard
<1>4. CASE GetPhase(pb) = "FIRST_COMMITMENT"
  <2>1. Fresh(pb)
    BY <1>4, ShapeOf
  <2>2. pb.position_hashes = <<>>
    BY <2>1 DEF Fresh
  <2>3. add = <<h>>
    BY <2>2
  <2>4. add \in [1 .. 1 -> PositionHashes] /\ add \in Seq(PositionHashes \cup {None})
    BY <1>2, <2>3
  <2> HIDE DEF add, h
  <2>5. r \in BoardRecords
    BY <1>1, <1>2, <1>3, <1>4, <2>4 DEF BoardRecords
  <2>6. Committed(r)
    BY <1>1, <1>2, <1>3, <1>4, <2>1, <2>4 DEF Committed, Fresh, Opening, BoardRecords
  <2>7. r.position_hashes = add /\ r.seed_hash_0 = mv.seed_hash
    BY <1>1, <1>3, <1>4 DEF BoardRecords
  <2>8. TurnCount(r) = 2 /\ TurnCount(pb) = 1
    BY <2>1, <2>6, CountOf
  <2>9. QED
    BY <2>1, <2>3, <2>5, <2>6, <2>7, <2>8 DEF GoodBoard, CommitStep, h
<1>5. CASE GetPhase(pb) = "SECOND_COMMITMENT"
  <2>1. Committed(pb)
    BY <1>5, ShapeOf
  <2>2. pb.position_hashes \in [1 .. 1 -> PositionHashes]
    BY <2>1 DEF Committed
  <2>3. pb.position_hashes \in Seq(PositionHashes) /\ Len(pb.position_hashes) = 1
    BY <2>2, SingleIsSeq
  <2>4. add = <<pb.position_hashes[1], h>> /\ pb.position_hashes[1] \in PositionHashes
    BY <1>2, <2>2, AppendToOne
  <2>5. add \in [1 .. 2 -> PositionHashes] /\ add \in Seq(PositionHashes \cup {None})
    BY <1>2, <2>4
  <2> HIDE DEF add, h
  <2>6. r \in BoardRecords
    BY <1>1, <1>2, <1>3, <1>5, <2>5 DEF BoardRecords
  <2>7. Seeding(r)
    BY <1>1, <1>2, <1>3, <1>5, <2>1, <2>5 DEF Committed, Seeding, Opening, BoardRecords
  <2>8. r.position_hashes = add /\ r.seed_hash_0 = pb.seed_hash_0
    BY <1>1, <1>3, <1>5 DEF BoardRecords
  <2>9. TurnCount(r) = 3 /\ TurnCount(pb) = 2
    BY <2>1, <2>7, CountOf
  <2>10. QED
    BY <2>1, <2>4, <2>6, <2>7, <2>8, <2>9 DEF GoodBoard, CommitStep, h
<1>6. QED
  BY <1>1, <1>4, <1>5

SeedAllowed(pb, mv) ==
    /\ GetPhase(pb) = "FIRST_REVEAL_SEED" /\ mv.seed # Malformed
    /\ Hash(mv.seed) = pb.seed_hash_0

SeedStep(pb, r) ==
    /\ Seeding(pb) /\ Playing(r) /\ r.current_shot = None
    /\ r.position_hashes = pb.position_hashes
    /\ \A q \in 1 .. 2 : r.known_ships[q].guessed = {} /\ r.known_ships[q].hits = {}

LEMMA SeedGood ==
    ASSUME NEW pb, GoodBoard(pb), NEW mv \in SeedReveals,
           NEW r, r = ApplySeedReveal(pb, mv), r # None \/ SeedAllowed(pb, mv)
    PROVE  GoodBoard(r) /\ SeedStep(pb, r) /\ TurnCount(r) > TurnCount(pb)
<1> DEFINE ks == [i \in 1 .. 2 |-> [guessed |-> {}, hits |-> {}]]
           u == StartingPlayer(mv.seed, pb.seed_1)
<1>1. /\ GetPhase(pb) = "FIRST_REVEAL_SEED" /\ mv.seed # Malformed
      /\ Hash(mv.seed) = pb.seed_hash_0
      /\ r = [pb EXCEPT !.turn = u, !.seed_hash_0 = None, !.seed_1 = None,
                        !.known_ships = ks]
  BY DEF ApplySeedReveal, SeedAllowed
<1>2. pb \in BoardRecords /\ Seeding(pb)
  BY <1>1, ShapeOf DEF GoodBoard
<1>3. mv.seed \in Seeds
  BY <1>1, <1>2 DEF Seeding, SeedHashes, Hash
<1>4. u \in {1, 2}
  BY <1>2, <1>3, BoardParts, BoardAssumption
<1>5. ks \in [1 .. 2 -> Knowledge]
  BY DEF Knowledge, Grids
<1>6. \A q \in 1 .. 2 : ks[q].guessed = {} /\ ks[q].hits = {}
  OBVIOUS
<1> HIDE DEF ks, u
<1>7. r \in BoardRecords
  BY <1>1, <1>2, <1>4, <1>5 DEF BoardRecords
<1>8. /\ r.known_ships = ks /\ r.turn = u /\ r.position_hashes = pb.position_hashes
      /\ r.winner = pb.winner /\ r.current_shot = pb.current_shot
      /\ r.positions = pb.positions /\ r.seed_hash_0 = None
  BY <1>1, <1>2 DEF BoardRecords
<1>9. Playing(r)
  BY <1>2, <1>4, <1>5, <1>6, <1>8 DEF Playing, Known, ShotAt, Seeding, Opening
<1>10. SeedStep(pb, r)
  BY <1>2, <1>6, <1>8, <1>9 DEF SeedStep, Seeding, Opening
<1>11. Shots(r) = 0
  <2>1. Cardinality(r.known_ships[1].guessed) = 0
        /\ Cardinality(r.known_ships[2].guessed) = 0
    BY <1>6, <1>8, TwoPlayers, FS_EmptySet
  <2>2. QED
    BY <1>9, <2>1, ShotsAre DEF Playing
<1>12. RevealsCounted(r) = 0
  BY <1>9, RevealsAre DEF Playing
<1>13. TurnCount(pb) = 3 /\ TurnCount(r) = 4 + 2 * Shots(r)
          - (IF r.current_shot # None THEN 1 ELSE 0) + RevealsCounted(r)
  BY <1>2, <1>9, CountOf
<1>14. TurnCount(r) > TurnCount(pb)
  BY <1>10, <1>11, <1>12, <1>13 DEF SeedStep
<1>15. QED
  BY <1>7, <1>9, <1>10, <1>14 DEF GoodBoard

ShotStep(pb, r) ==
    /\ Playing(pb) /\ pb.current_shot = None /\ Playing(r)
    /\ r.current_shot # None /\ r.turn = Other(pb.turn)
    /\ r.position_hashes = pb.position_hashes
    /\ r.known_ships[pb.turn] = pb.known_ships[pb.turn]
    /\ Coord(r.current_shot) \notin pb.known_ships[r.turn].guessed
    /\ r.known_ships[r.turn].hits = pb.known_ships[r.turn].hits
    /\ r.known_ships[r.turn].guessed
          = pb.known_ships[r.turn].guessed \cup {Coord(r.current_shot)}

LEMMA ShotGood ==
    ASSUME NEW pb, GoodBoard(pb), NEW mv \in ShotMoves,
           NEW r, r = ApplyShot(pb, mv), r # None
    PROVE  GoodBoard(r) /\ ShotStep(pb, r) /\ TurnCount(r) > TurnCount(pb)
<1> DEFINE q == Other(pb.turn)
           c == Coord(mv.location)
           k == [pb.known_ships[q] EXCEPT !.guessed = @ \cup {c}]
           ks == [pb.known_ships EXCEPT ![q] = k]
<1>1. /\ GetPhase(pb) = "SHOOT" /\ IsOnBoard(c)
      /\ c \notin pb.known_ships[q].guessed
      /\ r = [pb EXCEPT !.turn = q, !.current_shot = mv.location,
                        !.known_ships = ks]
  BY DEF ApplyShot
<1>2. pb \in BoardRecords /\ Playing(pb) /\ pb.current_shot = None
  BY <1>1, ShapeOf DEF GoodBoard
<1>3. mv.location \in Int /\ mv.location # None
  BY Absent DEF ShotMoves
<1>4. pb.turn \in {1, 2} /\ q \in {1, 2} /\ q # pb.turn /\ 1 .. 2 = {1, 2}
      /\ Known(pb) /\ pb.known_ships \in [1 .. 2 -> Knowledge]
  BY <1>2, TwoPlayers DEF Playing, Known
<1>5. c \in Cells
  <2>1. c = <<c[1], c[2]>>
    BY DEF Coord
  <2>2. QED
    BY <1>1, <2>1, CellsAre DEF IsOnBoard
<1>6. /\ pb.known_ships[q] \in Knowledge /\ pb.known_ships[q].guessed \in Grids
      /\ pb.known_ships[q].hits \subseteq pb.known_ships[q].guessed
      /\ IsFiniteSet(pb.known_ships[q].guessed)
      /\ Cardinality(pb.known_ships[q].guessed) \in Nat
  BY <1>4, KnownParts
<1> HIDE DEF q, c
<1>7. /\ k \in Knowledge /\ k.guessed = pb.known_ships[q].guessed \cup {c}
      /\ k.hits = pb.known_ships[q].hits
  BY <1>5, <1>6 DEF Knowledge, Grids
<1> HIDE DEF k
<1>8. /\ ks \in [1 .. 2 -> Knowledge] /\ ks[q] = k
      /\ ks[pb.turn] = pb.known_ships[pb.turn]
  BY <1>4, <1>7
<1> HIDE DEF ks
<1>9. r \in BoardRecords
  BY <1>1, <1>2, <1>3, <1>4, <1>8 DEF BoardRecords
<1>10. /\ r.known_ships = ks /\ r.turn = q /\ r.position_hashes = pb.position_hashes
       /\ r.winner = pb.winner /\ r.current_shot = mv.location
       /\ r.positions = pb.positions /\ r.seed_hash_0 = pb.seed_hash_0
  BY <1>1, <1>2 DEF BoardRecords
<1>11. Known(r)
  <2>1. r.known_ships \in [1 .. 2 -> Knowledge]
    BY <1>8, <1>10
  <2>2. r.known_ships[q].hits \subseteq r.known_ships[q].guessed
    BY <1>6, <1>7, <1>8, <1>10
  <2>3. r.known_ships[pb.turn].hits \subseteq r.known_ships[pb.turn].guessed
    BY <1>4, <1>8, <1>10, KnownParts
  <2>4. \A i \in 1 .. 2 : i = q \/ i = pb.turn
    BY <1>4
  <2>5. QED
    BY <2>1, <2>2, <2>3, <2>4 DEF Known
<1>12. ShotAt(r, r.turn)
  BY <1>1, <1>6, <1>7, <1>8, <1>10 DEF ShotAt, c
<1>13. Playing(r)
  BY <1>2, <1>4, <1>10, <1>11, <1>12 DEF Playing
<1>14. ShotStep(pb, r)
  BY <1>1, <1>2, <1>3, <1>7, <1>8, <1>10, <1>13 DEF ShotStep, q, c
<1>15. Shots(r) = Shots(pb) + 1
  <2> DEFINE N(b, i) == Cardinality(b.known_ships[i].guessed)
  <2>1. N(r, q) = N(pb, q) + 1
    BY <1>1, <1>6, <1>7, <1>8, <1>10, FS_AddElement
  <2>2. N(r, pb.turn) = N(pb, pb.turn)
    BY <1>8, <1>10
  <2>3. N(pb, q) \in Nat /\ N(pb, pb.turn) \in Nat
    BY <1>4, KnownParts
  <2>4. Shots(r) = N(r, 1) + N(r, 2) /\ Shots(pb) = N(pb, 1) + N(pb, 2)
    BY <1>4, <1>11, ShotsAre
  <2> HIDE DEF N
  <2>5. (q = 1 /\ pb.turn = 2) \/ (q = 2 /\ pb.turn = 1)
    BY <1>4
  <2>6. QED
    BY <2>1, <2>2, <2>3, <2>4, <2>5
<1>16. RevealsCounted(r) = 0 /\ RevealsCounted(pb) = 0
  BY <1>2, <1>13, RevealsAre DEF Playing
<1>17. TurnCount(r) > TurnCount(pb)
  <2>1. TurnCount(pb) = 4 + 2 * Shots(pb) - 0 + RevealsCounted(pb)
        /\ Shots(pb) \in Nat
    BY <1>2, CountOf
  <2>2. TurnCount(r) = 4 + 2 * Shots(r) - 1 + RevealsCounted(r)
    BY <1>3, <1>10, <1>13, CountOf
  <2>3. QED
    BY <1>15, <1>16, <2>1, <2>2
<1>18. QED
  BY <1>9, <1>13, <1>14, <1>17 DEF GoodBoard

ReplyAllowed(pb, mv) ==
    /\ GetPhase(pb) = "ANSWER" /\ mv.reply \in {"HIT", "MISS"}
    /\ IsOnBoard(Coord(pb.current_shot))
    /\ Coord(pb.current_shot) \notin pb.known_ships[pb.turn].hits

ReplyStep(pb, mv, r) ==
    /\ Playing(pb) /\ pb.current_shot # None /\ Playing(r) /\ r.current_shot = None
    /\ r.position_hashes = pb.position_hashes
    /\ r.known_ships[Other(pb.turn)] = pb.known_ships[Other(pb.turn)]
    /\ r.known_ships[pb.turn].guessed = pb.known_ships[pb.turn].guessed
    /\ \/ mv.reply = "MISS" /\ r.known_ships[pb.turn].hits
                                  = pb.known_ships[pb.turn].hits
       \/ mv.reply = "HIT" /\ r.known_ships[pb.turn].hits
                                 = pb.known_ships[pb.turn].hits
                                       \cup {Coord(pb.current_shot)}

LEMMA ReplyGood ==
    ASSUME NEW pb, GoodBoard(pb), NEW mv \in Replies,
           NEW r, r = ApplyReply(pb, mv), r # None \/ ReplyAllowed(pb, mv)
    PROVE  GoodBoard(r) /\ ReplyStep(pb, mv, r) /\ TurnCount(r) > TurnCount(pb)
<1> DEFINE p == pb.turn
           c == Coord(pb.current_shot)
           k == [pb.known_ships[p] EXCEPT !.hits = @ \cup {c}]
           ks == [pb.known_ships EXCEPT ![p] = k]
<1>1. /\ GetPhase(pb) = "ANSWER" /\ mv.reply \in {"HIT", "MISS"}
      /\ mv.reply = "MISS" => r = [pb EXCEPT !.current_shot = None]
      /\ mv.reply = "HIT" => r = [pb EXCEPT !.current_shot = None,
                                            !.turn = Other(p), !.known_ships = ks]
  BY DEF ApplyReply, ReplyAllowed
<1>2. pb \in BoardRecords /\ Playing(pb) /\ pb.current_shot # None
  BY <1>1, ShapeOf DEF GoodBoard
<1>3. p \in {1, 2} /\ Other(p) \in {1, 2} /\ Other(p) # p /\ 1 .. 2 = {1, 2}
      /\ Known(pb) /\ pb.known_ships \in [1 .. 2 -> Knowledge]
  BY <1>2, TwoPlayers DEF Playing, Known
<1>4. /\ pb.known_ships[p] \in Knowledge /\ pb.known_ships[p].hits \in Grids
      /\ pb.known_ships[p].guessed \in Grids
      /\ pb.known_ships[p].hits \subseteq pb.known_ships[p].guessed
  BY <1>3, KnownParts
<1>5. c \in pb.known_ships[p].guessed
  BY <1>2 DEF Playing, ShotAt
<1> HIDE DEF c
<1>6. /\ k \in Knowledge /\ k.hits = pb.known_ships[p].hits \cup {c}
      /\ k.guessed = pb.known_ships[p].guessed
  BY <1>4, <1>5 DEF Knowledge, Grids
<1> HIDE DEF k
<1>7. /\ ks \in [1 .. 2 -> Knowledge] /\ ks[p] = k
      /\ ks[Other(p)] = pb.known_ships[Other(p)]
  BY <1>3, <1>6
<1> HIDE DEF ks, p
<1>8. /\ r \in BoardRecords /\ r.current_shot = None
      /\ r.position_hashes = pb.position_hashes /\ r.winner = pb.winner
      /\ r.positions = pb.positions /\ r.seed_hash_0 = pb.seed_hash_0
      /\ r.turn \in {1, 2}
      /\ r.known_ships \in [1 .. 2 -> Knowledge]
      /\ r.known_ships[Other(p)] = pb.known_ships[Other(p)]
      /\ r.known_ships[p].guessed = pb.known_ships[p].guessed
      /\ r.known_ships[p].hits \subseteq r.known_ships[p].guessed
      /\ \/ mv.reply = "MISS" /\ r.known_ships[p].hits = pb.known_ships[p].hits
         \/ /\ mv.reply = "HIT"
            /\ r.known_ships[p].hits = pb.known_ships[p].hits \cup {c}
  <2>1. CASE mv.reply = "MISS"
    BY <1>1, <1>2, <1>3, <1>4, <2>1 DEF BoardRecords, p
  <2>2. CASE mv.reply = "HIT"
    <3>1. r \in BoardRecords
      BY <1>1, <1>2, <1>3, <1>7, <2>2 DEF BoardRecords
    <3>2. /\ r.current_shot = None /\ r.turn = Other(p) /\ r.known_ships = ks
          /\ r.position_hashes = pb.position_hashes /\ r.winner = pb.winner
          /\ r.positions = pb.positions /\ r.seed_hash_0 = pb.seed_hash_0
      BY <1>1, <1>2, <2>2 DEF BoardRecords
    <3>3. QED
      BY <1>3, <1>4, <1>5, <1>6, <1>7, <2>2, <3>1, <3>2
  <2>3. QED
    BY <1>1, <2>1, <2>2
<1>9. Known(r)
  <2>1. r.known_ships[Other(p)].hits \subseteq r.known_ships[Other(p)].guessed
    BY <1>3, <1>8, KnownParts
  <2>2. \A i \in 1 .. 2 : i = p \/ i = Other(p)
    BY <1>3
  <2>3. QED
    BY <1>8, <2>1, <2>2 DEF Known
<1>10. Playing(r)
  BY <1>2, <1>8, <1>9 DEF Playing, ShotAt
<1>11. ReplyStep(pb, mv, r)
  BY <1>2, <1>8, <1>10 DEF ReplyStep, p, c
<1>12. Shots(r) = Shots(pb)
  <2>1. \A i \in 1 .. 2 : r.known_ships[i].guessed = pb.known_ships[i].guessed
    BY <1>3, <1>8
  <2>2. r.known_ships[1].guessed = pb.known_ships[1].guessed
        /\ r.known_ships[2].guessed = pb.known_ships[2].guessed
    BY <1>3, <2>1
  <2>3. QED
    BY <1>3, <1>9, <2>2, ShotsAre
<1>13. RevealsCounted(r) = 0 /\ RevealsCounted(pb) = 0
  BY <1>2, <1>10, RevealsAre DEF Playing
<1>14. TurnCount(r) > TurnCount(pb)
  <2>1. TurnCount(pb) = 4 + 2 * Shots(pb) - 1 + RevealsCounted(pb)
        /\ Shots(pb) \in Nat
    BY <1>2, CountOf
  <2>2. TurnCount(r) = 4 + 2 * Shots(r) - 0 + RevealsCounted(r)
    BY <1>8, <1>10, CountOf
  <2>3. QED
    BY <1>12, <1>13, <2>1, <2>2
<1>15. QED
  BY <1>8, <1>10, <1>11, <1>14 DEF GoodBoard

RevealAllowed(pb, mv) ==
    /\ GetPhase(pb) \in {"SHOOT", "ANSWER", "SECOND_REVEAL_POSITION"}
    /\ mv.position # None /\ mv.salt # Malformed
    /\ Hash(<<mv.position, mv.salt>>) = pb.position_hashes[pb.turn]
    /\ pb.known_ships[pb.turn].hits \subseteq pb.known_ships[pb.turn].guessed

RevealStep(pb, mv, r) ==
    /\ Playing(pb) \/ Revealing(pb)
    /\ Hash(<<mv.position, mv.salt>>) = pb.position_hashes[pb.turn]
    /\ r.known_ships = pb.known_ships /\ r.current_shot = pb.current_shot
    /\ r.winner = RevealWinner(pb, mv.position)
    /\ r.winner = None => /\ Playing(pb) /\ Revealing(r) /\ r.turn = Other(pb.turn)
                          /\ r.position_hashes[r.turn] = pb.position_hashes[r.turn]
    /\ r.winner # None => Over(r)

(* The winner is decided as RevealWinner's comment says. *)
LEMMA WinnerOf ==
    ASSUME NEW pb, Playing(pb) \/ Revealing(pb), NEW g \in Grids,
           NEW w, w = RevealWinner(pb, g)
    PROVE  LET p == pb.turn
               right == /\ VerifyPositionOfShips(g)
                        /\ VerifyPositionForAnswers(g, pb.known_ships[p].guessed,
                                                    pb.known_ships[p].hits)
           IN  /\ w \in {None, 1, 2}
               /\ ~right => w = Other(p)
               /\ w = p => right
               /\ w = None => Playing(pb) /\ right
               /\ right /\ w = Other(p) => FALSE
               /\ right /\ Revealing(pb) => w = p
               /\ right /\ Playing(pb) =>
                     (w = p <=> Cardinality(pb.known_ships[Other(p)].hits)
                                    >= TotalShipCells)
<1> DEFINE p == pb.turn
           right == /\ VerifyPositionOfShips(g)
                    /\ VerifyPositionForAnswers(g, pb.known_ships[p].guessed,
                                                pb.known_ships[p].hits)
           all == Cardinality(pb.known_ships[Other(p)].hits) >= TotalShipCells
<1>1. w = IF ~right THEN Other(p)
          ELSE IF GetPhase(pb) = "SECOND_REVEAL_POSITION" THEN p
          ELSE IF all THEN p ELSE None
  BY Zenon DEF RevealWinner
<1>2. p \in {1, 2} /\ Other(p) \in {1, 2} /\ Other(p) # p /\ p # None /\ Other(p) # None
  BY TwoPlayers, Absent DEF Playing, Revealing
<1>3. /\ Revealing(pb) => GetPhase(pb) = "SECOND_REVEAL_POSITION"
      /\ Playing(pb) => GetPhase(pb) # "SECOND_REVEAL_POSITION"
  BY PhaseOf
<1> HIDE DEF p, right, all
<1>4. /\ w \in {None, 1, 2}
      /\ ~right => w = Other(p)
      /\ w = p => right
      /\ w = None => Playing(pb) /\ right
      /\ right /\ w = Other(p) => FALSE
      /\ right /\ Revealing(pb) => w = p
      /\ right /\ Playing(pb) => (w = p <=> all)
  BY <1>1, <1>2, <1>3
<1>5. QED
  BY <1>4, Zenon DEF p, right, all

LEMMA RevealGood ==
    ASSUME NEW pb, GoodBoard(pb), NEW mv \in Reveals,
           NEW r, r = ApplyPositionReveal(pb, mv),
           r # None \/ RevealAllowed(pb, mv)
    PROVE  /\ GoodBoard(r) /\ RevealStep(pb, mv, r)
           /\ mv.position \cap LowCells # {} => TurnCount(r) > TurnCount(pb)
<1> DEFINE p == pb.turn
           g == mv.position
           w == RevealWinner(pb, g)
           old == IF pb.positions = <<>> THEN <<{}, {}>> ELSE pb.positions
           ps == [old EXCEPT ![p] = g]
           hs == IF w # None THEN <<None, None>>
                 ELSE [pb.position_hashes EXCEPT ![p] = None]
           u == IF w # None THEN None ELSE Other(p)
<1>1. /\ GetPhase(pb) \in {"SHOOT", "ANSWER", "SECOND_REVEAL_POSITION"}
      /\ Hash(<<g, mv.salt>>) = pb.position_hashes[p]
      /\ r = [pb EXCEPT !.positions = ps, !.position_hashes = hs,
                        !.winner = w, !.turn = u]
  BY DEF ApplyPositionReveal, RevealAllowed
<1>2. pb \in BoardRecords /\ (Playing(pb) \/ Revealing(pb))
  BY <1>1, ShapeOf DEF GoodBoard
<1>3. /\ p \in {1, 2} /\ Other(p) \in {1, 2} /\ Other(p) # p /\ 1 .. 2 = {1, 2}
      /\ Other(Other(p)) = p /\ p # None /\ Other(p) # None
      /\ Known(pb) /\ pb.seed_hash_0 = None
  BY <1>2, TwoPlayers, Absent DEF Playing, Revealing
<1>4. g \in Grids /\ {} \in Grids
  BY DEF Reveals, Grids
<1>5. /\ w \in {None, 1, 2}
      /\ w = p => /\ VerifyPositionOfShips(g)
                  /\ VerifyPositionForAnswers(g, pb.known_ships[p].guessed,
                                              pb.known_ships[p].hits)
      /\ w = None => /\ Playing(pb) /\ VerifyPositionOfShips(g)
                     /\ VerifyPositionForAnswers(g, pb.known_ships[p].guessed,
                                                 pb.known_ships[p].hits)
  BY <1>2, <1>4, WinnerOf
<1>6. /\ old \in [1 .. 2 -> Grids] /\ old[p] = {}
      /\ Playing(pb) => old[Other(p)] = {}
      /\ Revealing(pb) => old = pb.positions
  <2>1. CASE Playing(pb)
    <3>1. old = <<{}, {}>>
      BY <2>1 DEF Playing
    <3>2. <<{}, {}>> \in [1 .. 2 -> Grids] /\ \A i \in {1, 2} : <<{}, {}>>[i] = {}
      BY <1>4
    <3>3. ~Revealing(pb)
      BY <2>1, PairIsSeq DEF Playing, Revealing
    <3> HIDE DEF old
    <3>4. QED
      BY <1>3, <3>1, <3>2, <3>3
  <2>2. CASE Revealing(pb)
    <3>1. pb.positions \in [1 .. 2 -> Grids] /\ pb.positions # <<>>
          /\ pb.positions[p] = {} /\ ~Playing(pb)
      BY <2>2, PairIsSeq DEF Revealing, Playing
    <3>2. QED
      BY <3>1
  <2>3. QED
    BY <1>2, <2>1, <2>2
<1> HIDE DEF old, w, g
<1>7. ps \in [1 .. 2 -> Grids] /\ ps[p] = g /\ ps[Other(p)] = old[Other(p)]
  BY <1>3, <1>4, <1>6
<1>8. hs \in Seq(PositionHashes \cup {None})
  <2>1. CASE w # None
    <3>1. hs = <<None, None>>
      BY <2>1
    <3>2. <<None, None>> \in [1 .. 2 -> PositionHashes \cup {None}]
      OBVIOUS
    <3>3. QED
      BY <3>1, <3>2, PairIsSeq
  <2>2. CASE w = None
    <3>1. hs \in [1 .. 2 -> PositionHashes \cup {None}]
      BY <1>5, <2>2 DEF Playing
    <3>2. QED
      BY <3>1, PairIsSeq
  <2>3. QED
    BY <2>1, <2>2
<1>9. u \in {None, 1, 2}
  BY <1>3
<1> HIDE DEF ps, hs, u
<1>10. r \in BoardRecords
  BY <1>1, <1>2, <1>5, <1>7, <1>8, <1>9 DEF BoardRecords
<1>11. /\ r.positions = ps /\ r.position_hashes = hs /\ r.winner = w /\ r.turn = u
       /\ r.known_ships = pb.known_ships /\ r.current_shot = pb.current_shot
       /\ r.seed_hash_0 = pb.seed_hash_0
  BY <1>1, <1>2 DEF BoardRecords
<1>12. Known(r)
  BY <1>3, <1>11 DEF Known
<1>13. ASSUME w = None
       PROVE  /\ Playing(pb) /\ Revealing(r) /\ r.turn = Other(p)
              /\ r.position_hashes[r.turn] = pb.position_hashes[r.turn]
  <2>1. Playing(pb)
    BY <1>5, <1>13
  <2>2. u = Other(p) /\ hs = [pb.position_hashes EXCEPT ![p] = None]
    BY <1>13 DEF u, hs
  <2>3. pb.position_hashes \in [1 .. 2 -> PositionHashes]
    BY <2>1 DEF Playing
  <2>4. /\ hs \in [1 .. 2 -> PositionHashes \cup {None}] /\ hs[p] = None
        /\ hs[Other(p)] = pb.position_hashes[Other(p)]
        /\ pb.position_hashes[Other(p)] \in PositionHashes
    BY <1>3, <2>2, <2>3
  <2>5. ShotAt(r, p)
    BY <1>11, <2>1 DEF ShotAt, Playing, p
  <2>6. Verified(r, p)
    BY <1>5, <1>7, <1>11, <1>13 DEF Verified
  <2>7. r.positions[Other(p)] = {}
    BY <1>6, <1>7, <1>11, <2>1
  <2>8. r.turn = Other(p) /\ Other(r.turn) = p
    BY <1>3, <1>11, <2>2
  <2> HIDE DEF p
  <2>9. Revealing(r)
    BY <1>3, <1>7, <1>11, <1>12, <1>13, <2>4, <2>5, <2>6, <2>7, <2>8 DEF Revealing
  <2>10. QED
    BY <1>11, <2>1, <2>4, <2>8, <2>9
<1>14. ASSUME w # None
       PROVE  Over(r)
  <2>1. u = None /\ hs = <<None, None>>
    BY <1>14 DEF u, hs
  <2>2. w \in {1, 2} /\ (w = p \/ w = Other(p))
    BY <1>3, <1>5, <1>14
  <2>3. ASSUME r.positions[w] # {} PROVE Verified(r, w)
    <3>1. CASE w = p
      BY <1>5, <1>7, <1>11, <3>1 DEF Verified
    <3>2. CASE w = Other(p)
      <4>1. Revealing(pb)
        BY <1>2, <1>6, <1>7, <1>11, <2>3, <3>2
      <4>2. ps[Other(p)] = pb.positions[Other(p)]
        BY <1>6, <1>7, <4>1
      <4>3. Verified(pb, Other(p))
        BY <4>1 DEF Revealing
      <4> HIDE DEF p
      <4>4. QED
        BY <1>11, <3>2, <4>2, <4>3 DEF Verified
    <3>3. QED
      BY <2>2, <3>1, <3>2
  <2>4. QED
    BY <1>3, <1>7, <1>11, <1>12, <2>1, <2>2, <2>3 DEF Over
<1>15. GoodBoard(r)
  BY <1>10, <1>13, <1>14 DEF GoodBoard
<1>16. RevealStep(pb, mv, r)
  BY <1>1, <1>2, <1>11, <1>13, <1>14 DEF RevealStep, w, g
<1>17. ASSUME g \cap LowCells # {} PROVE TurnCount(r) > TurnCount(pb)
  <2> DEFINE A == {i \in 1 .. 2 : old[i] \cap LowCells # {}}
             B == {i \in 1 .. 2 : ps[i] \cap LowCells # {}}
  <2>1. B = A \cup {p} /\ p \notin A
    <3>1. ps[Other(p)] = old[Other(p)] /\ ps[p] = g /\ old[p] = {}
      BY <1>6, <1>7
    <3>2. QED
      BY <1>3, <1>17, <3>1
  <2>2. IsFiniteSet(A)
    <3>1. 1 \in Int /\ 2 \in Int /\ A \subseteq 1 .. 2
      OBVIOUS
    <3>2. QED
      BY <3>1, FS_Interval, FS_Subset
  <2> HIDE DEF A, B
  <2>3. Cardinality(B) = Cardinality(A) + 1 /\ Cardinality(A) \in Nat
    BY <2>1, <2>2, FS_AddElement, FS_CardinalityType
  <2>4. RevealsCounted(r) = Cardinality(B)
    BY <1>7, <1>11, RevealsAre DEF B
  <2>5. RevealsCounted(pb) = Cardinality(A)
    <3>1. CASE Playing(pb)
      <4>1. A = {}
        BY <1>3, <1>6, <3>1 DEF A
      <4>2. QED
        BY <3>1, <4>1, RevealsAre, FS_EmptySet DEF Playing
    <3>2. CASE Revealing(pb)
      BY <1>6, <3>2, RevealsAre DEF A
    <3>3. QED
      BY <1>2, <3>1, <3>2
  <2>6. Shots(r) = Shots(pb)
    BY <1>11 DEF Shots
  <2> DEFINE x == IF pb.current_shot # None THEN 1 ELSE 0
  <2>7. TurnCount(pb) = 4 + 2 * Shots(pb) - x + RevealsCounted(pb)
        /\ Shots(pb) \in Nat
    BY <1>2, CountOf
  <2>8. TurnCount(r) = 4 + 2 * Shots(r) - x + RevealsCounted(r)
    <3>1. Revealing(r) \/ Over(r)
      BY <1>13, <1>14
    <3>2. QED
      BY <1>11, <3>1, CountOf
  <2>9. x \in Nat
    OBVIOUS
  <2> HIDE DEF x
  <2>10. QED
    BY <2>3, <2>4, <2>5, <2>6, <2>7, <2>8, <2>9
<1>18. QED
  BY <1>15, <1>16, <1>17 DEF g

Moves == Commitments \cup SeedReveals \cup ShotMoves \cup Replies \cup Reveals

MoveStep(pb, mv, r) ==
    \/ mv \in Commitments /\ CommitStep(pb, mv, r)
    \/ mv \in SeedReveals /\ SeedStep(pb, r)
    \/ mv \in ShotMoves /\ ShotStep(pb, r)
    \/ mv \in Replies /\ ReplyStep(pb, mv, r)
    \/ mv \in Reveals /\ RevealStep(pb, mv, r)

LEMMA MoveGood ==
    ASSUME NEW pb, GoodBoard(pb), NEW mv \in Moves,
           NEW r, r = ApplyMoveProto(pb, mv), r # None
    PROVE  /\ GoodBoard(r) /\ MoveStep(pb, mv, r)
           /\ \/ TurnCount(r) > TurnCount(pb)
              \/ mv \in Reveals /\ mv.position \cap LowCells = {}
<1>1. CASE mv \in Commitments
  <2>1. mv.move = "position_commitment"
    BY <1>1 DEF Commitments
  <2>2. r = ApplyPositionCommitment(pb, mv)
    BY <2>1 DEF ApplyMoveProto
  <2>3. QED
    BY <1>1, <2>2, CommitGood DEF MoveStep
<1>2. CASE mv \in SeedReveals
  <2>1. mv.move = "seed_reveal"
    BY <1>2 DEF SeedReveals
  <2>2. r = ApplySeedReveal(pb, mv)
    BY <2>1 DEF ApplyMoveProto
  <2>3. QED
    BY <1>2, <2>2, SeedGood DEF MoveStep
<1>3. CASE mv \in ShotMoves
  <2>1. mv.move = "shot"
    BY <1>3 DEF ShotMoves
  <2>2. r = ApplyShot(pb, mv)
    BY <2>1 DEF ApplyMoveProto
  <2>3. QED
    BY <1>3, <2>2, ShotGood DEF MoveStep
<1>4. CASE mv \in Replies
  <2>1. mv.move = "reply"
    BY <1>4 DEF Replies
  <2>2. r = ApplyReply(pb, mv)
    BY <2>1 DEF ApplyMoveProto
  <2>3. QED
    BY <1>4, <2>2, ReplyGood DEF MoveStep
<1>5. CASE mv \in Reveals
  <2>1. mv.move = "position_reveal"
    BY <1>5 DEF Reveals
  <2>2. r = ApplyPositionReveal(pb, mv)
    BY <2>1 DEF ApplyMoveProto
  <2>3. QED
    BY <1>5, <2>2, RevealGood DEF MoveStep
<1>6. QED
  BY <1>1, <1>2, <1>3, <1>4, <1>5 DEF Moves

(* The moves of players without the daemon are among them. *)
LEMMA OtherMovesAre == OtherMoves \subseteq Moves
<1>1. \A g \in OtherPositions : g \in Grids
  BY ChannelAssumption
<1>2. \A g \in OtherPositions : Hash(<<g, 0>>) \in PositionHashes
  BY <1>1 DEF Hash, PositionHashes
<1>3. \A s \in Seeds : Hash(s) \in SeedHashes
  BY DEF Hash, SeedHashes
<1> DEFINE H == {Hash(<<g, 0>>) : g \in OtherPositions} \cup {Malformed}
           S == {Hash(s) : s \in Seeds} \cup {None, Malformed}
<1>4. H \subseteq PositionHashes \cup {Malformed}
  BY <1>2
<1>5. S \subseteq SeedHashes \cup {None, Malformed}
  BY <1>3
<1> HIDE DEF H, S
<1>6. \A h \in H, sh \in S : PositionCommitment(h, sh, None) \in Commitments
  BY <1>4, <1>5 DEF PositionCommitment, Commitments
<1>7. \A h \in H, s \in Seeds \cup {Malformed} :
         PositionCommitment(h, None, s) \in Commitments
  BY <1>4 DEF PositionCommitment, Commitments
<1>8. \A s \in Seeds \cup {Malformed} : SeedReveal(s) \in SeedReveals
  BY DEF SeedReveal, SeedReveals
<1>9. \A i \in -1 .. CELLS : Shot(i) \in ShotMoves
  BY DEF Shot, ShotMoves
<1>10. \A x \in {"HIT", "MISS", "INVALID"} : Reply(x) \in Replies
  BY DEF Reply, Replies
<1>11. \A g \in OtherPositions : PositionReveal(g, 0) \in Reveals
  BY <1>1 DEF PositionReveal, Reveals
<1> DEFINE A == {PositionCommitment(h, sh, None) : h \in H, sh \in S}
           B == {PositionCommitment(h, None, s) : h \in H, s \in Seeds \cup {Malformed}}
           C == {SeedReveal(s) : s \in Seeds \cup {Malformed}}
           D == {Shot(i) : i \in -1 .. CELLS}
           E == {Reply(x) : x \in {"HIT", "MISS", "INVALID"}}
           F == {PositionReveal(g, 0) : g \in OtherPositions}
<1>12. OtherMoves = A \cup B \cup C \cup D \cup E \cup F
  BY DEF OtherMoves, H, S
<1>13. A \subseteq Commitments /\ B \subseteq Commitments
  BY <1>6, <1>7
<1>14. C \subseteq SeedReveals /\ D \subseteq ShotMoves
  BY <1>8, <1>9
<1>15. E \subseteq Replies /\ F \subseteq Reveals
  BY <1>10, <1>11
<1> HIDE DEF A, B, C, D, E, F
<1>16. QED
  BY <1>12, <1>13, <1>14, <1>15 DEF Moves

-----------------------------------------------------------------------------
(***************************************************************************)
(* What a move does to what the board says of a daemon's secrets.          *)
(***************************************************************************)

(* The move of p commits to its position and seed, or answers truthfully. *)
OwnMove(pb, mv, p, pos, salt, seed) ==
    /\ mv \in Commitments =>
          /\ pos # {} /\ mv.position_hash = Hash(<<pos, salt>>)
          /\ p = 1 => mv.seed_hash = Hash(seed)
    /\ mv \in Replies =>
          mv.reply = IF Coord(pb.current_shot) \in pos THEN "HIT" ELSE "MISS"

LEMMA FreshHonest ==
    ASSUME NEW pb, Fresh(pb), NEW p, NEW pos, NEW salt, NEW seed
    PROVE  Honest(pb, p, pos, salt, seed)
<1>1. DOMAIN pb.position_hashes = {}
  BY DEF Fresh
<1>2. pb.known_ships = <<>> /\ pb.seed_hash_0 = None
  BY DEF Fresh, Opening
<1>3. QED
  BY <1>1, <1>2 DEF Honest

LEMMA CommitHonest ==
    ASSUME NEW pb, NEW mv \in Commitments, NEW r, CommitStep(pb, mv, r),
           NEW p \in {1, 2}, NEW pos, NEW salt, NEW seed,
           Honest(pb, p, pos, salt, seed),
           p = pb.turn => OwnMove(pb, mv, p, pos, salt, seed)
    PROVE  Honest(r, p, pos, salt, seed)
<1>1. r.known_ships = <<>>
  BY DEF CommitStep, Committed, Seeding, Opening
<1>2. CASE /\ Fresh(pb) /\ Committed(r) /\ r.position_hashes = <<mv.position_hash>>
           /\ r.seed_hash_0 = mv.seed_hash
  <2>1. pb.turn = 1
    BY <1>2 DEF Fresh
  <2>2. DOMAIN r.position_hashes = {1} /\ r.position_hashes[1] = mv.position_hash
    BY <1>2
  <2>3. CASE p = 1
    BY <1>1, <1>2, <2>1, <2>2, <2>3 DEF Honest, OwnMove
  <2>4. CASE p = 2
    BY <1>1, <2>2, <2>4 DEF Honest
  <2>5. QED
    BY <2>3, <2>4
<1>3. CASE /\ Committed(pb) /\ Seeding(r)
           /\ r.position_hashes = <<pb.position_hashes[1], mv.position_hash>>
           /\ r.seed_hash_0 = pb.seed_hash_0
  <2>1. pb.turn = 2 /\ DOMAIN pb.position_hashes = {1}
    BY <1>3, SingleIsSeq DEF Committed
  <2>2. /\ DOMAIN r.position_hashes = {1, 2}
        /\ r.position_hashes[1] = pb.position_hashes[1]
        /\ r.position_hashes[2] = mv.position_hash
    BY <1>3
  <2>3. CASE p = 1
    BY <1>1, <1>3, <2>1, <2>2, <2>3 DEF Honest
  <2>4. CASE p = 2
    BY <1>1, <2>1, <2>2, <2>4 DEF Honest, OwnMove
  <2>5. QED
    BY <2>3, <2>4
<1>4. QED
  BY <1>2, <1>3 DEF CommitStep

LEMMA SeedHonest ==
    ASSUME NEW pb, NEW r, SeedStep(pb, r),
           NEW p \in {1, 2}, NEW pos, NEW salt, NEW seed,
           Honest(pb, p, pos, salt, seed)
    PROVE  Honest(r, p, pos, salt, seed)
<1>1. r.position_hashes = pb.position_hashes /\ r.seed_hash_0 = None
  BY DEF SeedStep, Playing
<1>2. r.known_ships[p].guessed = {} /\ r.known_ships[p].hits = {}
  BY TwoPlayers DEF SeedStep
<1>3. r.known_ships[p].hits
         = pos \cap (r.known_ships[p].guessed \ Unanswered(r, p))
  BY <1>2
<1>4. QED
  BY <1>1, <1>3 DEF Honest

LEMMA ShotHonest ==
    ASSUME NEW pb, NEW r, ShotStep(pb, r),
           NEW p \in {1, 2}, NEW pos, NEW salt, NEW seed,
           Honest(pb, p, pos, salt, seed)
    PROVE  Honest(r, p, pos, salt, seed)
<1>1. /\ r.position_hashes = pb.position_hashes /\ r.seed_hash_0 = None
      /\ Playing(pb) /\ Playing(r) /\ pb.current_shot = None
      /\ r.current_shot # None /\ r.turn = Other(pb.turn) /\ pb.turn \in {1, 2}
      /\ pb.positions = <<>> /\ r.positions = <<>> /\ pb.winner = None
      /\ pb.known_ships # <<>>
  BY PairIsSeq DEF ShotStep, Playing, Known
<1>2. /\ r.turn \in {1, 2} /\ r.turn # pb.turn /\ (p = pb.turn \/ p = r.turn)
  BY <1>1, TwoPlayers
<1>3. pb.known_ships[p].hits = pos \cap pb.known_ships[p].guessed
  BY <1>1 DEF Honest, Unanswered
<1>4. Unanswered(r, p) = IF p = r.turn THEN {Coord(r.current_shot)} ELSE {}
  BY <1>1 DEF Unanswered, Target
<1>5. r.known_ships[p].hits
         = pos \cap (r.known_ships[p].guessed \ Unanswered(r, p))
  <2>1. CASE p = pb.turn
    BY <1>2, <1>3, <1>4, <2>1 DEF ShotStep
  <2>2. CASE p = r.turn
    BY <1>3, <1>4, <2>2 DEF ShotStep
  <2>3. QED
    BY <1>2, <2>1, <2>2
<1>6. QED
  BY <1>1, <1>5 DEF Honest

LEMMA ReplyHonest ==
    ASSUME NEW pb, NEW mv \in Replies, NEW r, ReplyStep(pb, mv, r),
           NEW p \in {1, 2}, NEW pos, NEW salt, NEW seed,
           Honest(pb, p, pos, salt, seed),
           p = pb.turn => OwnMove(pb, mv, p, pos, salt, seed)
    PROVE  Honest(r, p, pos, salt, seed)
<1>1. /\ r.position_hashes = pb.position_hashes /\ r.seed_hash_0 = None
      /\ Playing(pb) /\ Playing(r) /\ pb.current_shot # None
      /\ r.current_shot = None /\ pb.turn \in {1, 2}
      /\ pb.positions = <<>> /\ pb.winner = None
      /\ pb.known_ships # <<>>
  BY PairIsSeq DEF ReplyStep, Playing, Known
<1>2. p = pb.turn \/ p = Other(pb.turn)
  BY <1>1, TwoPlayers
<1>3. pb.known_ships[p].hits
         = pos \cap (pb.known_ships[p].guessed \ Unanswered(pb, p))
  BY <1>1 DEF Honest
<1>4. Unanswered(pb, p) = (IF p = pb.turn THEN {Coord(pb.current_shot)} ELSE {})
      /\ Unanswered(r, p) = {}
  BY <1>1 DEF Unanswered, Target
<1>5. r.known_ships[p].hits = pos \cap r.known_ships[p].guessed
  <2>1. CASE p = pb.turn
    <3>1. Coord(pb.current_shot) \in pb.known_ships[p].guessed
      BY <1>1, <2>1 DEF Playing, ShotAt
    <3>2. mv.reply = IF Coord(pb.current_shot) \in pos THEN "HIT" ELSE "MISS"
      BY <2>1 DEF OwnMove
    <3> DEFINE c == Coord(pb.current_shot)
    <3>3. pb.known_ships[p].hits = pos \cap (pb.known_ships[p].guessed \ {c})
      BY <1>3, <1>4, <2>1
    <3>4. r.known_ships[p].guessed = pb.known_ships[p].guessed
      BY <2>1 DEF ReplyStep
    <3>5. \/ /\ mv.reply = "MISS"
             /\ r.known_ships[p].hits = pb.known_ships[p].hits
          \/ /\ mv.reply = "HIT"
             /\ r.known_ships[p].hits = pb.known_ships[p].hits \cup {c}
      BY <2>1 DEF ReplyStep
    <3> HIDE DEF c
    <3>6. c \in pos <=> mv.reply = "HIT"
      BY <3>2 DEF c
    <3>7. QED
      BY <3>1, <3>3, <3>4, <3>5, <3>6 DEF c
  <2>2. CASE p = Other(pb.turn)
    <3>1. p # pb.turn
      BY <1>1, <2>2, TwoPlayers
    <3>2. QED
      BY <1>3, <1>4, <2>2, <3>1 DEF ReplyStep
  <2>3. QED
    BY <1>2, <2>1, <2>2
<1>6. QED
  BY <1>1, <1>4, <1>5 DEF Honest

LEMMA RevealHonest ==
    ASSUME NEW pb, NEW mv \in Reveals, NEW r, RevealStep(pb, mv, r),
           NEW p \in {1, 2}, NEW pos, NEW salt, NEW seed,
           Honest(pb, p, pos, salt, seed)
    PROVE  Honest(r, p, pos, salt, seed)
<1>1. /\ pb.turn \in {1, 2} /\ DOMAIN pb.position_hashes = {1, 2}
      /\ pb.winner = None /\ Known(pb)
  BY TwoPlayers DEF RevealStep, Playing, Revealing
<1>2. /\ pos # {}
      /\ pb.position_hashes[p] \in {Hash(<<pos, salt>>), Hash(<<pos, NotDrawn>>), None}
  BY <1>1 DEF Honest
<1>3. CASE r.winner # None
  <2>1. Over(r)
    BY <1>3 DEF RevealStep
  <2>2. r.position_hashes[p] = None /\ r.seed_hash_0 = None
    BY <2>1 DEF Over
  <2>3. QED
    BY <1>2, <1>3, <2>2 DEF Honest
<1>4. CASE r.winner = None
  <2>1. /\ Playing(pb) /\ Revealing(r) /\ r.turn = Other(pb.turn)
        /\ r.position_hashes[r.turn] = pb.position_hashes[r.turn]
    BY <1>4 DEF RevealStep
  <2>2. /\ Other(r.turn) = pb.turn /\ (p = pb.turn \/ p = r.turn)
        /\ r.position_hashes[pb.turn] = None /\ r.seed_hash_0 = None
        /\ pb.positions = <<>> /\ r.positions # <<>>
    BY <1>1, <2>1, TwoPlayers, PairIsSeq DEF Revealing, Playing
  <2>3. r.position_hashes[p] \in {Hash(<<pos, salt>>), Hash(<<pos, NotDrawn>>), None}
    BY <1>2, <2>1, <2>2
  <2>4. pb.known_ships # <<>>
    BY <1>1, PairIsSeq DEF Known
  <2>5. pb.known_ships[p].hits
           = pos \cap (pb.known_ships[p].guessed \ Unanswered(pb, p))
    BY <1>1, <2>4 DEF Honest
  <2>6. r.known_ships = pb.known_ships /\ r.current_shot = pb.current_shot
    BY DEF RevealStep
  <2>7. Unanswered(r, p) = Unanswered(pb, p)
    BY <2>2, <2>6 DEF Unanswered, Target
  <2>8. QED
    BY <1>2, <2>2, <2>3, <2>5, <2>6, <2>7 DEF Honest
<1>5. QED
  BY <1>3, <1>4

(* Moves of the other player, and one's own if they are as above, leave  *)
(* the board in agreement with the secrets.                              *)
LEMMA MoveHonest ==
    ASSUME NEW pb, NEW mv, NEW r, MoveStep(pb, mv, r),
           NEW p \in {1, 2}, NEW pos, NEW salt, NEW seed,
           Honest(pb, p, pos, salt, seed),
           p = pb.turn => OwnMove(pb, mv, p, pos, salt, seed)
    PROVE  Honest(r, p, pos, salt, seed)
<1>1. CASE mv \in Commitments /\ CommitStep(pb, mv, r)
  BY <1>1, CommitHonest
<1>2. CASE mv \in SeedReveals /\ SeedStep(pb, r)
  BY <1>2, SeedHonest
<1>3. CASE mv \in ShotMoves /\ ShotStep(pb, r)
  BY <1>3, ShotHonest
<1>4. CASE mv \in Replies /\ ReplyStep(pb, mv, r)
  BY <1>4, ReplyHonest
<1>5. CASE mv \in Reveals /\ RevealStep(pb, mv, r)
  BY <1>5, RevealHonest
<1>6. QED
  BY <1>1, <1>2, <1>3, <1>4, <1>5 DEF MoveStep

(* Whose ships are not all hit does not lose by what the other reveals. *)
LEMMA OthersReveal ==
    ASSUME NEW pb, NEW mv \in Reveals, NEW r, RevealStep(pb, mv, r), Playing(pb),
           NEW p \in {1, 2}, p = Other(pb.turn), NEW pos \in Grids,
           VerifyPositionOfShips(pos), NEW salt, NEW seed,
           Honest(pb, p, pos, salt, seed), r.winner = Other(p)
    PROVE  pos \subseteq r.known_ships[p].hits
<1> DEFINE K == pb.known_ships[p].hits
<1>1. /\ pb.turn \in {1, 2} /\ Other(p) = pb.turn /\ pb.winner = None
      /\ pb.known_ships # <<>> /\ p # pb.turn /\ Other(pb.turn) # pb.turn
  BY TwoPlayers, PairIsSeq DEF Playing, Known
<1>2. mv.position \in Grids /\ r.winner = RevealWinner(pb, mv.position)
      /\ r.known_ships = pb.known_ships
  BY DEF Reveals, RevealStep
<1>3. Cardinality(K) >= TotalShipCells
  BY <1>1, <1>2, WinnerOf
<1>4. K \subseteq pos
  BY <1>1 DEF Honest
<1>5. IsFiniteSet(pos) /\ Cardinality(pos) \in Nat
  BY CellParts
<1> HIDE DEF K
<1>6. /\ Cardinality(K) <= Cardinality(pos)
      /\ Cardinality(pos) = Cardinality(K) => pos = K
  BY <1>4, <1>5, FS_Subset
<1>7. IsFiniteSet(K) /\ Cardinality(K) \in Nat
  BY <1>4, <1>5, FS_Subset, FS_CardinalityType
<1>8. TotalShipCells \in Nat /\ Cardinality(pos) <= TotalShipCells
  BY FleetSize
<1>9. pos = K
  BY <1>3, <1>5, <1>6, <1>7, <1>8
<1>10. QED
  BY <1>2, <1>9 DEF K

(* Who answered truthfully and reveals with no shot to answer does not     *)
(* lose, and wins once everything has been hit or the other has revealed.  *)
LEMMA OwnReveal ==
    ASSUME NEW pb, NEW mv \in Reveals, NEW r, RevealStep(pb, mv, r),
           NEW p \in {1, 2}, p = pb.turn, NEW salt, NEW seed,
           VerifyPositionOfShips(mv.position),
           Honest(pb, p, mv.position, salt, seed),
           Revealing(pb) \/ pb.current_shot = None
    PROVE  /\ r.winner # Other(p)
           /\ Revealing(pb) => r.winner = p
           /\ Cardinality(pb.known_ships[Other(p)].hits) >= TotalShipCells
                 => r.winner = p
<1>1. /\ pb.winner = None /\ Known(pb) /\ (Playing(pb) \/ Revealing(pb))
      /\ pb.known_ships # <<>> /\ Other(p) # p
  BY TwoPlayers, PairIsSeq DEF RevealStep, Playing, Revealing, Known
<1>2. Unanswered(pb, p) = {}
  <2>1. Revealing(pb) => Target(pb) # p
    BY <1>1, PairIsSeq DEF Revealing, Target
  <2>2. QED
    BY <2>1 DEF Unanswered
<1>3. pb.known_ships[p].hits = mv.position \cap pb.known_ships[p].guessed
  BY <1>1, <1>2 DEF Honest
<1>4. VerifyPositionForAnswers(mv.position, pb.known_ships[p].guessed,
                               pb.known_ships[p].hits)
  BY <1>3 DEF VerifyPositionForAnswers
<1>5. mv.position \in Grids /\ r.winner = RevealWinner(pb, mv.position)
  BY DEF Reveals, RevealStep
<1>6. QED
  BY <1>1, <1>4, <1>5, WinnerOf

(* A board that has a winner is the result of a reveal. *)
LEMMA OnlyRevealsWin ==
    ASSUME NEW pb, NEW mv, NEW r, MoveStep(pb, mv, r)
    PROVE  /\ r.winner # None \/ Revealing(r) => mv \in Reveals /\ RevealStep(pb, mv, r)
           /\ pb.turn \in {1, 2}
<1>1. CASE mv \in Commitments /\ CommitStep(pb, mv, r)
  <2>1. r.winner = None /\ r.known_ships = <<>> /\ pb.turn \in {1, 2}
    BY <1>1 DEF CommitStep, Committed, Seeding, Fresh, Opening
  <2>2. ~Revealing(r)
    BY <2>1, PairIsSeq DEF Revealing, Known
  <2>3. QED
    BY <2>1, <2>2
<1>2. CASE mv \in SeedReveals /\ SeedStep(pb, r)
  <2>1. Playing(r) /\ pb.turn \in {1, 2}
    BY <1>2 DEF SeedStep, Seeding
  <2>2. r.winner = None /\ ~Revealing(r)
    BY <2>1, PairIsSeq DEF Playing, Revealing
  <2>3. QED
    BY <2>1, <2>2
<1>3. CASE mv \in ShotMoves /\ ShotStep(pb, r)
  <2>1. Playing(r) /\ pb.turn \in {1, 2}
    BY <1>3 DEF ShotStep, Playing
  <2>2. r.winner = None /\ ~Revealing(r)
    BY <2>1, PairIsSeq DEF Playing, Revealing
  <2>3. QED
    BY <2>1, <2>2
<1>4. CASE mv \in Replies /\ ReplyStep(pb, mv, r)
  <2>1. Playing(r) /\ pb.turn \in {1, 2}
    BY <1>4 DEF ReplyStep, Playing
  <2>2. r.winner = None /\ ~Revealing(r)
    BY <2>1, PairIsSeq DEF Playing, Revealing
  <2>3. QED
    BY <2>1, <2>2
<1>5. CASE mv \in Reveals /\ RevealStep(pb, mv, r)
  BY <1>5 DEF RevealStep, Playing, Revealing
<1>6. QED
  BY <1>1, <1>2, <1>3, <1>4, <1>5 DEF MoveStep

-----------------------------------------------------------------------------
(***************************************************************************)
(* The moves that the daemon makes by itself.                              *)
(***************************************************************************)
AutoMoveIs(p, s, mv) ==
    \/ /\ Fresh(board) /\ IsPositionSet(p)
       /\ mv = PositionCommitment(PositionHash(p), Hash(s), None)
    \/ /\ Committed(board) /\ IsPositionSet(p)
       /\ mv = PositionCommitment(PositionHash(p), None, s)
    \/ Seeding(board) /\ mv = SeedReveal(seed0[p])
    \/ /\ Playing(board) /\ board.current_shot # None
       /\ mv = Reply(IF Coord(board.current_shot) \in position[p] THEN "HIT"
                                                                  ELSE "MISS")
    \/ /\ \/ Revealing(board)
          \/ Playing(board) /\ board.current_shot = None /\ HitAll(board, p)
       /\ IsPositionSet(p) /\ mv = PositionReveal(position[p], positionSalt[p])

LEMMA AutoMoveOf ==
    ASSUME GoodBoard(board), NEW p \in Players, NEW s \in Seeds,
           WhoseTurn(board) = p, NEW mv, mv = InternalAutoMove(board, p, s),
           mv # None, ~(NeedsPosition(board, p) /\ ~IsPositionSet(p))
    PROVE  board.turn = p /\ AutoMoveIs(p, s, mv)
<1>1. board.turn = p
  <2>1. 0 \notin Players
    BY DEF Players
  <2>2. QED
    BY <2>1 DEF WhoseTurn, NO_TURN
<1>2. ~Over(board)
  BY <1>1, Absent DEF Over, Players
<1>3. CASE Fresh(board)
  <2>1. GetPhase(board) = "FIRST_COMMITMENT"
    BY <1>3, PhaseOf
  <2>2. mv = IF IsPositionSet(p)
             THEN PositionCommitment(PositionHash(p), Hash(s), None) ELSE None
    BY <2>1 DEF InternalAutoMove
  <2>3. QED
    BY <1>1, <1>3, <2>2 DEF AutoMoveIs
<1>4. CASE Committed(board)
  <2>1. GetPhase(board) = "SECOND_COMMITMENT"
    BY <1>4, PhaseOf
  <2>2. mv = IF IsPositionSet(p)
             THEN PositionCommitment(PositionHash(p), None, s) ELSE None
    BY <2>1 DEF InternalAutoMove
  <2>3. QED
    BY <1>1, <1>4, <2>2 DEF AutoMoveIs
<1>5. CASE Seeding(board)
  <2>1. GetPhase(board) = "FIRST_REVEAL_SEED"
    BY <1>5, PhaseOf
  <2>2. mv = SeedReveal(seed0[p])
    BY <2>1 DEF InternalAutoMove
  <2>3. QED
    BY <1>1, <1>5, <2>2 DEF AutoMoveIs
<1>6. CASE Playing(board) /\ board.current_shot # None
  <2>1. GetPhase(board) = "ANSWER"
    BY <1>6, PhaseOf
  <2>2. mv = Reply(IF Coord(board.current_shot) \in position[p] THEN "HIT"
                                                                ELSE "MISS")
    BY <2>1 DEF InternalAutoMove
  <2>3. QED
    BY <1>1, <1>6, <2>2 DEF AutoMoveIs
<1>7. CASE Playing(board) /\ board.current_shot = None
  <2>1. GetPhase(board) = "SHOOT"
    BY <1>7, PhaseOf
  <2>2. HitAll(board, p) /\ mv = GetPositionRevealMove(p)
    BY <2>1 DEF InternalAutoMove
  <2>3. IsPositionSet(p)
    BY <2>1, <2>2 DEF NeedsPosition
  <2>4. QED
    BY <1>1, <1>7, <2>2, <2>3 DEF AutoMoveIs, GetPositionRevealMove
<1>8. CASE Revealing(board)
  <2>1. GetPhase(board) = "SECOND_REVEAL_POSITION"
    BY <1>8, PhaseOf
  <2>2. mv = GetPositionRevealMove(p)
    BY <2>1 DEF InternalAutoMove
  <2>3. IsPositionSet(p)
    BY <2>1 DEF NeedsPosition
  <2>4. QED
    BY <1>1, <1>8, <2>2, <2>3 DEF AutoMoveIs, GetPositionRevealMove
<1>9. QED
  BY <1>2, <1>3, <1>4, <1>5, <1>6, <1>7, <1>8 DEF GoodBoard

(* The moves have the types that the lemmas above are about. *)
LEMMA OwnTypes ==
    ASSUME DaemonType, NEW p \in Players, NEW s \in Seeds
    PROVE  /\ position[p] \in Grids /\ seed0[p] \in Seeds \cup {None}
           /\ Hash(s) \in SeedHashes /\ SeedReveal(seed0[p]) \in SeedReveals
           /\ positionSalt[p] \in Nat /\ PositionHash(p) \in PositionHashes
           /\ PositionCommitment(PositionHash(p), Hash(s), None) \in Commitments
           /\ PositionCommitment(PositionHash(p), None, s) \in Commitments
           /\ PositionReveal(position[p], positionSalt[p]) \in Reveals
<1>1. /\ position[p] \in Grids /\ seed0[p] \in Seeds \cup {None}
      /\ positionSalt[p] \in Nat
  BY DEF DaemonType
<1>2. Hash(s) \in SeedHashes
  BY DEF Hash, SeedHashes
<1>3. SeedReveal(seed0[p]) \in SeedReveals
  BY <1>1 DEF SeedReveal, SeedReveals
<1>4. PositionHash(p) \in PositionHashes
  BY <1>1 DEF PositionHash, PositionHashes, Hash
<1>5. PositionCommitment(PositionHash(p), Hash(s), None) \in Commitments
      /\ PositionCommitment(PositionHash(p), None, s) \in Commitments
  BY <1>2, <1>4 DEF PositionCommitment, Commitments
<1>6. PositionReveal(position[p], positionSalt[p]) \in Reveals
  BY <1>1 DEF PositionReveal, Reveals
<1>7. QED
  BY <1>1, <1>2, <1>3, <1>4, <1>5, <1>6

LEMMA AutoMoveIsMove ==
    ASSUME DaemonType, NEW p \in Players, NEW s \in Seeds, NEW mv,
           AutoMoveIs(p, s, mv)
    PROVE  mv \in Moves
<1>1. \A x \in {"HIT", "MISS"} : Reply(x) \in Replies
  BY DEF Reply, Replies
<1>2. QED
  BY <1>1, OwnTypes DEF AutoMoveIs, Moves

(* The daemon plays by its secrets. *)
LEMMA AutoMoveOwn ==
    ASSUME DaemonType, NEW p \in Players, NEW s \in Seeds, NEW mv,
           AutoMoveIs(p, s, mv), board.turn = p,
           NEW seed, Fresh(board) => seed = s
    PROVE  OwnMove(board, mv, p, position[p], positionSalt[p], seed)
<1>1. CASE /\ Fresh(board) /\ IsPositionSet(p)
           /\ mv = PositionCommitment(PositionHash(p), Hash(s), None)
  BY <1>1 DEF OwnMove, PositionCommitment, PositionHash, IsPositionSet, Replies
<1>2. CASE /\ Committed(board) /\ IsPositionSet(p)
           /\ mv = PositionCommitment(PositionHash(p), None, s)
  <2>1. p # 1
    BY <1>2 DEF Committed
  <2>2. QED
    BY <1>2, <2>1 DEF OwnMove, PositionCommitment, PositionHash, IsPositionSet,
                      Replies
<1>3. CASE Seeding(board) /\ mv = SeedReveal(seed0[p])
  BY <1>3 DEF OwnMove, SeedReveal, Replies, Commitments
<1>4. CASE /\ Playing(board) /\ board.current_shot # None
           /\ mv = Reply(IF Coord(board.current_shot) \in position[p]
                         THEN "HIT" ELSE "MISS")
  BY <1>4 DEF OwnMove, Reply, Commitments
<1>5. CASE mv = PositionReveal(position[p], positionSalt[p])
  BY <1>5 DEF OwnMove, PositionReveal, Replies, Commitments
<1>6. QED
  BY <1>1, <1>2, <1>3, <1>4, <1>5 DEF AutoMoveIs

(* The CHECK on what an automove leads to holds, but for the reveal after  *)
(* an early commitment.                                                    *)
LEMMA AutoAccepted ==
    ASSUME DaemonType, ValidPositions, GoodBoard(board),
           NEW p \in Players, NEW s \in Seeds, NEW mv,
           AutoMoveIs(p, s, mv), board.turn = p,
           Honest(board, p, position[p], positionSalt[p], seed0[p]),
           ~(CommittedEarly(p) /\ board.known_ships # <<>>)
    PROVE  Accepted(board, mv)
<1> DEFINE r == ApplyMoveProto(board, mv)
<1> SUFFICES GoodBoard(r) /\ TurnCount(r) > TurnCount(board)
  BY Absent DEF GoodBoard, Accepted
<1>1. CASE \/ /\ Fresh(board) /\ IsPositionSet(p)
              /\ mv = PositionCommitment(PositionHash(p), Hash(s), None)
           \/ /\ Committed(board) /\ IsPositionSet(p)
              /\ mv = PositionCommitment(PositionHash(p), None, s)
  <2>1. mv \in Commitments /\ PositionHash(p) # Malformed
        /\ Hash(s) \notin {None, Malformed} /\ s # Malformed
    BY <1>1, OwnTypes, Absent
  <2>2. CommitAllowed(board, mv)
    BY <1>1, <2>1, PhaseOf DEF CommitAllowed, PositionCommitment
  <2>3. r = ApplyPositionCommitment(board, mv)
    BY <2>1 DEF ApplyMoveProto, Commitments
  <2> HIDE DEF r
  <2>4. QED
    BY <2>1, <2>2, <2>3, CommitGood
<1>2. CASE Seeding(board) /\ mv = SeedReveal(seed0[p])
  <2>1. p = 1 /\ board.seed_hash_0 # None
    BY <1>2, Absent DEF Seeding
  <2>2. mv \in SeedReveals /\ seed0[p] # Malformed
    BY <1>2, OwnTypes, Absent
  <2>3. SeedAllowed(board, mv)
    BY <1>2, <2>1, <2>2, PhaseOf DEF SeedAllowed, SeedReveal, Honest
  <2>4. r = ApplySeedReveal(board, mv)
    BY <2>2 DEF ApplyMoveProto, SeedReveals
  <2> HIDE DEF r
  <2>5. QED
    BY <2>2, <2>3, <2>4, SeedGood
<1>3. CASE /\ Playing(board) /\ board.current_shot # None
           /\ mv = Reply(IF Coord(board.current_shot) \in position[p]
                         THEN "HIT" ELSE "MISS")
  <2>1. mv \in Replies /\ mv.reply \in {"HIT", "MISS"}
    BY <1>3 DEF Reply, Replies
  <2>2. ReplyAllowed(board, mv)
    BY <1>3, <2>1, PhaseOf DEF ReplyAllowed, Playing, ShotAt
  <2>3. r = ApplyReply(board, mv)
    BY <2>1 DEF ApplyMoveProto, Replies
  <2> HIDE DEF r
  <2>4. QED
    BY <2>1, <2>2, <2>3, ReplyGood
<1>4. CASE /\ \/ Revealing(board)
              \/ Playing(board) /\ board.current_shot = None /\ HitAll(board, p)
           /\ IsPositionSet(p) /\ mv = PositionReveal(position[p], positionSalt[p])
  <2>1. /\ mv \in Reveals /\ mv.position = position[p]
        /\ mv.salt = positionSalt[p]
    BY <1>4, OwnTypes DEF PositionReveal
  <2>2. mv.position # None /\ mv.salt # Malformed
    BY <2>1, Absent DEF Reveals
  <2>3. /\ board.position_hashes[p] \in PositionHashes
        /\ p \in DOMAIN board.position_hashes /\ Known(board) /\ p \in 1 .. 2
    BY <1>4, TwoPlayers DEF Playing, Revealing, Players
  <2>4. Hash(<<mv.position, mv.salt>>) = board.position_hashes[p]
    <3>1. board.known_ships # <<>>
      BY <2>3, PairIsSeq DEF Known
    <3>2. board.position_hashes[p] # Hash(<<position[p], NotDrawn>>)
      BY <2>3, <3>1 DEF CommittedEarly
    <3>3. QED
      BY <2>1, <2>3, <3>2, Absent DEF Honest
  <2>5. GetPhase(board) \in {"SHOOT", "SECOND_REVEAL_POSITION"}
    BY <1>4, PhaseOf
  <2>6. RevealAllowed(board, mv)
    BY <2>2, <2>3, <2>4, <2>5 DEF RevealAllowed, Known
  <2>7. r = ApplyPositionReveal(board, mv)
    BY <2>1 DEF ApplyMoveProto, Reveals
  <2>8. mv.position \cap LowCells # {}
    BY <1>4, <2>1, LowCellsAssumption DEF ValidPositions, Reveals
  <2> HIDE DEF r
  <2>9. QED
    BY <2>1, <2>6, <2>7, <2>8, RevealGood
<1>5. QED
  BY <1>1, <1>2, <1>3, <1>4 DEF AutoMoveIs

-----------------------------------------------------------------------------
(***************************************************************************)
(* The invariant.                                                          *)
(***************************************************************************)

(* A player keeps agreeing with the board through the other's moves, and   *)
(* loses by one of them only with all ships hit.                           *)
LEMMA OthersMove ==
    ASSUME ShipsInv, NEW p \in Players, board.turn = p, NEW mv \in Moves,
           NEW r, MoveStep(board, mv, r),
           NEW q \in daemons \ forgot, q # p
    PROVE  /\ Honest(r, q, position[q], positionSalt[q], seed0[q])
           /\ ~(Revealing(r) /\ r.turn = Other(q))
           /\ q \notin revealed /\ r.winner = Other(q) =>
                 position[q] \subseteq r.known_ships[q].hits
<1>1. /\ p \in {1, 2} /\ q \in {1, 2} /\ q = Other(p) /\ p = Other(q)
      /\ Other(q) # q /\ Other(q) # None
  BY TwoPlayers, Absent DEF Players, ShipsInv, DaemonType
<1>2. /\ Honest(board, q, position[q], positionSalt[q], seed0[q])
      /\ Revealing(board) /\ board.turn = Other(q) => q \in revealed
  BY DEF ShipsInv, DaemonsHonest
<1>3. Honest(r, q, position[q], positionSalt[q], seed0[q])
  BY <1>1, <1>2, MoveHonest
<1>4. ~(Revealing(r) /\ r.turn = Other(q))
  <2> SUFFICES ASSUME Revealing(r) PROVE r.turn # Other(q)
    OBVIOUS
  <2>1. RevealStep(board, mv, r) /\ r.winner = None
    BY OnlyRevealsWin DEF Revealing
  <2>2. r.turn = Other(board.turn)
    BY <2>1 DEF RevealStep
  <2>3. QED
    BY <1>1, <2>2
<1>5. ASSUME q \notin revealed, r.winner = Other(q)
      PROVE  position[q] \subseteq r.known_ships[q].hits
  <2>1. mv \in Reveals /\ RevealStep(board, mv, r)
    BY <1>1, <1>5, OnlyRevealsWin
  <2>2. Playing(board)
    BY <1>1, <1>2, <1>5, <2>1 DEF RevealStep
  <2>3. q \in DOMAIN board.position_hashes
    BY <1>1, <2>2, TwoPlayers DEF Playing
  <2>4. IsPositionSet(q)
    BY <1>2, <2>3 DEF Honest, IsPositionSet
  <2>5. position[q] \in Grids /\ VerifyPositionOfShips(position[q])
    BY <1>1, <2>4 DEF ShipsInv, DaemonType, ValidPositions, Players
  <2>6. QED
    BY <1>1, <1>2, <1>5, <2>1, <2>2, <2>5, OthersReveal
<1>6. QED
  BY <1>3, <1>4, <1>5

(* What is left to show for a move of p. *)
LEMMA BoardMoved ==
    ASSUME ShipsInv, NEW p \in Players, board.turn = p, NEW mv \in Moves,
           board' = ApplyMoveProto(board, mv), board' # None,
           UNCHANGED <<daemons, aside, position, positionSalt, call, fate, faults>>,
           p \in daemons => fate[p] = "running",
           revealed \subseteq revealed', forgot \subseteq forgot',
           seed0' \in [Players -> Seeds \cup {None}],
           \A q \in Players \ {p} : seed0'[q] = seed0[q],
           p \in daemons \ forgot' =>
              /\ Honest(board', p, position[p], positionSalt[p], seed0'[p])
              /\ aside # None =>
                    Honest(aside, p, position[p], positionSalt[p], seed0'[p])
              /\ Revealing(board') /\ board'.turn = Other(p) => p \in revealed'
              /\ p \notin revealed' => board'.winner # Other(p)
    PROVE  ShipsInv'
<1>1. GoodBoard(board') /\ MoveStep(board, mv, board')
  BY MoveGood DEF ShipsInv, BoardsGood
<1>2. DaemonType' /\ ValidPositions' /\ BoardsGood'
  <2>1. DaemonType'
    BY DEF ShipsInv, DaemonType
  <2>2. ValidPositions'
    BY DEF ShipsInv, ValidPositions, IsPositionSet
  <2>3. BoardsGood'
    BY <1>1 DEF ShipsInv, BoardsGood
  <2>4. QED
    BY <2>1, <2>2, <2>3
<1>3. ASSUME NEW q \in daemons \ forgot', q # p
      PROVE  /\ Honest(board', q, position[q], positionSalt[q], seed0'[q])
             /\ aside # None => Honest(aside, q, position[q], positionSalt[q],
                                       seed0'[q])
             /\ ~(Revealing(board') /\ board'.turn = Other(q))
             /\ q \notin revealed' /\ board'.winner = Other(q) =>
                   position[q] \subseteq board'.known_ships[q].hits
  <2>1. q \in daemons \ forgot /\ q \in Players /\ seed0'[q] = seed0[q]
    BY <1>3 DEF ShipsInv, DaemonType
  <2>2. aside # None => Honest(aside, q, position[q], positionSalt[q], seed0[q])
    BY <2>1 DEF ShipsInv, DaemonsHonest
  <2>3. /\ Honest(board', q, position[q], positionSalt[q], seed0[q])
        /\ ~(Revealing(board') /\ board'.turn = Other(q))
        /\ q \notin revealed /\ board'.winner = Other(q) =>
              position[q] \subseteq board'.known_ships[q].hits
    BY <1>1, <1>3, <2>1, OthersMove
  <2>4. QED
    BY <2>1, <2>2, <2>3
<1>4. DaemonsHonest'
  <2>1. ASSUME NEW q \in daemons \ forgot'
        PROVE  /\ Honest(board', q, position[q], positionSalt[q], seed0'[q])
               /\ aside # None => Honest(aside, q, position[q], positionSalt[q],
                                         seed0'[q])
               /\ Revealing(board') /\ board'.turn = Other(q) => q \in revealed'
    BY <1>3
  <2>2. QED
    BY <2>1 DEF DaemonsHonest
<1>5. LosesOnlyIfSunk'
  <2>1. ASSUME NEW q \in daemons \ (forgot' \cup revealed'),
               board'.winner = Other(q)
        PROVE  position[q] \subseteq board'.known_ships[q].hits
    BY <1>3, <2>1
  <2>2. QED
    BY <2>1 DEF LosesOnlyIfSunk
<1>6. AbortsExplained'
  <2>1. ASSUME NEW q \in Players, fate[q] = "automove" PROVE q \in forgot'
    BY <2>1 DEF ShipsInv, AbortsExplained, Stuck
  <2>2. QED
    BY <2>1 DEF AbortsExplained
<1>7. QED
  BY <1>2, <1>4, <1>5, <1>6 DEF ShipsInv

(* A board from before the first shot has no winner and nothing revealed. *)
LEMMA OpeningBoard ==
    ASSUME NEW pb, Opening(pb), NEW q \in Players
    PROVE  ~Revealing(pb) /\ pb.winner # Other(q)
<1>1. ~Revealing(pb)
  BY PairIsSeq DEF Revealing, Known, Opening
<1>2. Other(q) # None
  BY TwoPlayers, Absent DEF Players
<1>3. QED
  BY <1>1, <1>2 DEF Opening

(* The first board of a reinitialisation. *)
LEMMA InitialBoard ==
    GoodBoard(InitialBoardState) /\ Fresh(InitialBoardState)
<1>1. <<>> \in Seq(PositionHashes \cup {None})
  OBVIOUS
<1>2. InitialBoardState \in BoardRecords /\ Fresh(InitialBoardState)
  BY <1>1 DEF InitialBoardState, BoardRecords, Fresh, Opening
<1>3. QED
  BY <1>2 DEF GoodBoard

LEMMA InitInv == Init => ShipsInv
<1> SUFFICES ASSUME Init PROVE ShipsInv
  OBVIOUS
<1>1. board = InitialBoardState
  BY DEF Init
<1>2. GoodBoard(board) /\ Fresh(board) /\ Opening(board)
  BY <1>1, InitialBoard DEF Fresh
<1>3. DaemonType
  <2>1. NotDrawn \in Nat /\ 0 \in Nat
    BY DEF NotDrawn
  <2>2. positionSalt \in [Players -> Nat]
    BY <2>1 DEF Init
  <2>3. QED
    BY <2>1, <2>2 DEF Init, DaemonType, Players, Grids
<1>4. ValidPositions
  BY DEF Init, ValidPositions, IsPositionSet
<1>5. BoardsGood
  BY <1>2 DEF Init, BoardsGood
<1>6. \A q \in daemons : ~Revealing(board) /\ board.winner # Other(q)
  BY <1>2, <1>3, OpeningBoard DEF DaemonType
<1>7. DaemonsHonest
  BY <1>2, <1>6, FreshHonest DEF Init, DaemonsHonest
<1>8. LosesOnlyIfSunk
  BY <1>6 DEF LosesOnlyIfSunk
<1>9. AbortsExplained
  BY DEF Init, AbortsExplained
<1>10. QED
  BY <1>3, <1>4, <1>5, <1>7, <1>8, <1>9 DEF ShipsInv

LEMMA CallInv ==
    ASSUME ShipsInv, NEW p \in Players, NEW t \in Threads, NEW g \in OwnPositions,
           SetPositionCall(p, t, g)
    PROVE  ShipsInv'
<1>1. UNCHANGED <<daemons, board, aside, position, positionSalt, seed0, fate,
                  revealed, forgot, faults>>
      /\ call' = [call EXCEPT ![p][t] = g] /\ VerifyPositionOfShips(g) /\ g \in Grids
  BY ChannelAssumption DEF SetPositionCall, Secrets
<1>2. DaemonType'
  BY <1>1 DEF ShipsInv, DaemonType
<1>3. ValidPositions'
  <2>1. \A q \in Players, u \in Threads : call'[q][u] = g \/ call'[q][u] = call[q][u]
    BY <1>1 DEF ShipsInv, DaemonType
  <2>2. QED
    BY <1>1, <2>1 DEF ShipsInv, ValidPositions, IsPositionSet
<1>4. BoardsGood' /\ DaemonsHonest'
  BY <1>1 DEF ShipsInv, BoardsGood, DaemonsHonest
<1>5. LosesOnlyIfSunk' /\ AbortsExplained'
  BY <1>1 DEF ShipsInv, LosesOnlyIfSunk, AbortsExplained, Stuck, CommittedEarly
<1>6. QED
  BY <1>2, <1>3, <1>4, <1>5 DEF ShipsInv

(* Before p has committed, the board says nothing of p's position. *)
LEMMA NotCommitted ==
    ASSUME NEW pb, GoodBoard(pb), NEW p \in {1, 2}, NEW pos, NEW seed,
           NEW salt, Honest(pb, p, pos, salt, seed), pos = {}, NEW pos2, NEW salt2
    PROVE  Honest(pb, p, pos2, salt2, seed) /\ Opening(pb)
<1>1. p \notin DOMAIN pb.position_hashes
  BY DEF Honest
<1>2. Opening(pb)
  <2>1. ~Playing(pb) /\ ~Revealing(pb)
    BY <1>1, TwoPlayers DEF Playing, Revealing
  <2>2. ~Over(pb)
    BY <1>1 DEF Over
  <2>3. QED
    BY <2>1, <2>2 DEF GoodBoard, Fresh, Committed, Seeding
<1>3. QED
  BY <1>1, <1>2 DEF Honest, Opening

LEMMA SetPositionInv ==
    ASSUME ShipsInv, NEW p \in Players, NEW t \in Threads, SetPosition(p, t)
    PROVE  ShipsInv'
<1>1. /\ call[p][t] # None /\ call' = [call EXCEPT ![p][t] = None]
      /\ UNCHANGED <<daemons, board, aside, positionSalt, seed0, revealed, forgot,
                     faults>>
      /\ fate[p] = "running"
  BY DEF SetPosition, Running
<1>2. call' \in [Players -> [Threads -> Grids \cup {None}]]
  BY <1>1 DEF ShipsInv, DaemonType
<1>3. \A q \in Players, u \in Threads :
         call'[q][u] # None => call'[q][u] = call[q][u]
  BY <1>1 DEF ShipsInv, DaemonType
<1>4. CASE IsPositionSet(p)
  <2>1. /\ fate' = [fate EXCEPT ![p] = "setposition"]
        /\ UNCHANGED position
    BY <1>4 DEF SetPosition, Abort
  <2>2. DaemonType'
    BY <1>1, <1>2, <2>1 DEF ShipsInv, DaemonType
  <2>3. ValidPositions'
    BY <1>3, <2>1 DEF ShipsInv, ValidPositions, IsPositionSet
  <2>4. BoardsGood' /\ DaemonsHonest' /\ LosesOnlyIfSunk'
    BY <1>1, <2>1 DEF ShipsInv, BoardsGood, DaemonsHonest, LosesOnlyIfSunk
  <2>5. AbortsExplained'
    BY <1>1, <2>1 DEF ShipsInv, AbortsExplained, Stuck, CommittedEarly, DaemonType
  <2>6. QED
    BY <2>2, <2>3, <2>4, <2>5 DEF ShipsInv
<1>5. CASE ~IsPositionSet(p)
  <2>1. /\ position' = [position EXCEPT ![p] = call[p][t]]
        /\ fate' = fate /\ position[p] = {}
    BY <1>5 DEF SetPosition, IsPositionSet
  <2>2. call[p][t] \in Grids /\ VerifyPositionOfShips(call[p][t])
    BY <1>1 DEF ShipsInv, DaemonType, ValidPositions
  <2>3. DaemonType'
    BY <1>1, <1>2, <2>1, <2>2 DEF ShipsInv, DaemonType
  <2>4. \A q \in Players : q # p => position'[q] = position[q]
    BY <2>1 DEF ShipsInv, DaemonType
  <2>5. position'[p] = call[p][t]
    BY <2>1 DEF ShipsInv, DaemonType
  <2>6. ValidPositions'
    BY <1>3, <2>2, <2>4, <2>5 DEF ShipsInv, ValidPositions, IsPositionSet
  <2>7. BoardsGood'
    BY <1>1 DEF ShipsInv, BoardsGood
  <2>7b. AbortsExplained'
    <3>1. ASSUME NEW q \in Players, fate[q] = "automove"
          PROVE  q \in forgot \/ (Stuck(q) /\ position'[q] = position[q])
      BY <1>1, <2>4, <3>1 DEF ShipsInv, AbortsExplained
    <3>2. QED
      BY <1>1, <2>1, <3>1 DEF AbortsExplained, Stuck, CommittedEarly
  <2>8. ASSUME p \in daemons \ forgot
        PROVE  /\ Honest(board, p, position'[p], positionSalt[p], seed0[p])
               /\ aside # None => Honest(aside, p, position'[p], positionSalt[p],
                                         seed0[p])
               /\ board.winner = None
    <3>1. /\ Honest(board, p, position[p], positionSalt[p], seed0[p])
          /\ aside # None => Honest(aside, p, position[p], positionSalt[p], seed0[p])
          /\ GoodBoard(board) /\ (aside # None => GoodBoard(aside))
      BY <2>8 DEF ShipsInv, DaemonsHonest, BoardsGood
    <3>2. QED
      BY <2>1, <3>1, NotCommitted DEF Players, Opening
  <2>9. DaemonsHonest'
    <3>1. ASSUME NEW q \in daemons \ forgot
          PROVE  /\ Honest(board, q, position'[q], positionSalt[q], seed0[q])
                 /\ aside # None => Honest(aside, q, position'[q],
                                           positionSalt[q], seed0[q])
                 /\ Revealing(board) /\ board.turn = Other(q) => q \in revealed
      <4>1. q \in Players
        BY DEF ShipsInv, DaemonType
      <4>2. QED
        BY <2>4, <2>8, <4>1 DEF ShipsInv, DaemonsHonest
    <3>2. QED
      BY <1>1, <3>1 DEF DaemonsHonest
  <2>10. LosesOnlyIfSunk'
    <3>1. ASSUME NEW q \in daemons \ (forgot \cup revealed), board.winner = Other(q)
          PROVE  position'[q] \subseteq board.known_ships[q].hits
      <4>1. q \in Players /\ Other(q) # None
        BY TwoPlayers, Absent DEF ShipsInv, DaemonType, Players
      <4>2. q # p
        BY <2>8, <3>1, <4>1
      <4>3. QED
        BY <2>4, <3>1, <4>1, <4>2 DEF ShipsInv, LosesOnlyIfSunk
    <3>2. QED
      BY <1>1, <3>1 DEF LosesOnlyIfSunk
  <2>11. QED
    BY <2>3, <2>6, <2>7, <2>7b, <2>9, <2>10 DEF ShipsInv
<1>6. QED
  BY <1>4, <1>5

LEMMA OneMoreFault == ASSUME NEW n \in Nat PROVE n + 1 \in Nat
  OBVIOUS

(* A commitment that there is already was made with the salt from before. *)
LEMMA SaltDrawn ==
    ASSUME NEW pb, NEW p, NEW pos, NEW seed, NEW salt,
           Honest(pb, p, pos, NotDrawn, seed)
    PROVE  Honest(pb, p, pos, salt, seed)
  BY DEF Honest

LEMMA DrawSaltInv ==
    ASSUME ShipsInv, NEW p \in Players, DrawSalt(p)
    PROVE  ShipsInv'
<1>1. /\ positionSalt' = [positionSalt EXCEPT ![p] = IF p \in forgot THEN 2 ELSE 1]
      /\ positionSalt[p] = NotDrawn
      /\ UNCHANGED <<daemons, board, aside, position, seed0, call, fate, revealed,
                     forgot, faults>>
  BY DEF DrawSalt, Writing
<1>2. DaemonType'
  <2>1. DaemonType
    BY DEF ShipsInv
  <2>2. positionSalt \in [Players -> Nat] /\ 1 \in Nat /\ 2 \in Nat
    BY <2>1 DEF DaemonType
  <2>3. positionSalt' \in [Players -> Nat]
    BY <1>1, <2>2
  <2>4. QED
    BY <1>1, <2>1, <2>3 DEF DaemonType
<1>3. ValidPositions' /\ BoardsGood' /\ LosesOnlyIfSunk'
  BY <1>1 DEF ShipsInv, ValidPositions, BoardsGood, LosesOnlyIfSunk, IsPositionSet
<1>4. AbortsExplained'
  BY <1>1 DEF ShipsInv, AbortsExplained, Stuck, CommittedEarly
<1>5. DaemonsHonest'
  <2>1. ASSUME NEW q \in daemons \ forgot
        PROVE  /\ Honest(board, q, position[q], positionSalt'[q], seed0[q])
               /\ aside # None => Honest(aside, q, position[q], positionSalt'[q],
                                         seed0[q])
               /\ Revealing(board) /\ board.turn = Other(q) => q \in revealed
    <3>1. /\ Honest(board, q, position[q], positionSalt[q], seed0[q])
          /\ aside # None => Honest(aside, q, position[q], positionSalt[q], seed0[q])
          /\ Revealing(board) /\ board.turn = Other(q) => q \in revealed
          /\ q \in Players
      BY DEF ShipsInv, DaemonsHonest, DaemonType
    <3>2. CASE q = p
      BY <1>1, <3>1, <3>2, SaltDrawn
    <3>3. CASE q # p
      <4>1. positionSalt'[q] = positionSalt[q]
        BY <1>1, <3>1, <3>3 DEF ShipsInv, DaemonType
      <4>2. QED
        BY <3>1, <4>1
    <3>4. QED
      BY <3>2, <3>3
  <2>2. QED
    BY <1>1, <2>1 DEF DaemonsHonest
<1>6. QED
  BY <1>2, <1>3, <1>4, <1>5 DEF ShipsInv

(* An automove is not made: the daemon aborts, having drawn a seed or not. *)
LEMMA AutoMoveAborts ==
    ASSUME ShipsInv, NEW p \in Players, NEW why \in {"automove", "not signed"},
           UNCHANGED <<daemons, board, aside, position, positionSalt, call,
                       revealed, faults>>,
           fate' = [fate EXCEPT ![p] = why],
           forgot \subseteq forgot', seed0' \in [Players -> Seeds \cup {None}],
           \A q \in Players \ {p} : seed0'[q] = seed0[q],
           why = "automove" => p \in forgot' \/ Stuck(p),
           p \in daemons \ forgot' =>
              /\ Honest(board, p, position[p], positionSalt[p], seed0'[p])
              /\ aside # None =>
                    Honest(aside, p, position[p], positionSalt[p], seed0'[p])
    PROVE  ShipsInv'
<1>1. DaemonType'
  BY DEF ShipsInv, DaemonType
<1>2. ValidPositions' /\ BoardsGood'
  BY DEF ShipsInv, ValidPositions, BoardsGood, IsPositionSet
<1>3. DaemonsHonest'
  <2>1. ASSUME NEW q \in daemons \ forgot'
        PROVE  /\ Honest(board, q, position[q], positionSalt[q], seed0'[q])
               /\ aside # None => Honest(aside, q, position[q], positionSalt[q],
                                         seed0'[q])
               /\ Revealing(board) /\ board.turn = Other(q) => q \in revealed
    <3>1. q \in daemons \ forgot /\ (q # p => seed0'[q] = seed0[q])
      BY DEF ShipsInv, DaemonType
    <3>2. QED
      BY <3>1 DEF ShipsInv, DaemonsHonest
  <2>2. QED
    BY <2>1 DEF DaemonsHonest
<1>4. LosesOnlyIfSunk'
  BY DEF ShipsInv, LosesOnlyIfSunk
<1>5. AbortsExplained'
  <2>1. ASSUME NEW q \in Players, fate'[q] = "automove"
        PROVE  q \in forgot' \/ Stuck(q)
    <3>1. CASE q = p
      BY <2>1, <3>1 DEF ShipsInv, DaemonType
    <3>2. CASE q # p
      BY <2>1, <3>2 DEF ShipsInv, DaemonType, AbortsExplained
    <3>3. QED
      BY <3>1, <3>2
  <2>2. QED
    BY <2>1 DEF AbortsExplained, Stuck, CommittedEarly
<1>6. QED
  BY <1>1, <1>2, <1>3, <1>4, <1>5 DEF ShipsInv

(* A seed that is drawn when there was none disturbs no board. *)
LEMMA SeedDrawn ==
    ASSUME NEW pb, GoodBoard(pb), NEW p, NEW pos, NEW salt, NEW s,
           Honest(pb, p, pos, salt, None)
    PROVE  Honest(pb, p, pos, salt, s)
<1>1. pb.seed_hash_0 \in SeedHashes \cup {None}
  BY BoardParts DEF GoodBoard
<1>2. Hash(None) \notin SeedHashes
  BY Absent DEF Hash, SeedHashes
<1>3. QED
  BY <1>1, <1>2 DEF Honest

LEMMA AutoMoveInv ==
    ASSUME ShipsInv, NEW p \in Players, NEW s \in Seeds, NEW signs \in BOOLEAN,
           AutoMove(p, s, signs), Followed
    PROVE  ShipsInv'
<1> DEFINE mv == InternalAutoMove(board, p, s)
<1>1. /\ p \in daemons /\ WhoseTurn(board) = p /\ fate[p] = "running"
      /\ UNCHANGED <<daemons, aside, position, positionSalt, call, revealed,
                     faults>>
      /\ GoodBoard(board) /\ DaemonType /\ ValidPositions
      /\ seed0 \in [Players -> Seeds \cup {None}]
  BY DEF AutoMove, Running, ShipsInv, BoardsGood, DaemonType
<1>2. CASE NeedsPosition(board, p) /\ ~IsPositionSet(p)
  <2>1. /\ fate' = [fate EXCEPT ![p] = "automove"]
        /\ UNCHANGED <<board, seed0, forgot>>
    BY <1>2 DEF AutoMove, Abort
  <2>2. p \in forgot
    <3> SUFFICES ASSUME p \notin forgot PROVE FALSE
      OBVIOUS
    <3>1. Honest(board, p, position[p], positionSalt[p], seed0[p])
      BY <1>1 DEF ShipsInv, DaemonsHonest
    <3>2. Playing(board) \/ Revealing(board)
      BY <1>1, <1>2, ShapeOf DEF NeedsPosition
    <3>3. p \in DOMAIN board.position_hashes
      BY <3>2, TwoPlayers DEF Playing, Revealing, Players
    <3>4. QED
      BY <1>2, <3>1, <3>3 DEF Honest, IsPositionSet
  <2>3. QED
    BY <1>1, <2>1, <2>2, AutoMoveAborts
<1>3. CASE ~(NeedsPosition(board, p) /\ ~IsPositionSet(p))
  <2>1. /\ mv # None
        /\ IF GetPhase(board) = "FIRST_COMMITMENT"
           THEN /\ seed0' = [seed0 EXCEPT ![p] = s]
                /\ forgot' = IF seed0[p] # None /\ aside # None
                             THEN forgot \cup {p} ELSE forgot
           ELSE UNCHANGED <<seed0, forgot>>
        /\ \/ Accepted(board, mv) /\ board' = ApplyMoveProto(board, mv) /\ UNCHANGED fate
           \/ fate' = [fate EXCEPT ![p] = "not signed"] /\ UNCHANGED board
           \/ /\ ~Accepted(board, mv)
              /\ fate' = [fate EXCEPT ![p] = "automove"] /\ UNCHANGED board
    BY <1>3 DEF AutoMove, Abort, Accepted
  <2>2. board.turn = p /\ AutoMoveIs(p, s, mv)
    BY <1>1, <1>3, <2>1, AutoMoveOf
  <2>3. mv \in Moves
    BY <1>1, <2>2, AutoMoveIsMove
  <2> HIDE DEF mv
  <2>4. /\ seed0' \in [Players -> Seeds \cup {None}] /\ forgot \subseteq forgot'
        /\ \A q \in Players \ {p} : seed0'[q] = seed0[q]
    BY <1>1, <2>1
  <2>5. (Fresh(board) => seed0'[p] = s) /\ (~Fresh(board) => seed0'[p] = seed0[p])
    BY <1>1, <2>1, PhaseOf, ShapeOf
  <2>6. ASSUME p \in daemons \ forgot'
        PROVE  /\ Honest(board, p, position[p], positionSalt[p], seed0[p])
               /\ Honest(board, p, position[p], positionSalt[p], seed0'[p])
               /\ aside # None =>
                     Honest(aside, p, position[p], positionSalt[p], seed0'[p])
    <3>1. /\ Honest(board, p, position[p], positionSalt[p], seed0[p])
          /\ aside # None =>
                Honest(aside, p, position[p], positionSalt[p], seed0[p])
          /\ aside # None => GoodBoard(aside)
      BY <2>4, <2>6 DEF ShipsInv, DaemonsHonest, BoardsGood
    <3>2. Honest(board, p, position[p], positionSalt[p], seed0'[p])
      BY <2>5, <3>1, FreshHonest
    <3>3. ASSUME aside # None
          PROVE  Honest(aside, p, position[p], positionSalt[p], seed0'[p])
      <4>1. seed0'[p] = seed0[p] \/ seed0[p] = None
        BY <1>1, <2>1, <2>6, <3>3
      <4>2. CASE seed0[p] = None
        BY <3>1, <3>3, <4>2, SeedDrawn
      <4>3. QED
        BY <3>1, <3>3, <4>1, <4>2
    <3>4. QED
      BY <3>1, <3>2, <3>3
  <2>7. CASE fate' = [fate EXCEPT ![p] = "not signed"] /\ UNCHANGED board
    BY <1>1, <2>4, <2>6, <2>7, AutoMoveAborts
  <2>8. CASE /\ ~Accepted(board, mv)
             /\ fate' = [fate EXCEPT ![p] = "automove"] /\ UNCHANGED board
    <3>1. p \in forgot \/ Stuck(p)
      <4> SUFFICES ASSUME p \notin forgot PROVE Stuck(p)
        OBVIOUS
      <4>1. Honest(board, p, position[p], positionSalt[p], seed0[p])
        BY <1>1 DEF ShipsInv, DaemonsHonest
      <4>2. CommittedEarly(p) /\ board.known_ships # <<>>
        BY <1>1, <2>2, <2>8, <4>1, AutoAccepted
      <4>3. aside = None
        BY <4>2 DEF Followed
      <4>4. QED
        BY <1>1, <2>2, <4>2, <4>3 DEF Stuck
    <3>2. QED
      BY <1>1, <2>4, <2>6, <2>8, <3>1, AutoMoveAborts
  <2>9. CASE Accepted(board, mv) /\ board' = ApplyMoveProto(board, mv) /\ UNCHANGED fate
    <3>1. board' = ApplyMoveProto(board, mv) /\ board' # None /\ fate' = fate
      BY <2>9 DEF Accepted
    <3>2. MoveStep(board, mv, board')
      BY <1>1, <2>3, <3>1, MoveGood
    <3>4. ASSUME p \in daemons \ forgot'
          PROVE  Honest(board', p, position[p], positionSalt[p], seed0'[p])
      <4>1. OwnMove(board, mv, p, position[p], positionSalt[p], seed0'[p])
        BY <1>1, <2>2, <2>5, AutoMoveOwn
      <4>2. QED
        BY <2>2, <2>6, <3>2, <3>4, <4>1, MoveHonest DEF Players
    <3>5. ASSUME p \in daemons \ forgot', board'.winner # None \/ Revealing(board')
          PROVE  board'.winner = p
      <4>1. mv \in Reveals /\ RevealStep(board, mv, board')
        BY <3>2, <3>5, OnlyRevealsWin
      <4>2. /\ \/ Revealing(board)
               \/ Playing(board) /\ board.current_shot = None /\ HitAll(board, p)
            /\ IsPositionSet(p)
            /\ mv = PositionReveal(position[p], positionSalt[p])
        BY <2>2, <4>1 DEF AutoMoveIs, Reveals, PositionCommitment, SeedReveal, Reply
      <4>3. mv.position = position[p] /\ VerifyPositionOfShips(mv.position)
        BY <1>1, <4>2 DEF PositionReveal, ValidPositions
      <4>4. QED
        BY <2>2, <2>6, <3>5, <4>1, <4>2, <4>3, OwnReveal DEF HitAll, Players
    <3>6. p # None /\ p # Other(p) /\ Other(p) # None
      BY TwoPlayers, Absent DEF Players
    <3>7. p \in daemons \ forgot' =>
             /\ Honest(board', p, position[p], positionSalt[p], seed0'[p])
             /\ aside # None =>
                   Honest(aside, p, position[p], positionSalt[p], seed0'[p])
             /\ Revealing(board') /\ board'.turn = Other(p) => p \in revealed'
             /\ p \notin revealed' => board'.winner # Other(p)
      BY <2>6, <3>4, <3>5, <3>6 DEF Revealing
    <3>8. QED
      BY <1>1, <2>2, <2>3, <2>4, <3>1, <3>7, BoardMoved
  <2>10. QED
    BY <2>1, <2>7, <2>8, <2>9
<1>4. QED
  BY <1>2, <1>3

LEMMA ShootInv ==
    ASSUME ShipsInv, NEW p \in Players, NEW c \in Cells, Shoot(p, c)
    PROVE  ShipsInv'
<1> DEFINE mv == Shot(GetIndex(c))
<1>1. /\ UsersTurn(p) /\ Accepted(board, mv) /\ board' = ApplyMoveProto(board, mv)
      /\ UNCHANGED <<daemons, aside, position, positionSalt, seed0, call, fate,
                     revealed, forgot, faults>>
      /\ fate[p] = "running"
  BY DEF Shoot, Secrets, UsersTurn, Running
<1>2. board' # None /\ board.turn = p
  <2>1. 0 \notin Players
    BY DEF Players
  <2>2. QED
    BY <1>1, <2>1 DEF Accepted, UsersTurn, WhoseTurn, NO_TURN
<1>3. mv \in ShotMoves
  <2>1. c[1] \in Int /\ c[2] \in Int /\ SIDE \in Int
    BY CellsAre, GridAssumption
  <2>2. GetIndex(c) \in Int
    BY <2>1 DEF GetIndex
  <2>3. QED
    BY <2>2 DEF Shot, ShotMoves
<1>4. mv \in Moves /\ mv \notin Commitments /\ mv \notin Replies /\ mv \notin Reveals
  BY <1>3 DEF Moves, Shot, Commitments, Replies, Reveals
<1> HIDE DEF mv
<1>5. MoveStep(board, mv, board')
  BY <1>1, <1>2, <1>4, MoveGood DEF ShipsInv, BoardsGood
<1>6. board'.winner = None /\ ~Revealing(board')
  BY <1>4, <1>5, OnlyRevealsWin
<1>7. ASSUME p \in daemons \ forgot
      PROVE  /\ Honest(board', p, position[p], positionSalt[p], seed0[p])
             /\ aside # None =>
                   Honest(aside, p, position[p], positionSalt[p], seed0[p])
  <2>1. /\ Honest(board, p, position[p], positionSalt[p], seed0[p])
        /\ aside # None =>
              Honest(aside, p, position[p], positionSalt[p], seed0[p])
    BY <1>7 DEF ShipsInv, DaemonsHonest
  <2>2. OwnMove(board, mv, p, position[p], positionSalt[p], seed0[p])
    BY <1>4 DEF OwnMove
  <2>3. QED
    BY <1>5, <2>1, <2>2, MoveHonest DEF Players
<1>8. Other(p) # None /\ seed0 \in [Players -> Seeds \cup {None}]
  BY TwoPlayers, Absent DEF Players, ShipsInv, DaemonType
<1>9. QED
  BY <1>1, <1>2, <1>4, <1>6, <1>7, <1>8, BoardMoved

LEMMA RevealPositionInv ==
    ASSUME ShipsInv, NEW p \in Players, RevealPosition(p)
    PROVE  ShipsInv'
<1> DEFINE mv == PositionReveal(position[p], positionSalt[p])
<1>1. /\ UsersTurn(p) /\ IsPositionSet(p) /\ revealed' = revealed \cup {p}
      /\ UNCHANGED <<daemons, aside, position, positionSalt, seed0, call, fate,
                     forgot, faults>>
      /\ \/ Accepted(board, mv) /\ board' = ApplyMoveProto(board, mv)
         \/ board' = board
      /\ fate[p] = "running"
  BY DEF RevealPosition, Secrets, GetPositionRevealMove, UsersTurn, Running
<1>2. board.turn = p
  <2>1. 0 \notin Players
    BY DEF Players
  <2>2. QED
    BY <1>1, <2>1 DEF UsersTurn, WhoseTurn, NO_TURN
<1>3. mv \in Reveals
  <2>1. position[p] \in Grids /\ positionSalt[p] \in Nat
    BY <1>1 DEF ShipsInv, DaemonType, IsPositionSet
  <2>2. QED
    BY <2>1 DEF PositionReveal, Reveals
<1>4. mv \in Moves /\ mv \notin Commitments /\ mv \notin Replies
  BY <1>3 DEF Moves, PositionReveal, Commitments, Replies
<1> HIDE DEF mv
<1>5. CASE Accepted(board, mv) /\ board' = ApplyMoveProto(board, mv)
  <2>1. board' # None
    BY <1>5 DEF Accepted
  <2>2. MoveStep(board, mv, board')
    BY <1>4, <1>5, <2>1, MoveGood DEF ShipsInv, BoardsGood
  <2>3. ASSUME p \in daemons \ forgot
        PROVE  /\ Honest(board', p, position[p], positionSalt[p], seed0[p])
               /\ aside # None =>
                     Honest(aside, p, position[p], positionSalt[p], seed0[p])
    <3>1. /\ Honest(board, p, position[p], positionSalt[p], seed0[p])
          /\ aside # None =>
                Honest(aside, p, position[p], positionSalt[p], seed0[p])
      BY <2>3 DEF ShipsInv, DaemonsHonest
    <3>2. OwnMove(board, mv, p, position[p], positionSalt[p], seed0[p])
      BY <1>4 DEF OwnMove
    <3>3. QED
      BY <2>2, <3>1, <3>2, MoveHonest DEF Players
  <2>4. seed0 \in [Players -> Seeds \cup {None}]
    BY DEF ShipsInv, DaemonType
  <2>5. QED
    BY <1>1, <1>2, <1>4, <1>5, <2>1, <2>3, <2>4, BoardMoved
<1>6. CASE board' = board
  <2>1. DaemonType' /\ ValidPositions' /\ BoardsGood'
    BY <1>1, <1>6 DEF ShipsInv, DaemonType, ValidPositions, BoardsGood, IsPositionSet
  <2>2. DaemonsHonest' /\ LosesOnlyIfSunk' /\ AbortsExplained'
    BY <1>1, <1>6 DEF ShipsInv, DaemonsHonest, LosesOnlyIfSunk, AbortsExplained,
                      Stuck, CommittedEarly
  <2>3. QED
    BY <2>1, <2>2 DEF ShipsInv
<1>7. QED
  BY <1>1, <1>5, <1>6

LEMMA OtherMoveInv ==
    ASSUME ShipsInv, NEW p \in Players, OtherMove(p)
    PROVE  ShipsInv'
<1>1. /\ p \notin daemons /\ WhoseTurn(board) = p
      /\ UNCHANGED <<daemons, aside, position, positionSalt, seed0, call, fate,
                     revealed, forgot, faults>>
  BY DEF OtherMove, Secrets
<1>2. PICK mv \in OtherMoves : Accepted(board, mv) /\ board' = ApplyMoveProto(board, mv)
  BY DEF OtherMove
<1>3. board' # None /\ board.turn = p /\ mv \in Moves
  <2>1. 0 \notin Players
    BY DEF Players
  <2>2. QED
    BY <1>1, <1>2, <2>1, OtherMovesAre DEF Accepted, WhoseTurn, NO_TURN
<1>4. seed0 \in [Players -> Seeds \cup {None}]
  BY DEF ShipsInv, DaemonType
<1>5. QED
  BY <1>1, <1>2, <1>3, <1>4, BoardMoved

LEMMA SwitchReinitInv ==
    ASSUME ShipsInv, SwitchReinit
    PROVE  ShipsInv'
<1>1. /\ board' = InitialBoardState /\ aside' = board /\ faults' = faults + 1
      /\ board.known_ships = <<>>
      /\ UNCHANGED <<daemons, position, positionSalt, seed0, call, fate, revealed,
                     forgot>>
  BY DEF SwitchReinit, Secrets, Fault
<1>2. GoodBoard(board) /\ Opening(board)
  <2>1. GoodBoard(board)
    BY DEF ShipsInv, BoardsGood
  <2>2. ~Known(board)
    BY <1>1, PairIsSeq DEF Known
  <2>3. QED
    BY <2>1, <2>2 DEF GoodBoard, Fresh, Committed, Seeding, Playing, Revealing, Over
<1>3. GoodBoard(board') /\ Fresh(board') /\ Opening(board')
  BY <1>1, InitialBoard DEF Fresh
<1>4. DaemonType' /\ ValidPositions' /\ BoardsGood'
  <2>1. DaemonType'
    <3>1. DaemonType
      BY DEF ShipsInv
    <3>2. faults' \in Nat
      <4>1. faults \in Nat
        BY <3>1 DEF DaemonType
      <4>2. QED
        BY <1>1, <4>1, OneMoreFault
    <3>3. QED
      BY <1>1, <3>1, <3>2 DEF DaemonType
  <2>2. ValidPositions'
    BY <1>1 DEF ShipsInv, ValidPositions, IsPositionSet
  <2>3. BoardsGood'
    BY <1>1, <1>2, <1>3 DEF BoardsGood
  <2>4. QED
    BY <2>1, <2>2, <2>3
<1>5. DaemonsHonest'
  <2>1. ASSUME NEW q \in daemons \ forgot
        PROVE  /\ Honest(board', q, position[q], positionSalt[q], seed0[q])
               /\ Honest(board, q, position[q], positionSalt[q], seed0[q])
               /\ ~Revealing(board')
    <3>1. Honest(board, q, position[q], positionSalt[q], seed0[q]) /\ q \in Players
      BY DEF ShipsInv, DaemonsHonest, DaemonType
    <3>2. Honest(board', q, position[q], positionSalt[q], seed0[q])
      BY <1>3, FreshHonest
    <3>3. QED
      BY <1>3, <3>1, <3>2, OpeningBoard
  <2>2. QED
    BY <1>1, <2>1 DEF DaemonsHonest
<1>6. LosesOnlyIfSunk' /\ AbortsExplained'
  <2>1. \A q \in daemons : board'.winner # Other(q)
    BY <1>3, OpeningBoard DEF ShipsInv, DaemonType
  <2>2. \A q \in Players : fate[q] = "automove" => q \in forgot
    BY <1>1 DEF ShipsInv, AbortsExplained, Stuck
  <2>3. QED
    BY <1>1, <2>1, <2>2 DEF ShipsInv, LosesOnlyIfSunk, AbortsExplained
<1>7. QED
  BY <1>4, <1>5, <1>6 DEF ShipsInv

LEMMA SwitchBackInv ==
    ASSUME ShipsInv, SwitchBack
    PROVE  ShipsInv'
<1>1. /\ board' = aside /\ aside' = None /\ aside # None /\ faults' = faults + 1
      /\ UNCHANGED <<daemons, position, positionSalt, seed0, call, fate, revealed,
                     forgot>>
  BY DEF SwitchBack, Secrets, Fault
<1>2. GoodBoard(aside) /\ Opening(aside)
  BY <1>1 DEF ShipsInv, BoardsGood
<1>3. DaemonType' /\ ValidPositions' /\ BoardsGood'
  <2>1. DaemonType'
    <3>1. DaemonType
      BY DEF ShipsInv
    <3>2. faults' \in Nat
      <4>1. faults \in Nat
        BY <3>1 DEF DaemonType
      <4>2. QED
        BY <1>1, <4>1, OneMoreFault
    <3>3. QED
      BY <1>1, <3>1, <3>2 DEF DaemonType
  <2>2. ValidPositions'
    BY <1>1 DEF ShipsInv, ValidPositions, IsPositionSet
  <2>3. BoardsGood'
    BY <1>1, <1>2 DEF BoardsGood
  <2>4. QED
    BY <2>1, <2>2, <2>3
<1>4. DaemonsHonest'
  <2>1. ASSUME NEW q \in daemons \ forgot
        PROVE  /\ Honest(aside, q, position[q], positionSalt[q], seed0[q])
               /\ ~Revealing(aside)
    <3>1. Honest(aside, q, position[q], positionSalt[q], seed0[q]) /\ q \in Players
      BY <1>1 DEF ShipsInv, DaemonsHonest, DaemonType
    <3>2. QED
      BY <1>2, <3>1, OpeningBoard
  <2>2. QED
    BY <1>1, <2>1 DEF DaemonsHonest
<1>5. LosesOnlyIfSunk' /\ AbortsExplained'
  <2>1. \A q \in daemons : aside.winner # Other(q)
    BY <1>2, OpeningBoard DEF ShipsInv, DaemonType
  <2>2. \A q \in Players : fate[q] = "automove" => q \in forgot
    BY <1>1 DEF ShipsInv, AbortsExplained, Stuck
  <2>3. QED
    BY <1>1, <2>1, <2>2 DEF ShipsInv, LosesOnlyIfSunk, AbortsExplained
<1>6. QED
  BY <1>3, <1>4, <1>5 DEF ShipsInv

LEMMA RestartInv ==
    ASSUME ShipsInv, NEW p \in Players, Restart(p)
    PROVE  ShipsInv'
<1>1. /\ faults' = MaxFaults /\ forgot' = forgot \cup {p}
      /\ position' = [position EXCEPT ![p] = {}]
      /\ positionSalt' = [positionSalt EXCEPT ![p] = NotDrawn]
      /\ seed0' = [seed0 EXCEPT ![p] = None]
      /\ call' = [call EXCEPT ![p] = [t \in Threads |-> None]]
      /\ fate' = [fate EXCEPT ![p] = "running"]
      /\ UNCHANGED <<daemons, board, aside, revealed>>
  BY DEF Restart
<1>2. DaemonType
  BY DEF ShipsInv
<1>3. DaemonType'
  BY <1>1, <1>2, ChannelAssumption DEF DaemonType, Grids, NotDrawn
<1>4. /\ position'[p] = {}
      /\ \A t \in Threads : call'[p][t] = None
      /\ fate'[p] = "running"
  BY <1>1, <1>2 DEF DaemonType
<1>5. ASSUME NEW q \in Players, q # p
      PROVE  /\ position'[q] = position[q] /\ positionSalt'[q] = positionSalt[q]
             /\ seed0'[q] = seed0[q] /\ call'[q] = call[q] /\ fate'[q] = fate[q]
  BY <1>1, <1>2, <1>5 DEF DaemonType
<1>6. ValidPositions'
  <2>1. ASSUME NEW q \in Players
        PROVE  /\ position'[q] # {} => VerifyPositionOfShips(position'[q])
               /\ \A t \in Threads :
                     call'[q][t] # None => VerifyPositionOfShips(call'[q][t])
    <3>1. CASE q = p
      BY <1>4, <3>1
    <3>2. CASE q # p
      BY <1>5, <3>2 DEF ShipsInv, ValidPositions, IsPositionSet
    <3>3. QED
      BY <3>1, <3>2
  <2>2. QED
    BY <2>1 DEF ValidPositions, IsPositionSet
<1>7. BoardsGood'
  BY <1>1 DEF ShipsInv, BoardsGood
<1>8. DaemonsHonest'
  <2>1. ASSUME NEW q \in daemons \ forgot'
        PROVE  /\ Honest(board, q, position'[q], positionSalt'[q], seed0'[q])
               /\ aside # None => Honest(aside, q, position'[q], positionSalt'[q],
                                         seed0'[q])
               /\ Revealing(board) /\ board.turn = Other(q) => q \in revealed
    <3>1. q \in daemons \ forgot /\ q \in Players /\ q # p
      BY <1>1, <1>2 DEF DaemonType
    <3>2. QED
      BY <1>5, <3>1 DEF ShipsInv, DaemonsHonest
  <2>2. QED
    BY <1>1, <2>1 DEF DaemonsHonest
<1>9. LosesOnlyIfSunk'
  <2>1. ASSUME NEW q \in daemons \ (forgot' \cup revealed), board.winner = Other(q)
        PROVE  position'[q] \subseteq board.known_ships[q].hits
    <3>1. q \in daemons \ (forgot \cup revealed) /\ q \in Players /\ q # p
      BY <1>1, <1>2 DEF DaemonType
    <3>2. QED
      BY <1>5, <2>1, <3>1 DEF ShipsInv, LosesOnlyIfSunk
  <2>2. QED
    BY <1>1, <2>1 DEF LosesOnlyIfSunk
<1>10. AbortsExplained'
  <2>1. ASSUME NEW q \in Players, fate'[q] = "automove"
        PROVE  q \in forgot \/ (Stuck(q) /\ position'[q] = position[q])
    BY <1>4, <1>5, <2>1 DEF ShipsInv, AbortsExplained
  <2>2. QED
    BY <1>1, <2>1 DEF AbortsExplained, Stuck, CommittedEarly
<1>11. QED
  BY <1>3, <1>6, <1>7, <1>8, <1>9, <1>10 DEF ShipsInv

LEMMA NextInv == ShipsInv /\ [Next]_vars => ShipsInv'
<1> SUFFICES ASSUME ShipsInv, [Next]_vars PROVE ShipsInv'
  OBVIOUS
<1>1. CASE UNCHANGED vars
  <2>1. UNCHANGED <<daemons, board, aside, position, positionSalt, seed0, call,
                    fate, revealed, forgot, faults>>
    BY <1>1 DEF vars
  <2>2. DaemonType' /\ ValidPositions' /\ BoardsGood'
    BY <2>1 DEF ShipsInv, DaemonType, ValidPositions, BoardsGood, IsPositionSet
  <2>3. DaemonsHonest' /\ LosesOnlyIfSunk' /\ AbortsExplained'
    BY <2>1 DEF ShipsInv, DaemonsHonest, LosesOnlyIfSunk, AbortsExplained, Stuck,
                CommittedEarly
  <2>4. QED
    BY <2>2, <2>3 DEF ShipsInv
<1>2. CASE Next
  <2>1. ASSUME NEW p \in Players, NEW t \in Threads, NEW g \in OwnPositions,
               SetPositionCall(p, t, g)
        PROVE  ShipsInv'
    BY <2>1, CallInv
  <2>2. ASSUME NEW p \in Players, NEW t \in Threads, SetPosition(p, t)
        PROVE  ShipsInv'
    BY <2>2, SetPositionInv
  <2>2b. ASSUME NEW p \in Players, DrawSalt(p) PROVE ShipsInv'
    BY <2>2b, DrawSaltInv
  <2>3. ASSUME NEW p \in Players, NEW s \in Seeds, NEW signs \in BOOLEAN,
               AutoMove(p, s, signs), Followed
        PROVE  ShipsInv'
    BY <2>3, AutoMoveInv
  <2>4. ASSUME NEW p \in Players, NEW c \in Cells, Shoot(p, c) PROVE ShipsInv'
    BY <2>4, ShootInv
  <2>5. ASSUME NEW p \in Players, RevealPosition(p) PROVE ShipsInv'
    BY <2>5, RevealPositionInv
  <2>6. ASSUME NEW p \in Players, OtherMove(p) PROVE ShipsInv'
    BY <2>6, OtherMoveInv
  <2>7. ASSUME NEW p \in Players, Restart(p) PROVE ShipsInv'
    BY <2>7, RestartInv
  <2>8. CASE SwitchReinit
    BY <2>8, SwitchReinitInv
  <2>9. CASE SwitchBack
    BY <2>9, SwitchBackInv
  <2>10. QED
    BY <1>2, <2>1, <2>2, <2>2b, <2>3, <2>4, <2>5, <2>6, <2>7, <2>8, <2>9 DEF Next
<1>3. QED
  BY <1>1, <1>2

(***************************************************************************)
(* In every state the boards are good and agree with the secrets of every  *)
(* daemon that has kept them: its commitment is to its position, with its  *)
(* salt or, if an automove came between the two writes of SetPosition,     *)
(* with the one from before; its seed and its answers are those it has.    *)
(* This is so whatever the other player sends and however the chain        *)
(* switches between reinitialisations.                                     *)
(***************************************************************************)
THEOREM ShipsInvariant == Spec => []ShipsInv
  BY InitInv, NextInv, PTL DEF Spec

(***************************************************************************)
(* Every board that moves lead to is one that ParseState accepts and       *)
(* ToJson can show.                                                        *)
(***************************************************************************)
THEOREM BoardsAreValid == Spec => []BoardStaysValid
<1>1. ShipsInv => BoardStaysValid
  <2> SUFFICES ASSUME GoodBoard(board) PROVE IsValid(board) /\ ToJsonOK(board)
    BY DEF ShipsInv, BoardsGood, BoardStaysValid
  <2>1. CASE Fresh(board) \/ Committed(board) \/ Seeding(board)
    <3>1. board.known_ships = <<>> /\ board.turn # None
      BY <2>1, Absent DEF Fresh, Committed, Seeding, Opening
    <3>2. ToJsonOK(board)
      BY <3>1 DEF ToJsonOK
    <3>3. IsValid(board)
      BY <2>1, <3>1, PhaseOf DEF IsValid, Fresh, Committed, Seeding
    <3>4. QED
      BY <3>2, <3>3
  <2>2. CASE Playing(board)
    <3>1. Known(board) /\ board.turn \in {1, 2} /\ board.turn # None
      BY <2>2, Absent DEF Playing
    <3>2. ToJsonOK(board)
      BY <3>1 DEF ToJsonOK, Known
    <3>3. IsValid(board)
      BY <2>2, <3>1, PhaseOf DEF IsValid
    <3>4. QED
      BY <3>2, <3>3
  <2>3. CASE Revealing(board)
    <3>1. Known(board) /\ board.turn \in {1, 2} /\ board.turn # None
      BY <2>3, Absent DEF Revealing
    <3>2. ToJsonOK(board)
      BY <3>1 DEF ToJsonOK, Known
    <3>3. board.positions[board.turn] = {} /\ board.positions[Other(board.turn)] # {}
      <4>1. /\ board.positions[board.turn] = {}
            /\ VerifyPositionOfShips(board.positions[Other(board.turn)])
            /\ board.positions[Other(board.turn)] \in Grids
        BY <2>3, TwoPlayers DEF Revealing, Verified
      <4>2. QED
        BY <4>1, LowCellsAssumption
    <3>4. IsValid(board)
      BY <2>3, <3>1, <3>3, PhaseOf DEF IsValid
    <3>5. QED
      BY <3>2, <3>4
  <2>4. CASE Over(board)
    <3>1. Known(board) /\ board.turn = None
      BY <2>4 DEF Over
    <3>2. ToJsonOK(board)
      BY <3>1 DEF ToJsonOK, Known
    <3>3. IsValid(board)
      BY <2>4, <3>1, PhaseOf DEF IsValid
    <3>4. QED
      BY <3>2, <3>3
  <2>5. QED
    BY <2>1, <2>2, <2>3, <2>4 DEF GoodBoard
<1>2. QED
  BY <1>1, ShipsInvariant, PTL

(***************************************************************************)
(* Who keeps the daemon running and does not give up loses only with every *)
(* ship hit, against any opponent.                                         *)
(***************************************************************************)
THEOREM HonestPlayersLoseOnlyIfSunk == Spec => []LosesOnlyIfSunk
<1>1. ShipsInv => LosesOnlyIfSunk
  BY DEF ShipsInv
<1>2. QED
  BY <1>1, ShipsInvariant, PTL

(***************************************************************************)
(* The daemon's CHECKs on its own moves hold as long as the wallet signs,  *)
(* unless the daemon lost its secrets or committed to its position while   *)
(* that was being set.                                                     *)
(***************************************************************************)
THEOREM DaemonChecksHold == Spec => []AbortsOnlyWithoutSecrets
<1>1. ShipsInv => AbortsOnlyWithoutSecrets
  BY DEF ShipsInv, AbortsExplained, Stuck, AbortsOnlyWithoutSecrets
<1>2. QED
  BY <1>1, ShipsInvariant, PTL

(***************************************************************************)
(* Who wins and has revealed a position had placed a fleet and answered    *)
(* every shot truthfully.                                                  *)
(***************************************************************************)
THEOREM WinnersAreHonest == Spec => []WinnerDidNotLie
<1>1. ShipsInv => WinnerDidNotLie
  <2> SUFFICES ASSUME GoodBoard(board), NEW p \in Players,
                      board.winner = p, board.positions[p] # {}
               PROVE  /\ IsFleet(board.positions[p])
                      /\ \A c \in board.known_ships[p].guessed :
                            c \in board.known_ships[p].hits
                               <=> c \in board.positions[p]
    BY DEF ShipsInv, BoardsGood, WinnerDidNotLie
  <2>1. p # None
    BY Absent DEF Players
  <2>2. Over(board)
    BY <2>1 DEF GoodBoard, Fresh, Committed, Seeding, Opening, Playing, Revealing
  <2>3. Verified(board, p) /\ board.positions[p] \in Grids
    BY <2>2, TwoPlayers DEF Over
  <2>4. IsFleet(board.positions[p])
    BY <2>3, ValidPositionsAreFleets DEF Verified
  <2>5. QED
    BY <2>3, <2>4 DEF Verified, VerifyPositionForAnswers
<1>2. QED
  BY <1>1, ShipsInvariant, PTL

(***************************************************************************)
(* Every move of any player that the rules allow raises the turn count,    *)
(* but for the reveal of a position outside the lower half of the grid.    *)
(***************************************************************************)
THEOREM TurnCountsRise == Spec => []MovesRaiseTurnCount
<1>1. ShipsInv => MovesRaiseTurnCount
  <2> SUFFICES ASSUME GoodBoard(board), NEW mv \in OtherMoves,
                      ApplyMoveProto(board, mv) # None
               PROVE  \/ TurnCount(ApplyMoveProto(board, mv)) > TurnCount(board)
                      \/ /\ mv.move = "position_reveal"
                         /\ mv.position \cap LowCells = {}
    BY DEF ShipsInv, BoardsGood, MovesRaiseTurnCount
  <2>1. mv \in Moves
    BY OtherMovesAre
  <2>2. \/ TurnCount(ApplyMoveProto(board, mv)) > TurnCount(board)
        \/ mv \in Reveals /\ mv.position \cap LowCells = {}
    BY <2>1, MoveGood
  <2>3. mv \in Reveals => mv.move = "position_reveal"
    BY DEF Reveals
  <2>4. QED
    BY <2>2, <2>3
<1>2. QED
  BY <1>1, ShipsInvariant, PTL
=============================================================================
