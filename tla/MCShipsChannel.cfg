SPECIFICATION Spec
CONSTANTS
    SIDE = 2
    AVAILABLE_SHIPS <- MCFleet
    None = None
    Malformed = Malformed
    Seeds = {s1, s2}
    StartingPlayer <- MCStartingPlayer
    LowCells <- MCLowCells
    Threads = {t1, t2}
    OwnPositions <- MCOwnPositions
    OtherPositions <- MCOtherPositions
    MaxFaults = 2
SYMMETRY Symmetry
\* The game may be over.
CHECK_DEADLOCK FALSE
INVARIANTS
    BoardStaysValid
    LosesOnlyIfSunk
    WinnerDidNotLie
    AbortsOnlyWithoutSecrets
    MovesRaiseTurnCount
    PositionsAreFleets
