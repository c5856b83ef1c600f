SPECIFICATION Spec
CONSTANTS
    Participants <- MCParticipants
    Reinits = {t1, t2, t3}
    BoardStates <- MCBoardStates
    BoardMoves = {1, 2}
    WhoseTurn <- MCWhoseTurn
    TurnCount <- MCTurnCount
    IsMove <- MCIsMove
    ApplyMove <- MCApplyMove
    ReinitState <- MCReinitState
    Names = {"a", "b"}
    Winner <- MCWinner
    NoReinit = NoReinit
    NoProof = NoProof
    DISPUTE_BLOCKS = 2
    CHANNEL_TIMEOUT_BLOCKS = 3
    UIntMod = 256
    StartHeight = 1
    MaxHeight = 7
    MaxMoves = 2
SYMMETRY Symmetry
\* Up to the last height.
CHECK_DEADLOCK FALSE
INVARIANTS
    EveryMatchCountsOnce
    NothingOverdue
    PendingIsCurrent
PROPERTIES
    DisputeGetsItsTime
