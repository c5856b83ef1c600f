SPECIFICATION Spec
CONSTANTS
    EndNumber = 2
    AutoFrom = 1
    MaxAdd = 2
    Participants <- MCParticipants
    Reinits = {r1, r2}
    BoardStates <- AdditionStates
    BoardMoves <- AdditionMoves
    WhoseTurn <- AdditionWhoseTurn
    TurnCount <- AdditionTurnCount
    IsMove <- AdditionIsMove
    ApplyMove <- AdditionApplyMove
    ReinitState <- MCReinitState
    HasAutoMove <- AdditionHasAutoMove
    AutoMove <- AdditionAutoMove
    IsFinal <- AdditionIsFinal
    InputPlayers = {2}
    MaxAutoMoves = 2
    NoReinit = NoReinit
    NoEntry = NoEntry
    NoTx = NoTx
    NoDispute = NoDispute
    NoChannel = NoChannel
    NoSnapshot = NoSnapshot
    MaxRequests = 0
    FaultKinds = {"reorg", "drop", "send", "sign", "restart"}
    MaxFaults = 1
SYMMETRY Symmetry
\* The game may be over, and the bounds on requests and faults used up.
CHECK_DEADLOCK FALSE
INVARIANTS
    ProofsVerify
    AgreeOnMoves
