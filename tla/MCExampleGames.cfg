SPECIFICATION Spec
CONSTANTS
    MaxAmount = 2
    UnprintableNames = {"bad"}
    MoverMoves <- MCMoverMoves
    AssetMoves <- MCAssetMoves
    MaxBlocks = 3
    MaxMoves = 5
INVARIANTS
    UndoRestoresState
    PendingForetellsBlock
\* Nothing is followed from a spoiled state on.
CHECK_DEADLOCK FALSE
