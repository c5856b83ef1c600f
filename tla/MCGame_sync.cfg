SPECIFICATION Spec
CONSTANTS
    Labels = {1, 2}
    MaxHeight = 4
    Genesis <- Genesis1
    NoBlock = NoBlock
    NoPruning = NoPruning
    BlockQueueSize = 2
    InitTips <- TipsRoot
    BatchSize = 1
    PruneSizes = {1, 2}
    PendingEnabled = FALSE
    AllowInvalidate = FALSE
    MaxMoves = 3
    MaxLosses = 1
    MaxFails = 0
    MaxStops = 1
    MaxEnables = 2
INVARIANTS
    StateCorrect
    UpToDateMeansTip
    NoUnexpectedState
    CatchUpBacked
PROPERTIES
    PruneKeepsBlocks
\* The daemon may fall silent, and then Game has nothing to do.
CHECK_DEADLOCK FALSE
