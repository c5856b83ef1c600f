SPECIFICATION Spec
CONSTANTS
    Labels = {1, 2}
    MaxHeight = 3
    Genesis <- Genesis0
    NoBlock = NoBlock
    NoPruning = NoPruning
    BlockQueueSize = 2
    InitTips <- TipsRoot
    BatchSize = 3
    PruneSizes = {4}
    PendingEnabled = FALSE
    AllowInvalidate = FALSE
    MaxMoves = 3
    MaxLosses = 0
    MaxFails = 1
    MaxStops = 0
    MaxEnables = 1
INVARIANTS
    PruningCheckHolds
\* The daemon may fall silent, and then Game has nothing to do.
CHECK_DEADLOCK FALSE
