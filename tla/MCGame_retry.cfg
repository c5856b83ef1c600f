SPECIFICATION Spec
CONSTANTS
    Labels = {1, 2}
    MaxHeight = 3
    Genesis <- Genesis0
    NoBlock = NoBlock
    NoPruning = NoPruning
    BlockQueueSize = 2
    InitTips <- TipsRoot
    BatchSize = 3
    PruneSizes = {4}
    PendingEnabled = FALSE
    AllowInvalidate = TRUE
    MaxMoves = 2
    MaxLosses = 0
    MaxFails = 1
    MaxStops = 1
    MaxEnables = 1
INVARIANTS
    HeightCacheCorrect
    UpToDateIsDurable
\* The daemon may fall silent, and then Game has nothing to do.
CHECK_DEADLOCK FALSE
