SPECIFICATION FairSpec
CONSTANTS
    Labels = {1, 2}
    MaxHeight = 3
    Genesis <- Genesis0
    NoBlock = NoBlock
    NoPruning = NoPruning
    BlockQueueSize = 2
    InitTips <- TipsRoot
    BatchSize = 2
    PruneSizes = {1}
    PendingEnabled = TRUE
    AllowInvalidate = FALSE
    MaxMoves = 3
    MaxLosses = 1
    MaxFails = 0
    MaxStops = 0
    MaxEnables = 0
INVARIANTS
    PendingOnCurrentState
    AddedAtMostOnce
PROPERTIES
    EventuallyInSync
    LossRepaired
\* The daemon may fall silent, and then Game has nothing to do.
CHECK_DEADLOCK FALSE
