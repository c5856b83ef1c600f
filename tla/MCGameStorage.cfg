SPECIFICATION Spec
CONSTANTS
    Labels = {"a", "b"}
    MaxHeight = 3
    Genesis <- MCGenesis
    NoBlock = NoBlock
    Readers = {r1}
    BatchSize = 2
    KeepBlocks = 1
    InitialMap = 4
    MaxTips = 1
    MaxStops = 2
\* With the chain settled and followed, nothing is left to do.
CHECK_DEADLOCK FALSE
INVARIANTS
    ContentMatchesBlock
    UndoRestoresParent
    CommittedIsDurable
    ReadersSeeTheirBlock
PROPERTIES
    FollowsOrKeepsTerminating
