SPECIFICATION FairSpec
CONSTANTS
    Topics <- MCTopics
    Listened <- MCListened
    SocketOf <- MCSocketOf
    NumSockets = 2
    SeqModulus = 3
    MaxGap = 2
    MaxPublished <- MCPublished
    MaxStarts = 2
PROPERTIES
    LinkImplemented
    StopReturns
\* The publisher may fall silent, and the subscriber stay stopped.
CHECK_DEADLOCK FALSE
