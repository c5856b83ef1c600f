SPECIFICATION RunSpec
CONSTANTS
    Waiters = {w1}
    ZmqThread = worker
    Blocks = {b1, b2}
    NoBlock = NoBlock
    MaxVersion = 2
    MaxStops = 2
    Main = Main
    StopThreads = {rpc}
    SignalThreads = {Main, rpc, worker}
    Unset = Unset
    MaxRequests = 1
    MaxSignals = 2
    MaxRuns = 2
    MaxTold = 2
INVARIANTS
    StopWakesWaiters
    NoMissedChange
PROPERTIES
    StopHonoured
\* Run need not be called again.
CHECK_DEADLOCK FALSE
