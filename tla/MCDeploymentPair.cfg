CONSTANTS
    Challenge = {c1, c2}
    MaxLimit = 1
    Entry <- CacheEntry
    NoEntry = NoEntry
    MaxNs = 2
    Req = {r1}
    MaxRunning = 1
    QueueMax = 1
    MaxDeploy = 0
    MaxEvents = 1
    MaxRows = 2
    May = {"stop"}
SPECIFICATION Spec
INVARIANTS
    ReadyIsObserved
    AliveWithinLimit
CHECK_DEADLOCK FALSE
