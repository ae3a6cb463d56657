CONSTANTS
    Challenge = {c1}
    MaxLimit = 1
    Entry <- CacheEntry
    NoEntry = NoEntry
    MaxNs = 2
    Req = {r1}
    MaxRunning = 1
    QueueMax = 1
    MaxDeploy = 0
    MaxEvents = 1
    MaxRows = 1
    May = {"stop", "cron"}
    Window = {1, 2, 3}
    MaxLate = 1
    MaxBox = 1
SPECIFICATION LiveSpec
PROPERTIES
    RunningEnds
    QueueMoves
    OneMasterAtLast
CHECK_DEADLOCK FALSE
