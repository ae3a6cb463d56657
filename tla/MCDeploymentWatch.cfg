CONSTANTS
    Challenge = {c1}
    MaxLimit = 1
    Entry <- CacheEntry
    NoEntry = NoEntry
    MaxNs = 1
    Req = {r1}
    MaxRunning = 1
    QueueMax = 1
    MaxDeploy = 0
    MaxEvents = 1
    MaxRows = 1
    May = {"watch", "restart", "stop", "cron", "touch", "status"}
SPECIFICATION Spec
INVARIANTS
    StoppedIsGone
CHECK_DEADLOCK FALSE
