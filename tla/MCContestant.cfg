CONSTANTS
    Challenge = {c1, c2, c3}
    MaxLimit = 2
    Entry = {e1, e2}
    NoEntry = none
    ProvisioningTtl = 1
    ZsetCreateTtl = 2
    ZsetMargin = 4
    UpdateTtl <- ShortUpdateTtl
    CacheTtl = 1
    User = {u1}
    Req = {r1, r2, r3}
    MaxAttempts = 2
    Cooldown = 1
    CoolTtl = 2
    KpmLimit = 2
    Dynamic = {TRUE, FALSE}
    May = {"db", "stop", "expiry"}
    Contest = {k1}
    Buyer = {b1, b2}
    h1 = h1
    h2 = h2
    h3 = h3
    Hint = {h1, h2, h3}
    Cost <- CostDef
    Prereqs <- PrereqsDef
    Free = Free
    MaxPoints = 5
    LockMay = {"overrun", "crash", "db"}
SYMMETRY Symmetry
SPECIFICATION ContestantSpec
INVARIANTS
    ServicesTypeOK
    HeldWithinLimit
    NoZombieEntry
    FailsWithinMax
    CounterAccounts
    CorrectIsTold
    FinishedIsStopped
    LockIsKept
    OneUnlock
    PrereqsFirst
PROPERTIES
    PoolSafety
    ShopSafety
    ImplementsDeployRedis
    CooldownHolds
