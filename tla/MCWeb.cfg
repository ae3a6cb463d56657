CONSTANTS
    Slot = {1, 2}
    MaxMoves = 6
    Challenge = {1, 2, 3}
    Category = {1, 2}
    CategoryOf <- CategoryOfDef
    Bank <- BankDef
    Prereq <- PrereqDef
    Anonymized = {3}
    Hint = {1, 2}
    Pdf = {1, 2}
    Window = {w1, w2}
    Contest = {1, 2}
    Bracket = {1}
    Rows = {0, 7, 8, 9, 10}
    PerPage = {1, 2}
    Item = {1, 2}
    Password = {0, 1, 2, 3}
    Strong = {2, 3}
    Logs = {0, 3}
    LogRows = {1, 2}
    Entry = {1, 2}
    Word = {0, 1, 2}
    Row = {1, 2}
    MaxChecks = 2
    Loops = {1, 2}
    Key = {1, 2, 3, 4}
    Zone = {"utc", "hcm"}
    Offset <- OffsetDef
    Instant = {2, 3, 4}
    CacheAge = 1
    Ages = {0, 1, 2, 3}
    OpenTab = {w1, w2}
    Plan <- PlanDef
    MaxNow = 3
    Expiry = 1
SPECIFICATION WebSpec
INVARIANTS
    ServedIsOpen
    LocksAreShown
    PaidIsAgreed
    ButtonsAreFreed
    UserIsOfToken
    FlagsAreAttended
    PagesExist
    SentIsStrong
    HiddenIsSelected
    AdminIsAttended
    RemovedWasNamed
    ChecksTellOnce
    VersionFollowsOptions
    GoneIsDeleted
    FormWasEnabled
CHECK_DEADLOCK FALSE
