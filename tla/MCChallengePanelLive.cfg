CONSTANTS
    Mount = {m1}
    NoMount = NoMount
    Pending = {1, 2}
    Flags = "alone"
    Life = 1
    Limited = TRUE
    ShortWindow = 1
    LongWindow = 1
    Cooldown = 0
SPECIFICATION FairPanelSpec
INVARIANTS
    CheckingIsAttended
PROPERTIES
    LoopEnds
    StoredTimerEnds
