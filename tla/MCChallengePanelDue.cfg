CONSTANTS
    Mount = {m1}
    NoMount = NoMount
    Pending = {1, 2}
    Flags = "none"
    Life = 1
    Limited = TRUE
    ShortWindow = 1
    LongWindow = 2
    Cooldown = 1
SPECIFICATION PanelSpec
PROPERTIES
    AutoStopIsDue
