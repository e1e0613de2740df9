SPECIFICATION FairSpec
CONSTANTS
    JustOnce = FALSE
    None = None
    StopCommands = {"RELOAD_PYTHON"}
    Patience = 1
    MaxCommands = 2
    MaxFaults = 1
    MaxClock = 3
CHECK_DEADLOCK FALSE
INVARIANTS
    IndInv
    CommandReported
    OneMoreJob
    TopCatchesUp
PROPERTIES
    StopEnds
