SPECIFICATION Spec
CONSTANTS
    Initial = 2
    Sizes = {1}
    Signals <- AllSignals
    Capacity = 3
    EarlyDeath = TRUE
    ForkMayFail = TRUE
    ExecMayFail = TRUE
    Earlier = {0, 129}
    MaxObjs = 3
    MaxPids = 4
    MaxSignals = 2
    MaxCrashes = 1
    MaxReboots = 1
INVARIANTS
    NoLostChild
    GoneAtExit
    ForceOnlyWrapped
    ExitOnRequest
CHECK_DEADLOCK FALSE
CONSTRAINT NoRace
