SPECIFICATION Spec
CONSTANTS
    Initial = 2
    Sizes = {1}
    Signals <- AllSignals
    Capacity = 3
    EarlyDeath = FALSE
    ForkMayFail = FALSE
    ExecMayFail = FALSE
    Earlier = {130}
    MaxObjs = 3
    MaxPids = 4
    MaxSignals = 2
    MaxCrashes = 1
    MaxReboots = 0
INVARIANT
    ForceNeedsTwo
CHECK_DEADLOCK FALSE
