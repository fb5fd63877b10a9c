SPECIFICATION FairSpec
CONSTANTS
    Initial = 2
    Sizes = {1}
    Signals <- SomeSignals
    Capacity = 8
    EarlyDeath = FALSE
    ForkMayFail = TRUE
    ExecMayFail = FALSE
    Earlier = {0, 130}
    MaxObjs = 3
    MaxPids = 4
    MaxSignals = 2
    MaxCrashes = 1
    MaxReboots = 0
PROPERTIES
    DeadReplaced
    StopHonoured
CHECK_DEADLOCK FALSE
