CONSTANTS
    Companions = {load, noise}
    Primary = fault
    Levels = 3
    MaxInjection = 6
    RecoveryTimeout = 3
    RecoveryTicks = 2
    Horizon = 18
    Forever = 99
SPECIFICATION Spec
CHECK_DEADLOCK FALSE
INVARIANTS CleanWindowIsClean
