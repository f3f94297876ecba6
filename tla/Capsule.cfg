CONSTANTS
    Mechanisms = {1, 2, 3}
    Defective = {1}
    Targets = {"approved", "changed"}
    Missing = Missing
    MaxDeploys = 3
    MaxFaults = 2
SPECIFICATION Spec
INVARIANTS HistoryIsComplete CapsuleStaysWhole
PROPERTIES DirtyRunIsFreed
CHECK_DEADLOCK FALSE
