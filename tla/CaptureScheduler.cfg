CONSTANTS
    Runs = {calibration, evaluation}
    Evaluations = {evaluation}
    MaxAttempts = 2
    MaxDrift = 1
    MaxCrashes = 1
    MaxFaults = 1
SPECIFICATION Spec
CHECK_DEADLOCK FALSE
INVARIANTS OneModelPerRun ExportsAreAccountedFor
PROPERTIES JobsAreKept JobsEnd LoopGetsOn
