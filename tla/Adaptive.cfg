CONSTANTS
    danger = danger
    cause = cause
    fast = fast
    slow = slow
    quiet = quiet
    Plans <- MCPlans
    Steps = {1, 2}
SPECIFICATION Spec
CHECK_DEADLOCK FALSE
INVARIANTS SamplesAreIndependent PendingEvidenceIsPostHold SuccessIsSafe DangerIsNotWaitedOn HeldEvidenceIsBounded
PROPERTIES LevelsRunOut EveryRunEnds
