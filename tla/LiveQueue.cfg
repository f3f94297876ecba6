CONSTANTS
    Setups <- MCSetups
    MaxItems = 2
    MaxRetries = 1
    MaxAttempts = 2
    MaxRestarts = 1
SPECIFICATION Spec
INVARIANTS TypeOK OnlyProvenRunsAreDone ReRunsAreAccountedFor
PROPERTIES AcceptedRunIsNotRepeated CaseHasItsTopology ImplementsSequence QueueSettles
CHECK_DEADLOCK FALSE
