SPECIFICATION FairSpec
CONSTANTS
    Callers = {c1, c2}
    Sizes = {2, 3}
    MaxQueue = 2
    MaxInputSize = 2
    MaxQueueBytes = 4
    MaxTurns = 2
    MaxRecoveries = 1
    MaxInputs = 3
INVARIANTS
    QueueBounded
    AdmissionOrder
    CompletionConsumesInput
    NoMissedSteer
PROPERTIES
    ImplementsInputDelivery
    EveryInputAnswered
    RunEnds
