SPECIFICATION Spec
CONSTANTS
    Callers = {c1}
    Sizes = {1}
    MaxQueue = 2
    MaxInputSize = 2
    MaxQueueBytes = 3
    MaxTurns = 2
    MaxRecoveries = 1
    MaxInputs = 2
INVARIANT StartedToolsKeepResults
