SPECIFICATION FairSpec
CONSTANTS
    Responses = {a, b}
    MaxCalls = 3
    TurnTokens = {0, 1}
    ChildTokens = {1}
    ContextTokens = {0, 1}
    MaxIterations = 3
    MaxTokens = 3
    MaxToolCalls = 2
    MaxSteps = 3
    MaxPauses = 1
    MaxCorrections = 1
    MaxRepairs = 1
    Answers = {TRUE, FALSE}
    KeepRejected = {TRUE, FALSE}
    MaxInputs = 1
    MaxResumes = 1
INVARIANTS
    BoundariesValid
    OperationIdentity
    BudgetsHeld
PROPERTIES
    WriteAhead
    CheckpointAdvances
    RunEnds
