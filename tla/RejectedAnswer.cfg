SPECIFICATION Spec
CONSTANTS
    Responses = {a}
    MaxCalls = 1
    TurnTokens = {1}
    ChildTokens = {1}
    ContextTokens = {0}
    MaxIterations = 3
    MaxTokens = 0
    MaxToolCalls = 0
    MaxSteps = 0
    MaxPauses = 1
    MaxCorrections = 1
    MaxRepairs = 0
    Answers = {TRUE}
    KeepRejected = {FALSE}
    MaxInputs = 0
    MaxResumes = 0
INVARIANT AllBoundariesValid
