SPECIFICATION Spec
CONSTANTS
    eager = eager
    optional = optional
    Skills <- SomeSkills
    Eager <- EagerSkills
    RecentTurns = 1
    Modes = {"memory", "fit"}
    Examples = {TRUE, FALSE}
    Origins = {"responses", "anthropic"}
    MaxMessages = 5
    MaxInputs = 2
    MaxOverflows = 2
    MaxResumes = 1
INVARIANTS
    SkillsVisible
    NothingForgotten
    RequestEndsKept
    CallsPaired
PROPERTIES
    EvidenceKept
CHECK_DEADLOCK FALSE
