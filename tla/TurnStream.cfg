SPECIFICATION FairSpec
CONSTANTS
    Frags <- ThreeCalls
    Modes <- AllModes
    MaxContent = 4
    SafeSets <- SomeSafe
    Rooms = {2, 3}
INVARIANTS
    ResponseAssembled
    OneExecution
    RanIsFinal
    TurnIsJoined
PROPERTIES
    ImplementsEventStream
CHECK_DEADLOCK FALSE
