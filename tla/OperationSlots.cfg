SPECIFICATION Spec
CONSTANTS
    Frags <- ThreeCalls
    Modes <- AllModes
    MaxContent = 4
    SafeSets <- SomeSafe
    Rooms = {2, 3}
INVARIANT OperationSlots
CHECK_DEADLOCK FALSE
