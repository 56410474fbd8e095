SPECIFICATION FairSpec
CONSTANTS
    Drivers = 2
    MaxRetries = 2
    MaxAttempts = 2
    MaxEvents = 3
    Causes = {"canceled", "deadline", "steer"}
INVARIANTS
    AttemptsBounded
    StreamsReleased
    FinishedTurnKept
PROPERTIES
    NeverReplayed
    TurnEnds
    LateStreamClosed
