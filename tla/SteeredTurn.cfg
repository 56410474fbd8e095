SPECIFICATION Spec
CONSTANTS
    Drivers = 1
    MaxRetries = 1
    MaxAttempts = 1
    MaxEvents = 3
    Causes = {"steer"}
INVARIANTS
    EveryFinishedTurnKept
