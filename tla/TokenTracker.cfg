SPECIFICATION FairSpec
CONSTANTS
    Dispatches = {{c1, c2}, {c3}}
    Total = 2
    Requests = {0, 1}
    MaxUsage = 3
INVARIANTS
    AllowanceHeld
    NoLostWakeup
    RefusedOnlyWhenSpent
PROPERTY EveryCallEnds
