SPECIFICATION FairSpec
CONSTANTS
    Runs = {r1, r2}
    Loads <- SharedLoads
    Definition <- Tools
    Artifacts = {"search"}
    Workers = 2
INVARIANTS
    NotExecutedIsTrue
    BarriersHold
    EveryCallAccounted
    LimitersExact
PROPERTY EveryBatchEnds
