SPECIFICATION Spec
CONSTANTS
    Workers <- SomeWorkers
    Searchers <- SomeSearchers
    Bodies <- SomeBodies
    Queries <- SomeQueries
    Contexts = {0, 1}
    MaxMatches = 2
    MaxFaults = 2
INVARIANTS
    ReferencesServe
    SearchExact
