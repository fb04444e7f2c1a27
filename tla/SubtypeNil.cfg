SPECIFICATION Spec
CONSTANTS
    Graphs <- NilGraphs
    Pairs <- NilPairs
    Queries <- NilQueries
    Runs <- NilRuns
    Fast <- MCFast
    Guarded <- MCGuarded
    MaxDepth = 2
    MaxQueries = 1
    Truth <- NilTruth
INVARIANTS ProvedIsConsistent
CHECK_DEADLOCK FALSE
