SPECIFICATION Spec
CONSTANTS
    Graphs <- MCGraphs
    Pairs <- MCPairs
    Queries <- MCQueries
    Runs <- MCRuns
    Fast <- MCFast
    Guarded <- MCGuarded
    MaxDepth = 5
    MaxQueries = 2
    Truth <- MCTruth
INVARIANTS TypeOK ProvedIsConsistent RefutedIsReal
CHECK_DEADLOCK FALSE
