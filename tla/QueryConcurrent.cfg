SPECIFICATION Spec
CONSTANTS
    Threads = {t1}
    Inputs = {"i", "j"}
    Queries = {"base", "mid"}
    Values = {0, 1}
    Zero = 0
    None = None
    NextRead <- ChainRead
    Combine <- ChainCombine
    Widen <- Larger
    Widens = {}
    Panicky = {}
    Exclusive = FALSE
    MaxIter = 4
    MaxRevision = 3
INVARIANTS VerifiedIsFresh
