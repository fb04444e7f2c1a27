SPECIFICATION Spec
CONSTANTS
    Threads = {t1}
    Inputs = {"i"}
    Queries = {"sum"}
    Values = {0, 1, 2}
    Zero = 0
    None = None
    NextRead <- LazyRead
    Combine <- LazyCombine
    Widen <- Larger
    Widens = {}
    Panicky = {}
    Exclusive = TRUE
    MaxIter = 4
    MaxRevision = 3
INVARIANTS AnswerIsFromSeed
