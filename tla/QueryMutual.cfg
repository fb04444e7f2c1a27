SPECIFICATION Spec
CONSTANTS
    Threads = {t1}
    Inputs = {"i"}
    Queries = {"ping", "pong"}
    Values = {0, 1, 2}
    Zero = 0
    None = None
    NextRead <- MutualRead
    Combine <- LazyCombine
    Widen <- Larger
    Widens = {}
    Panicky = {}
    Exclusive = TRUE
    MaxIter = 4
    MaxRevision = 3
INVARIANTS AnswerIsFixpoint
