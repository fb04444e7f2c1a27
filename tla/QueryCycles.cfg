SPECIFICATION FairSpec
CONSTANTS
    Threads = {t1}
    Inputs = {"i", "j"}
    Queries = {"sum", "wheel", "view"}
    Values = {0, 1, 2}
    Zero = 0
    None = None
    NextRead <- SelfRead
    Combine <- SelfCombine
    Widen <- Larger
    Widens = {"sum"}
    Panicky = {"wheel"}
    Exclusive = TRUE
    MaxIter = 3
    MaxRevision = 3
INVARIANTS AnswerIsFixpoint
PROPERTIES GetReturns
