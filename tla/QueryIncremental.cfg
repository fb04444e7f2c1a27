SPECIFICATION Spec
CONSTANTS
    Threads = {t1, t2}
    Inputs = {"i", "j"}
    Queries = {"base", "mid", "top"}
    Values = {0, 1}
    Zero = 0
    None = None
    NextRead <- ChainRead
    Combine <- ChainCombine
    Widen <- Larger
    Widens = {}
    Panicky = {"base"}
    Exclusive = TRUE
    MaxIter = 3
    MaxRevision = 3
INVARIANTS TypeOK AnswerIsFresh VerifiedIsFresh InProgressIsComputing
SYMMETRY ThreadSymmetry
