SPECIFICATION Spec
CONSTANTS
    Patterns <- Pieces
    Subjects <- MCSubjects
    Compiled <- PiecesCompiled
    Limits = {0, 1}
    MaxBacktracks = 5
INVARIANTS
    FindAgrees
CHECK_DEADLOCK FALSE
