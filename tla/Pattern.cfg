SPECIFICATION Spec
CONSTANTS
    Patterns <- MCPatterns
    Subjects <- MCSubjects
    Compiled <- MCCompiled
    Limits <- MCLimits
    MaxBacktracks = 5
INVARIANTS
    TypeOK
    NeverInventsMatch
    RefusalIsRight
    IdentityReplace
    CapturesSlice
    FindAgrees
PROPERTY
    SearchEnds
CHECK_DEADLOCK FALSE
