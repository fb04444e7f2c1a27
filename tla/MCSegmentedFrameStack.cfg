SPECIFICATION Spec
CONSTANTS
    Stack = {s1, s2}
    Segment = {g1, g2, g3}
    Frame = {f1, f2}
    FramesPerSegment = 2
    MaxSize = 3
    IdxLimit = 8
    UnwindInPlace = FALSE
    nil = nil
SYMMETRY Symmetry
INVARIANTS
    TypeOK
    SegmentsExclusive
    FrameIdxIsPosition
PROPERTY
    RefinesFrameStack
    OperationsRefine
