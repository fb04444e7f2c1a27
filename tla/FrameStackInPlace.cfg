SPECIFICATION Spec
CONSTANTS
    Stack = {s1}
    Segment = {g1, g2}
    Frame = {f1, f2}
    FramesPerSegment = 2
    MaxSize = 3
    IdxLimit = 8
    UnwindInPlace = TRUE
    nil = nil
PROPERTY
    OperationsRefine
