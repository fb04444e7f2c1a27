SPECIFICATION Spec
CONSTANTS
    Threads = {s1}
    Options <- MCOptions
    FrameSize = 4
    Closures = {c1, c2}
    Upvals = {u1, u2}
    MaxFrames = 2
    MaxLocals = 2
    CallShapes <- MCCallShapes
    Values = {x}
    Nil = Nil
    None = None
INVARIANTS VariablesKept OpenUpvaluesListed
SYMMETRY MCSymmetry
