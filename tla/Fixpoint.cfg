SPECIFICATION Spec
CONSTANTS
    chunk = chunk
    f = f
    h = h
    Graphs = {chunk, f, h}
    Root = chunk
    Parent <- MCParent
    Order <- MCOrder
    Callees <- MCCallees
    Refines = {f}
    Types = {t}
    Refinements = {r}
    None = None
    Rounds = 3
INVARIANTS ResultsAreCurrent ConvergedIsFixpoint
CHECK_DEADLOCK FALSE
