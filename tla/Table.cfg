SPECIFICATION Spec
CONSTANTS
    MaxArrayIndex = 6
    MaxArrayGap = 2
    MaxLen = 5
    MaxHash = 2
    Strings = {"a"}
    Refs = {r1}
    Values = {v1}
    Nil = Nil
    Dead = Dead
INVARIANTS LenIsBorder CallsConform TraversalExact OrderIsBounded
