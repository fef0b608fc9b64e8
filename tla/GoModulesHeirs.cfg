SPECIFICATION Spec
CONSTANTS
    Proc = {p1, p2}
    Addr = {a1, a2}
    Nil = Nil
    MaxKeys = 5
    MaxMethods = 1
SYMMETRY MCSymmetry
INVARIANT FinalizedAtItsEnd
CHECK_DEADLOCK FALSE
