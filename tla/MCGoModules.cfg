SPECIFICATION Spec
CONSTANTS
    Proc = {p1, p2}
    Addr = {a1, a2}
    Nil = Nil
    MaxKeys = 5
    MaxMethods = 1
SYMMETRY MCSymmetry
INVARIANTS
    TypeOK
    LiveObjectsHaveTheirKeys
    FinalizersFindTheirLoader
    FirstLoaderIsMine
    KeysAreOwned
    OnlyHeirsPanic
CHECK_DEADLOCK FALSE
