CONSTANTS
    Thread = {t1, t2}
    Bridge = {b1, b2, b3}
    NoThread = NoThread
    MaxDepth = 6
SYMMETRY MCSymmetry
SPECIFICATION Spec
CHECK_DEADLOCK FALSE
INVARIANTS
    EnvDestroyedOnce
    OneThreadIsSafe
