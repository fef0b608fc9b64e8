CONSTANTS
    MaxArgs = 2
    MaxParams = 3
SPECIFICATION Spec
CHECK_DEADLOCK FALSE
INVARIANTS
    TypeOK
    OwnWords
    CallsFit
    ErrorsCross
    BlockFreed
