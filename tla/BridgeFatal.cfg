CONSTANTS
    Name = {f}
    Limit = 6
    Work = 2
    MaxArgs = 2
    MaxDepth = 5
SPECIFICATION Spec
CHECK_DEADLOCK FALSE
INVARIANTS
    EveryCallReturns
