CONSTANTS
    MaxArgs = 2
    MaxParams = 3
SPECIFICATION Spec
CHECK_DEADLOCK FALSE
INVARIANT IntegersArrive
