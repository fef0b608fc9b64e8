CONSTANTS
    Name = {x, y}
    MaxLoads = 3
    MaxDepth = 3
SPECIFICATION Spec
CHECK_DEADLOCK FALSE
SYMMETRY Symmetric
INVARIANTS
    TypeOK
    OneCopy
    RequirersAgree
    PartialOnlyWhileLoading
    LibrariesBalanced
