CONSTANTS
    Char = {"a", "b"}
    Request <- MCRequest
    Base <- MCBase
    NoBase = NoBase
    Limit = 14
    MaxLen = 5
SPECIFICATION FairSpec
CHECK_DEADLOCK FALSE
INVARIANTS
    TypeOK
    InPlace
    Canonical
    ResolvesByTerms
PROPERTIES
    Terminates
