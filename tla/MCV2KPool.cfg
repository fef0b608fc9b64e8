CONSTANTS
    Client = {c1, c2}
    Val = {v1, v2}
    Time <- MCTime
    MaxCalls = 3
    Nil = Nil
    Err = Err
    None = None
SPECIFICATION FairSpec
CHECK_DEADLOCK FALSE
INVARIANTS
    TypeOK
    AnswerGoesToAsker
    SomebodyWaits
    MapsAgree
PROPERTIES
    KeysKept
    CallsReturn
    AtomicTable
