CONSTANTS
    Func = {f1, f2}
    Time = {t1, t2, t3}
    MaxSaves = 4
    MaxDepth = 6
    Absent = Absent
SYMMETRY Interchangeable
SPECIFICATION Spec
INVARIANTS
    FunctionPassedIsCalled
