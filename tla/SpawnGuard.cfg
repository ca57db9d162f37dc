SPECIFICATION Spec
CONSTANTS
    Procs = {p1, p2, p3, p4}
    p1 = p1
    p2 = p2
    p3 = p3
    p4 = p4
    Window = 1
    Keep = 2
    MaxTime = 2
SYMMETRY ProcSymmetry
PROPERTY GuardCounts
PROPERTY HistoryReadable
CHECK_DEADLOCK FALSE
