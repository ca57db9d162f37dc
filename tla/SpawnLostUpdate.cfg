SPECIFICATION Spec
CONSTANTS
    Procs = {p1, p2, p3, p4}
    p1 = p1
    p2 = p2
    p3 = p3
    p4 = p4
    Window = 2
    Keep = 3
    MaxTime = 3
SYMMETRY ProcSymmetry
PROPERTY CountsUnderOverlap
CHECK_DEADLOCK FALSE
