SPECIFICATION Spec
CONSTANTS
    p1 = p1
    p2 = p2
    Procs = {p1, p2}
    i1 = i1
    i2 = i2
    i3 = i3
    Ids = {i1, i2}
    Legacy = {i1}
    None = None
    Grace = 2
    MaxTime = 2
    Sequential = FALSE
    Faults = FALSE
    Patches = TRUE
SYMMETRY Symmetry
INVARIANT NoHalfEntries
PROPERTY GraceProtects
