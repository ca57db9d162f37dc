SPECIFICATION Spec
CONSTANTS
    p1 = p1
    p2 = p2
    Procs = {p1, p2}
    i1 = i1
    i2 = i2
    i3 = i3
    Ids = {i1, i2, i3}
    Legacy = {i1}
    None = None
    Grace = 1
    MaxTime = 1
    Sequential = FALSE
    Faults = FALSE
    Patches = FALSE
SYMMETRY Symmetry
INVARIANT StoredKept
