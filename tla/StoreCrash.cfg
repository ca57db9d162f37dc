SPECIFICATION Spec
CONSTANTS
    p1 = p1
    p2 = p2
    Procs = {p1}
    i1 = i1
    i2 = i2
    i3 = i3
    Ids = {i1, i2, i3}
    Legacy = {i1, i2}
    None = None
    Grace = 1
    MaxTime = 2
    Sequential = TRUE
    Faults = TRUE
    Patches = FALSE
SYMMETRY Symmetry
INVARIANT Durable
PROPERTY Recovers
