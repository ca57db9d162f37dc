SPECIFICATION HarSpec
CONSTANTS
    a1 = a1
    a2 = a2
    b1 = b1
    b2 = b2
    n = n
    Calls = {a1, a2, b1, b2, n}
    Side <- MCSide
    Id <- MCId
    MaxFiles = 2
    MaxPrunes = 1
    NoCall = nocall
INVARIANT
    OrphansFlushed
CHECK_DEADLOCK FALSE
