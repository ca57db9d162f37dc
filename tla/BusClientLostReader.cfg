SPECIFICATION FairSpec
CONSTANTS
    Calls = {c1, c2}
    c1 = c1
    c2 = c2
    None = None
    BufLen = 1
    Oversized = {c1}
    Wedged = {}
    MayCancel = {}
    MayClose = FALSE
    PeerCloses = FALSE
    MayDrain = FALSE
PROPERTY EveryCallReturns
CHECK_DEADLOCK FALSE
