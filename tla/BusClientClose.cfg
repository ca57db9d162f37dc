SPECIFICATION Spec
CONSTANTS
    Calls = {c1, c2}
    c1 = c1
    c2 = c2
    None = None
    BufLen = 1
    Oversized = {}
    Wedged = {}
    MayCancel = {}
    MayClose = TRUE
    PeerCloses = TRUE
    MayDrain = TRUE
SYMMETRY CallSymmetry
PROPERTY PendingGetServerGone
