SPECIFICATION FairSpec
CONSTANTS
    Calls = {c1, c2}
    c1 = c1
    c2 = c2
    None = None
    BufLen = 1
    Oversized = {c1, c2}
    Wedged = {c1}
    MayCancel = {c1, c2}
    MayClose = TRUE
    PeerCloses = TRUE
    MayDrain = TRUE
INVARIANT TableSound
PROPERTY ImplementsRpc
PROPERTY CallsReturn
