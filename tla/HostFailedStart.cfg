SPECIFICATION Spec
CONSTANTS
    d1 = d1
    d2 = d2
    d3 = d3
    c1 = c1
    c2 = c2
    Ghost = ghost
    None = none
    Daemons = {d1, d2}
    Clients = {c1, c2}
    StartFaults = {"bind"}
    MayStop = {}
    MayCrash = {}
    MayGiveUp = TRUE
INVARIANTS
    TokenKept
