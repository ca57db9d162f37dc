SPECIFICATION FairSpec
CONSTANTS
    d1 = d1
    d2 = d2
    d3 = d3
    c1 = c1
    c2 = c2
    Ghost = ghost
    None = none
    Daemons = {d1, d2, d3}
    Clients = {c1, c2}
    StartFaults = {"token", "bind"}
    MayStop = {d1, d2, d3}
    MayCrash = {d1, d2, d3}
    MayGiveUp = TRUE
INVARIANTS
    EndpointOwned
    TokenOwned
    RightToken
PROPERTIES
    RacesHarmless
