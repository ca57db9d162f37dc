SPECIFICATION FairSpec
CONSTANTS
    c1 = c1
    c2 = c2
    Conns = {c1}
    MaxReqs = 2
    TokenHolders <- OneHolder
    Notifications <- OneNotification
    Wedged <- OneNotification
    MaxAgents = 1
    IdleTimeout = 1
    IdleConfigs = {TRUE, FALSE}
    AcceptMayFail = TRUE
INVARIANTS
    PoolOutlivesHandlers
    CleanHandover
    ExitAfterTeardown
    AnswersSurviveExit
PROPERTIES
    StopCompletes
    ClientsServed
