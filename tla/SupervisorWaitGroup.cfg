SPECIFICATION Spec
CONSTANTS
    c1 = c1
    c2 = c2
    Conns = {c1}
    MaxReqs = 2
    TokenHolders <- OneHolder
    Notifications <- NoNotification
    Wedged <- NoneWedged
    MaxAgents = 1
    IdleTimeout = 1
    IdleConfigs = {FALSE}
    AcceptMayFail = FALSE
INVARIANTS
    NoWaitGroupReuse
