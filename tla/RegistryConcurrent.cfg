SPECIFICATION FairSpec
CONSTANTS
    t1 = t1
    t2 = t2
    a1 = a1
    a2 = a2
    s1 = s1
    s2 = s2
    w1 = w1
    w2 = w2
    Reaper = reaper
    None = none
    Threads = {t1, t2}
    Agents = {a1, a2}
    Sessions = {s1}
    Workspaces = {w1, w2}
    Apps = {app1}
    ConnectWs = {w1}
    Silent = {s1}
INVARIANTS
    RowsConsistent
PROPERTIES
    NoResurrection
    StaleReaped
