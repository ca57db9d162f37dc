SPECIFICATION McpSpec
CONSTANTS
    c1 = c1
    Servers = {1, 2}
    Cleaners = {c1}
    Pids = {1, 2}
    Callers = {1}
    Timed = {1}
    MaxLive = 1
    MaxFaults = 1
    Nothing = nothing
PROPERTY
    IdleMeansIdle
CHECK_DEADLOCK FALSE
