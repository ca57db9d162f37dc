SPECIFICATION Spec
CONSTANTS
    e1 = e1
    e2 = e2
    Engines = {e1, e2}
    Ext = ext
    Modules = {1, 2, 3}
    Concurrent = 2
    PromptBatch = 2
    Plans <- MCPlans
    MaxRecords = 2
    MaxFaults = 2
    None = none
INVARIANTS
    PanicsReported
CHECK_DEADLOCK FALSE
