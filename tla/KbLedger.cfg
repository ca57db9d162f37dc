SPECIFICATION Spec
CONSTANTS
    A = A
    B = B
    C = C
    w1 = w1
    w2 = w2
    w3 = w3
    None = none
    Workers = {w1, w2, w3}
    Kbs = {A, B, C}
    Shas <- MCShas
    Jobs <- MCJobs
    Old <- MCOld
    OldHome <- MCHome
    OldEpoch <- MCEpoch
    OldSha <- MCSha
SYMMETRY Symmetry
CHECK_DEADLOCK FALSE
INVARIANTS
    EpochsSerial
    LostOnlyInWindow
    DeadlockOnlyInCircles
PROPERTIES
    HistoryRefined
