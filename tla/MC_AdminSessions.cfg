SPECIFICATION Spec
CONSTANTS
    Workers = {w1, w2}
    Requests = {r1, r2}
    Tokens = {t1, t2}
    Versions = {v1, v2}
    MaxSessions = 1
    Idle = 2
    Absolute = 2
    Touch = 1
    Lag = 1
    MaxClock = 2
SYMMETRY Symmetry
INVARIANTS
    IInv
    EndedRefused
    SessionsCurrent
CHECK_DEADLOCK FALSE
