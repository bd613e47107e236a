SPECIFICATION InfraSpec
CONSTANTS
    Workers = {w1, w2, w3}
    MaxCalls = 2
    Threshold = 2
    Recovery = 2
    LockWait = 1
    Callers = {c1, c2, c3}
    RPS = 1
    Retained = 1
    Patience = 1
    MaxSeconds = 3
    MaxAsks = 4
CHECK_DEADLOCK FALSE
INVARIANTS
    RowConsistent
    SingleProbe
    RateKept
PROPERTIES
    RecoveryKept
    NeverStuck
