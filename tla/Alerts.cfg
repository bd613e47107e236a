SPECIFICATION Spec
CONSTANTS
    p1 = p1
    p2 = p2
    None = None
    Keep = Keep
    Polls = {p1, p2}
    Rules = {"r1"}
    Refs = {"park"}
    Modes = {}
    Callsigns = {"call"}
    Dates = {0, 2}
    Thresholds = {1}
    Window = 2
    Retention = 1
    MaxFeed = 2
    MaxTime = 2
    MaxJobs = 3
    MaxRequests = 2
SYMMETRY Symmetry
CHECK_DEADLOCK FALSE
INVARIANTS
    
    WarningsSpaced
