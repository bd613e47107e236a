SPECIFICATION Spec
CONSTANTS
    p1 = p1
    p2 = p2
    None = None
    Keep = Keep
    Procs = {p1, p2}
    Rows = {1, 2, 3}
    Sessions = {"s"}
    Acts = {"a"}
    Refs = {"ref"}
    Qsos = {1, 2, 3}
    Slots <- MCSlots
    CallOf <- MCCallOf
    Minimum <- MCMinimum
    MaxRequests = 5
SYMMETRY Symmetry
CHECK_DEADLOCK FALSE
INVARIANTS
    OneDefault
    SerialsGapless
    CabrilloScoresOnce
PROPERTY
    ExportHonest
