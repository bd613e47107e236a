SPECIFICATION Spec
CONSTANTS
    p1 = p1
    p2 = p2
    None = None
    Procs = {p1, p2}
    Ids = {1, 2, 3}
    Emails = {"a", "b"}
    Subjects = {"s"}
    Calls = {"K1"}
    Codes = {"c"}
    Books = {1, 2, 3}
    Tokens = {"t"}
    Paths = {"/x", "/y"}
    MaxUses = 1
    MaxInvites = 1
    MaxFailed = 2
    LockFor = 1
    EntryTTL = 1
    MaxTime = 3
    MaxRequests = 4
SYMMETRY Symmetry
CHECK_DEADLOCK FALSE
INVARIANTS
    InviteSpent
    GuessesBounded
    CallsignsCollideOnlyInRace
