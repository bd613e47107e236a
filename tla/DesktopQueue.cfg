\* The loop and a click on "Sync Now"; a typed contact, one typed with 0 W, and
\* one of WSJT-X that the register lists.  A cycle takes two rows, so that one
\* refused row leaves room for another, and two fill it.
SPECIFICATION FairSpec
CONSTANTS
    None = None
    Contacts = {"typed", "zero", "heard"}
    Storable = {"typed", "heard"}
    Heard = {"heard"}
    Listed = {"heard"}
    Cycles = {"loop", "now"}
    Loop = "loop"
    Limit = 2
    MaxEvents = 1
INVARIANTS
    NothingLost
    TwiceOnlyByLoss
    EditWaits
PROPERTIES
    WaitingIsPushed
CHECK_DEADLOCK FALSE
