SPECIFICATION Spec
CONSTANTS
    None = None
    Users = {"u1", "u2"}
    Qsos = {1, 2, 3}
    OwnerOf <- MCOwnerOf
    Slots <- MCSlots
    Puller = "u1"
    MaxTime = 2
    ReportLimit = 1
    InboxLimit = 1
    Setups <- MCSetups
    Workers = {"w1", "w2"}
    MilestonesFor <- MCMilestones
    USStates = {"CT"}
    WPXPrefix <- MCPrefix
CHECK_DEADLOCK FALSE
INVARIANTS
    ConfirmedHasGround
    CardsAccounted
    CleanIsCurrent
    MilestoneOnce
PROPERTIES
    ConfirmedStays
