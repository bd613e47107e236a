SPECIFICATION FairSpec
CONSTANTS
    QSOs = {q1, q2}
    MaxVersion = 1
    BatchSize = 1
    Service = "clublog"
    BestEffort = FALSE
    CredsFail = FALSE
    PartialAccept = FALSE
PROPERTY PendingServed
PROPERTY ErrorRetried
INVARIANT DeletedLeavesClubLog
