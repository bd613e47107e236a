SPECIFICATION FairSpec
CONSTANTS
    QSOs = {q1}
    Jobs = {j1, j2}
    MaxVersion = 2
INVARIANT SentWasAccepted
PROPERTY UnsentIsSent
