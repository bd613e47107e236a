SPECIFICATION Spec
CONSTANTS
    QSOs = {q1, q2}
    MaxVersion = 2
    BatchSize = 2
    Service = "eqsl"
    BestEffort = TRUE
    CredsFail = TRUE
    PartialAccept = TRUE
SYMMETRY Symmetry
INVARIANT UploadedWasSent
