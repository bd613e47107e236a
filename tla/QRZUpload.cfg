SPECIFICATION QRZSpec
CONSTANTS
    QSOs = {q1, q2}
    MaxVersion = 2
    Service = "qrz"
    BestEffort = TRUE
    CredsFail = TRUE
SYMMETRY Symmetry
INVARIANT UploadedAtQRZ
