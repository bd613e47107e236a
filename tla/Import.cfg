SPECIFICATION ImportSpec
CONSTANTS
    Uploads = {adif, qrz}
    QRZUploads = {qrz}
    Contents <- MCContents
    Calls = {"w1aw", "k1ab"}
    Bands = {"20m"}
    BatchSize = 2
    ProgressEvery = 2
    MaxRecords = 5
    MaxAttempts = 2
    Slots = 2
INVARIANTS RunsOnce Accounted NoSecondCopy LeakOnlyByLoss
PROPERTIES Settles
CHECK_DEADLOCK FALSE
