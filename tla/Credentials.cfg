SPECIFICATION Spec
CONSTANTS
    None = None
    MaxRequests = 2
    MaxRestarts = 1
    BatchSize = 1
    Linked = {"eqsl", "hamqth", "sota"}
    Inputs <- MCInputs
CHECK_DEADLOCK FALSE
INVARIANTS
    
    CertOpens
PROPERTIES
    ImplementsStore
