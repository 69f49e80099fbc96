CONSTANTS
    p1 = p1
    p2 = p2
    Procs = {p1, p2}
    NoProc = NoProc
    Calls = {"run", "status"}
    MAX_JOB_ATTEMPTS = 1
    POISON_THRESHOLD = 2
    MaxEpoch = 0
    Chunks = {0}
    WorkStops <- MCWorkStops
    MAX_AUTOMATIC_RETRIES = 0
    MaxGeneration = 2
    MaxFaults = 0
    LedgerMayFail = FALSE
SPECIFICATION Spec
INVARIANTS StatusSeesLandedCommit
