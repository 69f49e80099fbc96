CONSTANTS
    p1 = p1
    p2 = p2
    Procs = {p1, p2}
    NoProc = NoProc
    Calls = {"run", "cancel"}
    MAX_JOB_ATTEMPTS = 2
    POISON_THRESHOLD = 2
    MaxEpoch = 0
    Chunks = {0}
    WorkStops <- MCWorkStops
    MAX_AUTOMATIC_RETRIES = 1
    MaxGeneration = 2
    MaxFaults = 1
    LedgerMayFail = FALSE
SPECIFICATION FairSpec
INVARIANTS TypeOK CommitsAtMostOnce RecordAgreesWithChain
PROPERTIES OwnerLetsGo CommitsAreAnnounced
