CONSTANTS
    p1 = p1
    p2 = p2
    Procs = {p1, p2}
    NoProc = NoProc
    Calls = {"run", "cancel", "status"}
    MAX_JOB_ATTEMPTS = 1
    POISON_THRESHOLD = 2
    MaxEpoch = 1
    Chunks = {0}
    WorkStops <- MCWorkStops
    MAX_AUTOMATIC_RETRIES = 1
    MaxGeneration = 2
    MaxFaults = 1
    LedgerMayFail = FALSE
SPECIFICATION Spec
SYMMETRY Symmetry
INVARIANTS CancelLeavesNoGeneration AnswersAreTrue
PROPERTIES NeverGoesBack ImplementsOutcome
