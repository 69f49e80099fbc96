CONSTANTS
    j1 = j1
    j2 = j2
    Jobs = {j1, j2}
    c1 = c1
    Callers = {c1}
    None = None
    Capacity = 3
    Threads = {2}
    MAX_AUTOMATIC_RETRIES = 1
    Weights = {2}
    QueueLimits = {1, 2}
    StampsPerSecond = 1
    Seconds = {0}
    MaxChunks = 2
    MaxStarts = 2
    MaxCalls = 1
    MaxCancels = 1
    MaxFaults = 1
SPECIFICATION Spec
INVARIANTS QueueTypeOK EntriesInOrder WorksWithItsShare YieldsWithinAChunk
PROPERTIES FirstInFirstOut QueuedJobsEnd CallsAreAnswered
