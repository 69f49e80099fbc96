CONSTANTS
    c1 = c1
    c2 = c2
    Callers = {c1, c2}
    NoProc = NoProc
    o1 = o1
    Ops = {o1}
    NoOp = NoOp
    r1 = r1
    r2 = r2
    r3 = r3
    Requests = {r1, r2, r3}
    a = a
    b = b
    Ranges = {a, b}
    RangeOf <- MCRangeOf
    NoJob = NoJob
    MaxJobs = 2
    MaxJobOps = 1
    MaxBindings = 2
    MaxBase = 2
    MaxCalls = 4
    MaxFaults = 0
    SameIdOverlaps = FALSE
    PruneRaces = TRUE
SPECIFICATION Spec
SYMMETRY Symmetry
INVARIANT AnsweredReplays
