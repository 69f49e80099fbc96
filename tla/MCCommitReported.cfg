CONSTANTS
    p1 = p1
    p2 = p2
    Procs = {p1, p2}
    NoProc = NoProc
    frame = frame
    a = a
    b = b
    Ops <- MCOps
    Artifacts <- MCArtifacts
    ArtifactOf <- MCArtifactOf
    NoArtifact = NoArtifact
    Durabilities = {TRUE}
    CallersAsk = {TRUE}
    MAX_GENERATIONS = 3
    MaxFaults = 2
    MaxLosses = 1
SPECIFICATION Spec
INVARIANTS ReportedSurvives
