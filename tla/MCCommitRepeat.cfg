CONSTANTS
    p1 = p1
    Procs = {p1}
    NoProc = NoProc
    frame = frame
    a = a
    b = b
    Ops <- MCOps
    Artifacts <- MCArtifacts
    ArtifactOf <- MCArtifactOf
    NoArtifact = NoArtifact
    Durabilities = {FALSE}
    CallersAsk = {}
    MAX_GENERATIONS = 3
    MaxFaults = 1
    MaxLosses = 0
SPECIFICATION Spec
INVARIANTS NeverRefused
