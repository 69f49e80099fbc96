CONSTANTS
    opener = opener
    c1 = c1
    c2 = c2
    u1 = u1
    Cleaners = {c1, c2}
    timer = c1
    Users = {u1}
    NoProc = NoProc
    IDLE = 2
    MAX = 3
    MaxClock = 3
    MaxCalls = 2
    MaxFaults = 1
SPECIFICATION Spec
INVARIANTS LifecycleTypeOK MarkerOutlivesSession UseIsKept OpeningIsKept KeptUntilOver
PROPERTIES EverySessionEnds
