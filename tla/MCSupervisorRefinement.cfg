SPECIFICATION FairSpec
CONSTANTS
    Callers = {c1}
    Loops = {l1, l2}
    ArgLists = {a1, a2}
    InitArgs = a1
    GiveUpAfter = 2
    MaxRestarts = 2
    None = None
PROPERTIES
    ImplementsDaemon
    ImplementsDaemonProgress
    StopReturns
    KeptAlive
    CancelIsEnough
