SPECIFICATION Spec
CONSTANTS
    Clients = {c1, c2}
    Run = run
    None = None
    NoStatus = NoStatus
    ArgLists = {"t1", "t2"}
    InitArgs = "t1"
    CanGiveUp = FALSE
    Files <- AllFiles
    InitFile <- Plain
    InitBackends = {"Running"}
    Rejected = {"bad"}
    Surprises = {"start", "stop", "reload", "crash", "quit", "set", "up", "down", "reauth"}
    MaxSurprises = 2
SYMMETRY Symmetric
INVARIANTS
    TypeOK
    WantIsSession
    NoOrphan
    FlagsCurrent
    AppliedIsCurrent
    SetErrorIsCurrent
