SPECIFICATION FairSpec
CONSTANTS
    Clients = {c1}
    Run = run
    None = None
    NoStatus = NoStatus
    ArgLists = {"t1", "t2"}
    InitArgs = "t1"
    CanGiveUp = FALSE
    Files <- UpFiles
    InitFile <- Plain
    InitBackends = {"Running"}
    Rejected = {"bad"}
    Surprises = {"expire", "up"}
    MaxSurprises = 2
PROPERTY FailuresHeal
