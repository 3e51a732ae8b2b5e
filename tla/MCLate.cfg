SPECIFICATION FairSpec
CONSTANTS
    Clients = {c1}
    Run = run
    None = None
    NoStatus = NoStatus
    ArgLists = {"t1", "t2"}
    InitArgs = "t1"
    CanGiveUp = FALSE
    Files <- UpFiles
    InitFile <- Plain
    InitBackends = {"NeedsLogin"}
    Rejected = {"bad"}
    Surprises = {"reload"}
    MaxSurprises = 1
PROPERTY FileReachesNode
