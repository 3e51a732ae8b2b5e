SPECIFICATION FairSpec
CONSTANTS
    Clients = {c1}
    Run = run
    None = None
    NoStatus = NoStatus
    ArgLists = {"t1", "t2"}
    InitArgs = "t1"
    CanGiveUp = FALSE
    Files <- MixedFiles
    InitFile <- Unreadable
    InitBackends = {"Running", "NeedsLogin"}
    Rejected = {"bad"}
    Surprises = {"reload", "set", "reauth", "approve", "expire", "down", "status"}
    MaxSurprises = 2
PROPERTIES
    ViewConverges
    ConfigReachesNode
    LoginOffered
