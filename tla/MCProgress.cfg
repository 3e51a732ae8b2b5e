SPECIFICATION FairSpec
CONSTANTS
    Clients = {c1}
    Run = run
    None = None
    NoStatus = NoStatus
    ArgLists = {"t1", "t2"}
    InitArgs = "t1"
    CanGiveUp = FALSE
    Files <- DaemonFiles
    InitFile <- Plain
    InitBackends = {"Running"}
    Rejected = {"bad"}
    Surprises = {"start", "stop", "reload", "crash", "quit"}
    MaxSurprises = 2
PROPERTIES
    CommandsReturn
    QuitTerminates
    DaemonComesUp
    ViewConverges
