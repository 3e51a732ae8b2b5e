SPECIFICATION FairSpec
CONSTANTS
    m1 = m1
    Run = Run
    None = None
    Menus = {m1}
    Capacity = 2
    MaxEvents = 2
INVARIANTS TypeOK NoSendOnClosed NothingLost ExitAfterRun
PROPERTIES PokeIsHeard ShownCatchesUp QuitExits
