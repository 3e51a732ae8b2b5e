SPECIFICATION FairSpec
CONSTANTS
    i1 = i1
    i2 = i2
    i3 = i3
    None = None
    Orphan = Orphan
    Instances = {i1, i2, i3}
    MaxEvents = 5
INVARIANTS TypeOK Reachable StatusIsOfTheWorking
PROPERTY ComesBack
