SPECIFICATION Spec
CONSTANTS
    Callers = {c1, c2}
    Loops = {l1, l2}
    ArgLists = {a1, a2}
    InitArgs = a1
    GiveUpAfter = 2
    MaxRestarts = 3
    None = None
    Width = 8
    Backoffs <- SmallBackoffs
    MaxStreak = 9
SYMMETRY Symmetric
INVARIANTS
    TypeOK
    OneChild
    StopIsFinal
    OnlyOwnExitsCount
    GivenUpIsDown
    HandleIsCurrent
    DelayIsExponential
