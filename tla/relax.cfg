SPECIFICATION FairSpec
CONSTANTS
    N = 4
    MCCaches = {0, 2}
    MCInts = {0, 5}
    Capacity <- MCCapacity
    ArgModulus = 40
    MaxCache = 2
    Programs <- MCPrograms
    Layouts <- MCLayouts
INVARIANT TypeOK
INVARIANT ArgsSurvive
INVARIANT LeastLayout
PROPERTY Termination
