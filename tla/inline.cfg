SPECIFICATION Spec
CONSTANTS
    MaxPasses = 2
    MaxSteps = 24
    Programs <- SameModule
INVARIANT TypeOK
INVARIANT SameReturnUnlessRaised
INVARIANT NoLabelLost
