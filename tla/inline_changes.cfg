SPECIFICATION Spec
CONSTANTS
    MaxPasses = 2
    MaxSteps = 24
    Programs <- Strangers
INVARIANT SameReturn
