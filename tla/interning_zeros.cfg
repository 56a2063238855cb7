SPECIFICATION Spec
CONSTANTS
    Name = {"a", "l", "c", "f", "x", "y", "g"}
    Object <- MCObject
    Type <- TypeOf
    Eq <- EqOf
    Meaning <- MeaningOf
    CodeObjects <- Floats
    Edits <- NoEdits
    Additions <- NoEdits
    MaxEdits = 1
    MaxCalls = 1
INVARIANT BuiltAsMeant
