SPECIFICATION Spec
CONSTANTS
    Name = {"a", "l", "c", "f", "x", "y", "g"}
    Object = {"None", "one", "uno", "two", "true"}
    Type <- TypeOf
    Eq <- EqOf
    Meaning <- MeaningOf
    CodeObjects <- Functions
    Edits <- SomeEdits
    Additions <- SomeAdditions
    MaxEdits = 2
    MaxCalls = 2
INVARIANT TypeOK
INVARIANT EveryNameIsFound
PROPERTY ImplementsEditing
PROPERTY RebuildsTheSame
PROPERTY ClosureKept
