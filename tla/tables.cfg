SPECIFICATION Spec
CONSTANTS
    IntModulus = 4096
    WordModulus = 4096
    Group = 4
    SpanMax = 5
    DeltaMax = 3
    Jobs <- MCJobs
INVARIANT TypeOK
INVARIANT LocationsKept
INVARIANT InterpreterAgrees
INVARIANT EntriesKept
INVARIANT HandlerFound
