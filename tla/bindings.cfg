SPECIFICATION Spec
CONSTANTS
    Bytecode = {b1, b2}
    Op = {"JUMP", "LOAD_CONST", "NOP", "CACHE"}
    ArgKind <- MCArgKind
    Internal = {"CACHE"}
    Ends = {"JUMP"}
    Depth <- MCDepth
    Number <- MCNumber
    INT_MAX = 3
    LONG_MAX = 8
    Decoded <- Codes
    MaxEdits = 2
    MaxInstrs = 2
    MaxLabels = 2
    MaxEntries = 2
INVARIANT NextLabelIsFresh
PROPERTY BuildsWhatIsShown
PROPERTY ToCodeRepeats
