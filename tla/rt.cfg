SPECIFICATION RoundTripSpec
CONSTANTS
    Op <- MCOp
    EXTENDED_ARG = "EXTENDED_ARG"
    CACHE = "CACHE"
    JumpKindOf <- MCJumpKindOf
    CacheSize <- MCCacheSize
    Base = 3
    CodeObjects <- RoundTrips
    MaxCache = 2
    ArgModulus = 40
    Unit = "unit"
INVARIANT TypeOK
INVARIANT SameBehaviour
INVARIANT NeverWider
INVARIANT NeverUnresolved
INVARIANT SameRegions
