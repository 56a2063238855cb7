SPECIFICATION Spec
CONSTANTS
    Nowhere = "nowhere"
    Op <- AllOps
    JumpOps <- JumpOp
    UncondJumpOps <- UncondJumpOp
    ScopeExitOps <- ScopeExitOp
    NeutralOps <- NeutralOp
    POP_TOP = "POP_TOP"
    Effect <- EffectOf
    TakenEffect <- TakenEffectOf
    Labels <- AllLabels
    RawInt = "raw"
    INT_MAX = 6
    Programs <- StaleCandidatePrograms
INVARIANT AutoDepthFitsRegion
