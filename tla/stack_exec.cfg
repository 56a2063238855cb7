SPECIFICATION FairExecSpec
CONSTANTS
    Nowhere = "nowhere"
    Op <- AllOps
    JumpOps <- JumpOp
    UncondJumpOps <- UncondJumpOp
    ScopeExitOps <- ScopeExitOp
    NeutralOps <- NeutralOp
    POP_TOP = "POP_TOP"
    Effect <- EffectOf
    TakenEffect <- TakenEffectOf
    Labels <- AllLabels
    RawInt = "raw"
    INT_MAX = 4
    Programs <- StackPrograms
INVARIANT WorklistCovers
INVARIANT StackSizeIsLeast
INVARIANT NoStackOverflow
INVARIANT UnreachableNeedsLabelAtEnd
INVARIANT AutoDepthFitsReached
INVARIANT SharedHandlerAgrees
PROPERTY Termination
