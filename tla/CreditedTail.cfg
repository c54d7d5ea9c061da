CONSTANTS
    Window <- MCWindow
    Batch <- MCBatch
    BodyLimit <- MCLongBodyLimit
    SourceFrames <- MCLongSourceFrames
SPECIFICATION Spec
INVARIANTS
    CreditedTailIsNotPenalized
