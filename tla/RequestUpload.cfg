CONSTANTS
    Window <- MCWindow
    Batch <- MCBatch
    BodyLimit <- MCBodyLimit
    SourceFrames <- MCSourceFrames
SPECIFICATION MCSpec
INVARIANTS
    UploadCreditsConserved
    ViolationsExplained
PROPERTIES
    UploadMovesOn
    RemovedLeavesNothing
