CONSTANTS
    Url = {u1, u2, u3}
    Op = {o1, o2}
    Sizes = {1, 2}
    Budget = 4
    Reserve = 1
    StageLimit = 2
    SyncWriteLimit = 2
    MaxEvents = 5
    MaxEpochs = 1
SPECIFICATION Spec
INVARIANTS
    OldEpochStaysOut
    EveryBodyIsCounted
    WithinBudget
    NobodyIsLeftWaiting
CHECK_DEADLOCK FALSE
SYMMETRY Symmetric
