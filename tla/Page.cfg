CONSTANTS
    Request = {r1, r2}
    Shapes <- MCShapes
    Orders = {"plain", "mustrev", "nostore"}
    Targets <- MCTargets
    MaxOrigin = 2
    FetchEpochs = 1
    BootOp = {r1, r2}
    Version = {r1, r2}
    MaxOps = 3
    MaxRestarts = 1
    BootTroubles = 1
    BulkLanes = 2
    MaxChannels = 5
    MaxEvents = 3
    Credits = 2
    Batch = 2
    QueueFrames = 1
    MaxSends = 3
    MaxOffers = 2
SPECIFICATION PageSpec
INVARIANTS
    InvalidationHolds
    OrdersAreKept
    
    QuietStateAgrees
    OneBoundedRequestPerLane
    NoRequestIsStranded
    UpstreamSeesAPrefix
    SocketCreditsConserved
    
PROPERTIES
    
    CarryingLaneIsKept
VIEW Moving
SYMMETRY Symmetric
CHECK_DEADLOCK FALSE
