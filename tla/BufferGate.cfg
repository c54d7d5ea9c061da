CONSTANTS
    first = first
    second = second
    LaneCount = 3
    Threshold = 0
    BulkLimit = 1
    AggregateLimit = 2
    Frame = 1
    Writers <- MCWriters
    LaneOf <- MCLaneOf
    BodyWriters <- MCWriters
SPECIFICATION FairSpec
INVARIANTS
    NoStrandedWriter
    ReserveKept
PROPERTIES
    SleeperWakes
