CONSTANTS
    Delays = 2
    MaxRoutes = 3
    AdaptiveTcp <- MCEither
    Peer = {p1, p2}
    HandshakeSlots = 1
    Path = {d1, d2, d3}
    Edition = {1, 2}
    Loader = {l1, l2}
    ResultSizes = {0, 2, 3}
    EntryBytes = 2
    CacheBytes = 3
    CacheEntries = 2
    Builds = 1
SPECIFICATION ConnectionsSpec
INVARIANTS
    NoPeerIsForgotten
    GzipCacheAgrees
PROPERTIES
    PredecessorLeavesQuietly
    PlainRouteIsServedAgain
CHECK_DEADLOCK FALSE
