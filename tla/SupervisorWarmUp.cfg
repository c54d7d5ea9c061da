CONSTANTS
    Delays = 2
    MaxRoutes = 2
    AdaptiveTcp <- MCAdaptive
SPECIFICATION Spec
INVARIANTS
    LostRouteIsRetried
