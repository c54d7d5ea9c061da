CONSTANTS
    Backends = 2
    Hedges <- MCHedges
    MaxTroubles = 1
SPECIFICATION FairSpec
INVARIANTS
    OnePeerPerOffer
    WaitingLegKeepsRecord
PROPERTIES
    SettlesOnce
    RecordsAreReaped
    RaceSettles
CHECK_DEADLOCK FALSE
