CONSTANTS
    Initial <- MCInteractive
    MaxCredits <- MCInteractiveMax
    CreditRefill <- MCRefill
    CreditSample <- MCSample
    GrowthStep <- MCStep
    FastPeak <- MCFastPeak
SPECIFICATION FairSpec
INVARIANTS
    ResponseCreditsConserved
    WithinProtocolCap
PROPERTIES
    ReaderIsServed
    CancelStopsNode
