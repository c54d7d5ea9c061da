CONSTANTS
    Initial <- MCInteractive
    MaxCredits <- MCInteractiveMax
    CreditRefill <- MCRefill
    CreditSample <- MCSample
    GrowthStep <- MCStep
    FastPeak <- MCFastPeak
SPECIFICATION Spec
INVARIANTS
    GrantedFramesAccepted
