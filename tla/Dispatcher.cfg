CONSTANTS
    a = a
    b = b
    a1 = a1
    a2 = a2
    b1 = b1
    Peers <- MCPeers
    Requests <- MCRequests
    Owner <- MCOwner
    Priorities <- MCClasses
    Assignments <- MCAssignments
    MaxAdmitted = 2
    MaxActive = 1
    MaxNonInteractive = 1
    GlobalAdmitted = 2
    GlobalActive = 2
    GlobalNonInteractive = 1
SPECIFICATION FairSpec
INVARIANTS
    NothingLeaks
PROPERTIES
    AdmittedIsStarted
    ClosedGivesBack
CHECK_DEADLOCK FALSE
