CONSTANTS
    Page = {p1, p2}
    Fetch = {f1, f2}
    MaxPorts = 3
    MaxFaults = 1
SPECIFICATION Spec
INVARIANTS
    IdsNeverCross
    NoFetchHangs
SYMMETRY Symmetric
CHECK_DEADLOCK FALSE
