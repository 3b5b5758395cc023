CONSTANTS
    c1 = c1
    r1 = r1
    Commands <- Empty
    Requests <- OneRequest
    Faults <- DiskFaults
SPECIFICATION Spec
INVARIANTS
    RequestNonLaunchHonest
CHECK_DEADLOCK FALSE
