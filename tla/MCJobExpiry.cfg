CONSTANTS
    c1 = c1
    r1 = r1
    Commands <- OneCommand
    Requests <- Empty
    Faults <- ExpiryFaults
SPECIFICATION FairSpec
PROPERTIES
    EvidenceSettles
CHECK_DEADLOCK FALSE
