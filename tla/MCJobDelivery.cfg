CONSTANTS
    c1 = c1
    r1 = r1
    Commands <- Empty
    Requests <- OneRequest
    Faults <- DeliveryFaults
    Watchers = {}
    Mishaps = 1
SPECIFICATION JobsFairSpec
PROPERTIES
    JobsSettle
CHECK_DEADLOCK FALSE
