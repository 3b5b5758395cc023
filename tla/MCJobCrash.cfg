CONSTANTS
    c1 = c1
    r1 = r1
    Commands <- OneCommand
    Requests <- OneRequest
    Faults <- CrashFaults
    Watchers = {w1, w2}
    Mishaps = 2
SPECIFICATION JobsSpec
INVARIANTS
    TypeOK
    AtMostOneLaunch
    OneBodyPerTerminalKey
    RecordsAreTrue
    CommandIsTrue
PROPERTIES
    HonestNonLaunch
    LaunchIsAuthorized
    
CHECK_DEADLOCK FALSE
