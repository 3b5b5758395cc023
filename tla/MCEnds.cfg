CONSTANTS
    o1 = o1
    j1 = j1
    j2 = j2
    drain = drain
    logout = logout
    relogout = relogout
    select = select
    cancel = cancel
    Orgs = {o1}
    Jobs = {j1}
    Calls = {drain, logout, relogout}
    Home <- OneHome
    Method <- MethodOf
    Crashes = 0
    Conflicts = 1
    MaxBytes = 2
    MaxChunk = 2
    Faults <- OutputBounds
SPECIFICATION EndsSpec
INVARIANTS
    TypesOK
    OutputArrivesExact
PROPERTIES
    ReliableSpec
    WorkEnds
CHECK_DEADLOCK FALSE
