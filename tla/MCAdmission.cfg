CONSTANTS
    o1 = o1
    j1 = j1
    j2 = j2
    drain = drain
    logout = logout
    relogout = relogout
    select = select
    cancel = cancel
    Orgs = {o1}
    Jobs = {j1}
    Calls = {drain, select, cancel, logout, relogout}
    Home <- OneHome
    Method <- MethodOf
    Crashes = 1
    Conflicts = 1
    Views = {v1, v2}
    MaxCalls = 3
    MaxClock = 1
SPECIFICATION AdmissionSpec
SYMMETRY Alike
INVARIANTS
    TypesOK
    DrainHolds
PROPERTIES
    IdleIsFinal
    OperationsKept
CHECK_DEADLOCK FALSE
