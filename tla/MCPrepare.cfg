CONSTANTS
  OpKeys = {k1}
  Callers = {c1, c2}
  Requests = {a, b}
  OpLimits <- OpBounds
  Orgs = {o1}
  RecoveryKeys = {r1}
  MaxFlows = 1
  MaxBegins = 4
  AuthLimits <- AuthBounds
SPECIFICATION FairSpec
INVARIANTS PrepareReplayable
CHECK_DEADLOCK FALSE
