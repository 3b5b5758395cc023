SPECIFICATION Spec
CONSTANTS
  NoKey = NoKey
  Direct = {d1}
  Handoffs = {h1}
  Calls = 2
  MaxCrashes = 0
  MaxLosses = 0
PROPERTIES AuthorizationFinal
CHECK_DEADLOCK FALSE
