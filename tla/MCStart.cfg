SPECIFICATION FairSpec
CONSTANTS
  NoKey = NoKey
  Direct = {d1}
  Handoffs = {h1, h2}
  Calls = 3
  MaxCrashes = 1
  MaxLosses = 2
INVARIANTS TypeOK OneStart ApprovedMeansUnsent NoBlindResend
PROPERTIES AuthorizationKept ReservationHeld AcceptedStartSurfaces
CHECK_DEADLOCK FALSE
