CONSTANTS
  Versions = {"v1", "v2", "v3"}
  Installed = "v1"
  Limits <- OneOfEach
  Trees = {"v1", "v2"}
  StateFiles = {"jobs"}
  RemovalLimits <- OneOfEachRemoval
SPECIFICATION LifecycleSpec
INVARIANTS TypesOK DiskAgrees RemovalIsEarned
PROPERTIES OnlyWhileIdle StopsOnceIdle LifecycleEnds
CHECK_DEADLOCK FALSE
