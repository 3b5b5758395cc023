CONSTANTS
  Chats = {h1, h2}
  Runs = {r1}
  Tools = {"run_wait", "interaction_view", "run_result"}
  MaxRequests = 1
  MaxHooks = 2
  MaxFollowFaults = 1
  Readers = {m1, m2}
  Scopes = {s1, s2}
  Owners = {o1}
  MaxContexts = 1
  LastPage = 2
  MemoryLimits <- MemoryBounds
  Deliveries = {d1}
  Cards = {c1, c2}
  MaxAttempts = 2
  MaxMonths = 1
  MaxNotes = 3
  MaxWindows = 1
SPECIFICATION Spec
SYMMETRY Symmetry
INVARIANTS TypeOK PromptedOnce
PROPERTIES FollowEarned PagesInOrder AutomatedOnce
CHECK_DEADLOCK FALSE
