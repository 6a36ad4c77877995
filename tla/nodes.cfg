SPECIFICATION Spec
CONSTANTS
  g0 = g0  m1 = m1  m2 = m2  t1 = t1  t2 = t2
  None = None  Orphan = Orphan  Beat = Beat  Gpu0 = g0
  Devices <- OneDevice
  Models <- TwoModels
  Threads <- TwoThreads
  Menus <- TwoMenus
  Retries = 1
  MaxCommands = 2
  MaxServerFaults = 1
  Nobody = Nobody
  MaxCalls = 3
  MaxLocalFaults = 2
  Reaper = Reaper  NoToken = NoToken  Empty = Empty  Torn = Torn  Gone = Gone
  MaxRequests = 2
  MaxPairFaults = 1
CHECK_DEADLOCK FALSE
INVARIANTS TypesOK RecordTrue RegisteredIsPaired FileWhole OneTrackedAgent
PROPERTIES RecoverySparesJobs Recovers MismatchGoes
