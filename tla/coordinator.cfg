SPECIFICATION Spec
CONSTANTS
  m3 = m3  m5 = m5  m8 = m8  b1 = b1  b2 = b2  b3 = b3  b4 = b4
  s1 = s1  s2 = s2  x1 = x1  x2 = x2  r1 = r1  l1 = l1  l2 = l2  e1 = e1  n1 = n1
  PlanModels <- ThreeModels
  SizeOf <- Sizes
  Shapes <- Memories
  Driven <- FourNodes
  MaxSendFaults = 1
  Order <- BySize
  Quarter <- Quarters
  Rates <- Measured
  Libraries <- Downloaded
  Catalog <- TheCatalog
  DeviceCount = 2
  Target = 50
  MaxIterations = 5
  NoModel = NoModel
  MaxBenchFaults = 2
  SessionIds <- TwoSessions
  Texts <- TwoTexts
  NoText = NoText
  Starters <- OneStarter
  MaxConcurrent = 1
  MaxEdits = 3
  Loops <- TwoLoops
  Endpoints <- OneEndpoint
  Names <- OneName
  MaxAgents = 2
  MaxTasks = 2
  MaxTurns = 2
  MaxFailures = 2
  MaxErrors = 2
  MaxChanges = 2
CHECK_DEADLOCK FALSE
INVARIANTS TypesOK PlanSound  ResultIsClosest SessionsWhole NothingLost OneTaskEach
PROPERTIES AutoloadEnds PendingClears BenchEnds TasksEnd
