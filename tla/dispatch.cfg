SPECIFICATION LiveSpec
CONSTANTS
  t1 = t1  t2 = t2
  p1 = p1  q1 = q1
  m1 = m1
  None = None
  Restart = Restart
  Tasks <- TwoTasks
  Pull <- PullNodes
  Push <- PushNodes
  Models <- OneModel
  Tries = 2
  MaxFaults = 1
CHECK_DEADLOCK FALSE
INVARIANTS TypeOK AtMostOnce ResultsPerCommand
PROPERTIES BoardSpec Delivered
