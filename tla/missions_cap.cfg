SPECIFICATION Spec
CONSTANTS
  m1 = m1  m2 = m2
  o1 = o1  o2 = o2
  l1 = l1  l2 = l2
  c1 = c1  c2 = c2
  None = None
  Missions <- TwoMissions
  Objs <- TwoObjs
  Loops <- TwoLoops
  Conts <- TwoConts
  MaxMissions = 2
  MaxConcurrent = 1
  MaxSaves = 0
  MaxRestarts = 0
CHECK_DEADLOCK FALSE
INVARIANT CapHolds
