SPECIFICATION Spec
CONSTANTS
  m1 = m1  m2 = m2
  o1 = o1  o2 = o2
  l1 = l1  l2 = l2
  c1 = c1  c2 = c2
  None = None
  Missions <- OneMission
  Objs <- TwoObjs
  Loops <- TwoLoops
  Conts <- OneCont
  MaxMissions = 1
  MaxConcurrent = 1
  MaxSaves = 0
  MaxRestarts = 0
CHECK_DEADLOCK FALSE
INVARIANTS TypeOK ActiveHasLoop RoundsHaveContainer
