SPECIFICATION LiveSpec
CONSTANTS
  m1 = m1  m2 = m2
  o1 = o1  o2 = o2
  l1 = l1  l2 = l2
  c1 = c1  c2 = c2
  None = None
  Missions <- OneMission
  Objs <- OneObj
  Loops <- OneLoop
  Conts <- OneCont
  MaxMissions = 1
  MaxConcurrent = 1
  MaxSaves = 2
  MaxRestarts = 1
CHECK_DEADLOCK FALSE
PROPERTY DiskFollows
