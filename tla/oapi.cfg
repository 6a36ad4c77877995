SPECIFICATION LiveSpec
CONSTANTS
  r1 = r1  r2 = r2  r3 = r3
  c1 = c1  c2 = c2
  e1 = e1  e2 = e2
  None = None
  Requests <- ThreeRequests
  Convs <- TwoConvs
  ConvOf <- ConvsOf
  Eps <- TwoEps
  Local <- OneLocal
  MaxQueue = 2
  MaxConvs = 1
  MaxTurns = 2
  MaxRounds = 2
  MaxChanges = 1
CHECK_DEADLOCK FALSE
INVARIANTS TypeOK QueueCounts OrderMatches AnswersFollow OneAtATime
PROPERTY Leaves
