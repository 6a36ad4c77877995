SPECIFICATION Spec
CONSTANTS
  n1 = n1  n2 = n2
  None = None
  Nodes <- OneNode
  Modes <- TwoModes
  MaxMoves = 2
  MaxFaults = 0
PROPERTIES RejectedOut
