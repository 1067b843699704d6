SPECIFICATION MCFairSpec
CONSTANTS
  Request = {r1, r2}
  Engine = {e1, e2}
  NMax = 1
  RoundWidth = 1
  MaxUnion = 2
  MaxGaps = 0
  NoRequest = NoRequest
  NoEngine = NoEngine
  TheConductor = TheConductor
VIEW Relative
PROPERTIES
  EveryRequestEnds
  StopEnds
CHECK_DEADLOCK FALSE
