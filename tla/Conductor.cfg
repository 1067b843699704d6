SPECIFICATION MCSpec
CONSTANTS
  Request = {r1, r2, r3}
  Engine = {e1, e2}
  NMax = 2
  RoundWidth = 2
  MaxUnion = 2
  MaxGaps = 1
  NoRequest = NoRequest
  NoEngine = NoEngine
  TheConductor = TheConductor
SYMMETRY Symmetry
VIEW Relative
INVARIANTS
  BatchSound
  HonestEnd
  StoppedLeavesNobody
  NothingLost
