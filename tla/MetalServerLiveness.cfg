SPECIFICATION MCFairSpec
CONSTANTS
  Request = {r1, r2, r3}
  NSlots = 1
  QueueMax = 2
  ProbeMayThrow = FALSE
  MaxQuanta = 0
  MaxDrains = 0
VIEW Relative
INVARIANT TurnsAccounted
PROPERTIES
  AdmittedInOrder
  ImplementsFifoAdmission
  EveryRequestEnds
