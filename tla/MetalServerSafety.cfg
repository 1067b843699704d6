SPECIFICATION MCSpec
CONSTANTS
  Request = {r1, r2, r3}
  NSlots = 2
  QueueMax = 1
  ProbeMayThrow = TRUE
  MaxQuanta = 1
  MaxDrains = 2
SYMMETRY Symmetry
INVARIANTS
  LeaseRight
  DrainedMeansQuiet
VIEW Relative
