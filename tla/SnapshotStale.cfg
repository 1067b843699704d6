SPECIFICATION StoreSpec
CONSTANTS
  Slot = {s1, s2}
  NoSlot = NoSlot
  Ask <- Chain
  Budget = 1
  CacheCap = 1
  SpinePin = TRUE
  Block = 0
SYMMETRY Symmetry
VIEW Live
INVARIANTS
  PendingRight
