SPECIFICATION ThrowSpec
CONSTANTS
  Request = {r1, r2, r3}
  NSlots = 1
  QueueMax = 3
INVARIANT
  NoWaiterSkipped
CHECK_DEADLOCK FALSE
