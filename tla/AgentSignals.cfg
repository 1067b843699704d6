SPECIFICATION Spec
CONSTANTS
  EventMax = 3
  MaxDeltas = 1
  LineOp = {"prompt", "tool", "cancel", "quit"}
  MaxLines = 1
  MaxSignals = 2
  OpQueueCap = 1
  PromptCap = 1
  MaxRounds = 1
  Keep = 1
  HasSession = TRUE
  Loaded <- Fresh
INVARIANTS
  HardSignalKept
PROPERTIES
  SessionEnds
CHECK_DEADLOCK FALSE
