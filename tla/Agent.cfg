SPECIFICATION Spec
CONSTANTS
  EventMax = 3
  MaxDeltas = 2
  LineOp = {"prompt", "empty", "tool", "save", "new", "queue_clear", "compact", "cancel", "quit"}
  MaxLines = 2
  MaxSignals = 0
  OpQueueCap = 1
  PromptCap = 1
  MaxRounds = 1
  Keep = 1
  HasSession = TRUE
  Loaded <- TwoExchanges
INVARIANTS
  EventsInPlace
  TranscriptClosed
  NothingUnanswered
CHECK_DEADLOCK FALSE
