SPECIFICATION MCSpec
CONSTANTS
  Engine = {1, 2}
  Conv <- Shared
  Prefix <- SharedPrefixes
  Key <- MCKey
  MaxEntries = 2
  MaxClock = 1
  NBlobs = 5
  MaxSlots = 1
  MinTokens = 1
  MaxTokens = 2
  StepTokens = 1
  MaxRequests = 2
  MaxCrashes = 0
VIEW Relevant
INVARIANT TornNeverIndexed
