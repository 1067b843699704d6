SPECIFICATION ServingSpec
CONSTANTS
  \* PrefixTiers
  Engine = {1, 2}
  Conv <- Overlapping
  Prefix <- OverlapPrefixes
  Key <- MCKey
  MaxEntries = 2
  MaxClock = 1
  NBlobs = 5
  MaxSlots = 1
  MinTokens = 1
  MaxTokens = 2
  StepTokens = 1
  MaxRequests = 3
  MaxCrashes = 1
  \* EnginePrefix
  Slots = 2
  Ctx <- Contexts
  Prompts <- FivePrompts
  PfT = 1
  PfBatchMin = 2
  CkptInterval = 1
  CkptSlots = 2
  RoundWidth = 2
  MaxAsks = 3
  Zero = 0
  Guess = 1
  \* SpecRound
  After <- Language
  WMax = 4
  DepthMin = 1
  DepthMax = 2
  SfxWidth = 3
  NG = 1
  SfxL = 2
  PoolCap = 1
  Budget = 5
  MaxAnswers = 2
  \* FusedRound
  Members <- Pair
  Layers = 2
  Ceiling = 2
  WideSfx = 4
  UnionCap = 5
  Roles = 3
  GraphCap = 1
  MaxFused = 2
  \* MetalDecode
  Word = {1}
  EndTok = 9
  PromptRows = 1
  CtxSizes = {4, 5}
  Counts = {0, 2, 5}
  MtpWidths = {2, 4}
  VerifyMax = 6
  Tile = 2
  MinMatch = 1
  ResidentMax = 2
  Narrow = 3
  \* Sampling
  Vocab = {0, 1, 2}
  Levels = {0, 1, 3}
  Weight <- FallOff
  Coarse <- Keys16
  TopKs = {0, 1, 2}
  TopPs = {50, 100}
  Capacity = 2
  MaxLanes = 2
VIEW Moving
INVARIANTS
  TiersHonest
  RestoreRight
  RowsRight
  SpecLossless
  MaskNeverLags
  WalksExact
  FusedExact
CHECK_DEADLOCK FALSE
