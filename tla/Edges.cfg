SPECIFICATION EdgesSpec
CONSTANTS
  \* MessageStream
  MaxSegments = 5
  HasTools = TRUE
  \* ChatStream
  MaxChatSegs = 5
  ChatTools = TRUE
  \* ResponsesStream
  MaxRespSegs = 4
  \* CudaStreams
  SlotCtx = {5, 8}
  RoundReserve = 3
  MaxCudaSegs = 4
  CudaTools = TRUE
  \* TuiClient
  MaxPrompts = 2
  MaxOps = 1
  TuiQueueCap = 1
  TuiRounds = 1
  MaxBacklog = 2
  AgentMayDie = TRUE
  \* AgentRepl
  MaxKeys = 6
  MaxHeld = 2
  MaxReplSignals = 1
  ReplQueueMax = 1
  EditRoom = 1
  MaxSpins = 1
  MaxTalk = 5
  Resumed <- OneExchange
  \* ToolGram
  ToolLists <- Lists
  Vocab <- Tokens
  Inside <- Sample
  MaxDepth = 2
  MaxMaskDepth = 1
  MaxBytes = 26
  MaxBlanks = 1
  \* ToolRescue
  Registry <- FourTools
  Pieces <- Shapes
  MaxPieces = 4
  \* PromptTemplate
  MaxHist = 4
  Replies <- ThreeReplies
  Stamps = {1, 2}
  \* HttpApi
  HttpReqs = {h1, h2}
  Context = 8
  Lookahead = 2
  Prompts = {5, 6}
  Budgets = {2}
  BudgetDefault = 7
  \* SlotPlan
  WorkingSets = {120, 160, 200, 260, 400}
  UsedSizes = {20, 100, 180, 300}
  Overrides = {0, 80, 110, 170, 300}
  Windows = {0, 8, 20, 64}
  MaxSlots = 2
  Entries = {0, 1}
  Giga = 8
  KvPerTok = 2
  PartialPerBlock = 3
  GqaBlock = 2
  SnapPerTok = 1
  SnapFixed = 1
  BaseState = 2
  ChunkState = 1
  Probe1 = 2
  Probe2 = 16
  Floor = 16
  Cap = 40
  MinMargin = 4
  MarginShare = 64
SYMMETRY EdgesSymmetry
VIEW Moving
INVARIANTS
  WiresOk
  TwinsAgree
  PromptsHold
  CallsRight
  TuiAgrees
  ReplKeeps
  AnswersTrue
  SlotsFit
CHECK_DEADLOCK FALSE
