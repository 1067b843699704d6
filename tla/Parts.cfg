SPECIFICATION PartsSpec
CONSTANTS
  \* SnapshotStore
  Slot = {p, q}
  NoSlot = NoSlot
  Ask <- Chain
  Budget = 1
  CacheCap = 1
  SpinePin = TRUE
  Block = 0
  \* AgentEngine
  Word = {p, q}
  Eos = Eos
  Contexts = {2, 3}
  MaxOut = 4
  ChunkMax = 2
  Width = 2
  MaxThink = 1
  ForceLen = 1
  Sampling = FALSE
  \* AgentSession
  Agent = {p, q}
  MaxSaves = 3
  MaxDeaths = 1
  MaxLosses = 1
  NoAgent = NoAgent
  \* AgentTools
  Tool = {p, q}
  NoTool = NoTool
  MaxTools = 4
  \* StreamText
  Piece <- Pieces
  Stops <- TwoStops
  MaxText = 8
  \* GpuGate
  Thread = {t1, t2, t3, t4, t5}
  \* Tokenizer
  VocabFile <- SmallVocab
  MergeFile <- SmallMerges
  ThinkMarks <- TwoMarks
  WordCap = 2
  Typed = {"l", "a", "s", " ", "n", "'", "<", "S"}
  MaxLone = 4
  MaxTyped = 2
  MaxMsgs = 2
  \* Loader
  WordMax = 31
  WideBytes = 4
  ScaleBytes = 2
  Group = 2
  Align = 2
  EntryBytes = 3
  Dims = {0, 1, 2, 17}
  Offsets = {0, 1, 4, 30}
  FileSizes = {2, 10, 31}
  MaxEntries = 2
SYMMETRY PartsSymmetry
VIEW Moving
INVARIANTS
  StoreHonest
  EngineAsLedger
  SavesSurvive
  ReportsTrue
  TextKept
  WaitersSeen
PROPERTIES
  RotatesInOrder
  OnlyAdvances
CHECK_DEADLOCK FALSE
