SPECIFICATION ContextSpec
CONSTANTS
  ChunkSize = 12
  Overlap = "paragraph"
  Separator = 2
  TopK = 2
  KBLimit = 2
  Files <- MCFiles
  Prompts <- MCPrompts
  Stores <- MCStores
  KBs <- MCKBs
  Window = 20
  MemoryShare = 4
  DefaultBudget = 4
  DefaultRemaining = 8
  MaxInjectFile = 3
  NamedModels <- MCNamedModels
  MaxTurns = 4
INVARIANTS PromptFits RecallIsLogged LentForAnalysis AnalysedWhole
CHECK_DEADLOCK FALSE
