SPECIFICATION Spec
CONSTANTS
  m1 = m1
  m2 = m2
  NoModel = NoModel
  NoPlan = NoPlan
  known = known
  route = route
  broken = broken
  Models = {m1, m2}
  Plans <- MCPlans
  Pieces = {"b.."}
  Pipelines <- MCPipelines
  Mentions = {known, route, broken}
  Routes = {route, broken}
  Unusable = {broken}
  Scores = {40, 90}
  Threshold = 75
  Hedged = 30
  Unhedged = 80
  ToolModes = {TRUE, FALSE}
  Compaction = TRUE
  Loops = {"next", "chat", "pipeline", "exit"}
  Count = 2
  Happenings = {"full"}
  MaxRounds = 1
  MaxCommands = 3
  MaxEdits = 1
  MaxKills = 1
INVARIANTS ModelGivenBack LoopSaysWhatItDid
PROPERTIES ImplementsChecklist EveryCommandEnds
CHECK_DEADLOCK FALSE
