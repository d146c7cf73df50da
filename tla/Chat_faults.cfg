SPECIFICATION ChatSpec
CONSTANTS
  Setups <- MCFaultySetups
  ToolModes = {TRUE, FALSE}
  WarnAt = 80
  KeepTurns = 1
  MaxIterations = 2
INVARIANTS CallsAnswered
PROPERTIES EveryTurnEnds
\* A session ends: maxTurns and maxCommands bound it.
CHECK_DEADLOCK FALSE
