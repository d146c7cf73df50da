SPECIFICATION ChatSpec
CONSTANTS
  Setups <- MCDialogSetups
  ToolModes = {TRUE}
  WarnAt = 80
  KeepTurns = 1
  MaxIterations = 3
INVARIANTS RequestsRebuilt LogKeepsHistory PinsInEveryPrompt
PROPERTIES ImplementsDialog
\* A session ends: maxTurns and maxCommands bound it.
CHECK_DEADLOCK FALSE
