CONSTANTS
  Programs = {"ls", "rm"}
  DefaultAllowedCommands = {"ls"}
  Directories <- MCDirectories
  Aliases = {"m"}
  Edits <- MCEdits
  Happenings = {"unwritable", "full disk", "kill", "edit"}
  Capacity = 2
  NoEvent = NoEvent
  Paths <- MCPaths
  Spellings <- MCSpellings
  Lines <- MCLines
  Replies <- MCReplies
  Suggested <- MCSuggested
  MaxActs = 1
  MaxCommands = 2
  MaxEnds = 1
SPECIFICATION Spec
INVARIANTS RecordsAreTrue SavedAreInForce
PROPERTIES DeniedLeftAlone
CHECK_DEADLOCK FALSE
