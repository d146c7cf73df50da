SPECIFICATION Spec
CONSTANTS
  Names = {a, b, c}
  Payloads = {p}
  NoName = NoName
  NoPayload = NoPayload
  Faults = {"create", "open", "append", "movelog", "moveblobs", "movefile", "reopen", "render"}
  Happenings = {"reuse", "over", "cutmove", "cutend", "twice"}
  MaxEvents = 3
  MaxSessions = 2
INVARIANTS SessionsStayWhole RenderedOrTaken
PROPERTIES ImplementsSessionNames
SYMMETRY Symmetry
