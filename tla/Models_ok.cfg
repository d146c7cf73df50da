SPECIFICATION Spec
CONSTANTS
  fast = fast
  ma = ma
  mb = mb
  mc = mc
  md = md
  uo = uo
  uh = uh
  us = us
  ModelNames = {ma, mb, mc, md}
  Tagged <- MCTagged
  Shorts = {fast}
  Services = {"pi"}
  UrlOf <- MCUrlOf
  EngineOf <- MCEngineOf
  OllamaURL = uo
  HailoURL = uh
  Catalog = {mb, mc}
  Limited = {mb}
  Context <- MCContext
  Accepts <- MCAccepts
  Asked = 7
  Ceiling = 8
  Room = 100
  Floor = 1
  HailoWindow = 2
  Worlds <- MCWorlds
  Refs <- MCRefs
  Named <- MCNamed
  Adjusted <- MCAdjusted
  Happenings = {}
  Depth = 2
  MaxCommands = 3
  MaxSettings = 1
  MaxRefusals = 1
  MaxOutages = 1
  NoClient = NoClient
  NoBackend = NoBackend
  NoCap = NoCap
  NoWindow = NoWindow
  NoAlias = NoAlias
  NoURL = NoURL
  NoModel = NoModel
INVARIANTS RememberedOfItsOwn
PROPERTIES StartsWhereInstalled ImplementsModelChoice
CHECK_DEADLOCK FALSE
