SPECIFICATION FairSpec
CONSTANTS
  Ids = {m1, m2}
  Texts = {x}
  NewConf = {201}
  Faults = {"index", "search", "move", "update"}
  Crashes = TRUE
  MaxDoubt = 1
  Sessions = {s1, s2}
  Models = {model}
  MaxText = 2
  AutoText = 1
  MaxProps = 1
  MineLive = FALSE
  FileFaults = {"torn"}
INVARIANTS ManifestIsTrue StoreAgrees
PROPERTIES MiningEnds
