\* The disk may refuse a write, write part of a line, or fail to sync a whole one.
SPECIFICATION LogSpec
CONSTANTS
  Debug = TRUE
  Faults = {"nowrite", "shortwrite", "nosync"}
  MaxSeq = 4
  MaxErrors = 2
INVARIANT LiveIndexAgrees
PROPERTIES ImplementsDurableLog
\* A session ends, and the bound on ids stops it.
CHECK_DEADLOCK FALSE
