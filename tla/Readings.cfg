SPECIFICATION ReadingsSpec
CONSTANTS
  MaxLength = 5
  MaxLimit = 5
  MaxEvents = 12
  MaxOpenings = 3
  Chunks = 1
  Bytes <- MCBytes
  Windows = {0, 900, 1200}
  Features = {}
INVARIANTS ClosedFormsAreLoops OpsGiveTheNewHistory ScenesAgree TurnsReadBack PassesCarryTheSession
CHECK_DEADLOCK FALSE
