CONSTANTS
  NumCams = 2
  Recorded = {}
  MaxMoves = 0
  MaxFails = 1
  MaxCrashes = 1
  MaxFlows = 2
  MaxUpdates = 1
SPECIFICATION Spec
INVARIANTS
  RecordedHasUrl
CHECK_DEADLOCK FALSE
