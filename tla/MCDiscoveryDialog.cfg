CONSTANTS
  NumCams = 3
  Recorded = {1, 2, 3}
  MaxMoves = 0
  MaxFails = 0
  MaxCrashes = 0
  MaxFlows = 2
  MaxUpdates = 0
SPECIFICATION Spec
INVARIANTS
  DialogMeansItsCamera
CHECK_DEADLOCK FALSE
