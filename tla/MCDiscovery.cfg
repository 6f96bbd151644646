CONSTANTS
  NumCams = 1
  Recorded = {}
  MaxMoves = 1
  MaxFails = 1
  MaxCrashes = 1
  MaxFlows = 2
  MaxUpdates = 1
SPECIFICATION FairSpec
INVARIANTS
  TypeOK
  KnownIsStored
  RecordedHasUrl
PROPERTIES
  WaitsEnd
  CamerasAppear
CHECK_DEADLOCK FALSE
