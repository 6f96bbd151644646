CONSTANTS
  LastTime = 3
  Window = 2
  LowWater = 1
  HighWater = 2
  MaxQueue = 3
SPECIFICATION FairSpec
INVARIANTS
  TypeOK
  Complete
PROPERTIES
  Decodable
  CleanupReturns
CHECK_DEADLOCK FALSE
