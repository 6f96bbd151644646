CONSTANTS
  LastTime = 3
  Window = 2
  LowWater = 1
  HighWater = 2
  MaxQueue = 3
SPECIFICATION FairSpec
PROPERTIES
  NoDrops
CHECK_DEADLOCK FALSE
