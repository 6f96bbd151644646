CONSTANTS
  Timestamps <- MCTimestamps
  MaxFrames = 3
SPECIFICATION Spec
INVARIANTS
  TypeOK
PROPERTIES
  StrictlyGrowing
  LogSpec
CHECK_DEADLOCK FALSE
