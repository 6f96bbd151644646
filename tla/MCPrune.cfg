CONSTANTS
  cam1 = cam1
  Cameras = {cam1}
  N = 5
  Skew = 1
  Overlap = 2
  Keep = 1
  Gap = 1
  FetchEvery = 0
  Faults = {"motion", "query", "engine", "setting", "delete"}
  Fractions = {0, 500}
  Begin = 1
  MaxNow = 6
SPECIFICATION Spec
INVARIANTS
  TypeOK
PROPERTIES
  OnlyStillVideoRemoved
  ProtectedVideoStays
CHECK_DEADLOCK FALSE
