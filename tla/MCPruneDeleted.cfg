CONSTANTS
  cam1 = cam1
  cam2 = cam2
  Cameras = {cam1, cam2}
  N = 9
  Skew = 7
  Overlap = 1
  Keep = 0
  Gap = 1
  FetchEvery = 0
  Faults = {"delete"}
  Fractions = {0}
  Begin = 1
  MaxNow = 3
SPECIFICATION FairSpec
PROPERTIES
  EveryCameraHasItsTurn
CHECK_DEADLOCK FALSE
