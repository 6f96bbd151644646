CONSTANTS
  cam1 = cam1
  Cameras = {cam1}
  N = 9
  Skew = 7
  Overlap = 1
  Keep = 1
  Gap = 1
  FetchEvery = 0
  Faults = {"motion"}
  Fractions = {0}
  Begin = 1
  MaxNow = 6
SPECIFICATION Spec
PROPERTIES
  NoMotionRemoved
CHECK_DEADLOCK FALSE
