CONSTANTS
  cam1 = cam1
  Cameras = {cam1}
  MaxDepth = 3
  Interval = 2
  MaxTs = 3
SPECIFICATION FairSpec
PROPERTIES
  StopReturns
CHECK_DEADLOCK FALSE
