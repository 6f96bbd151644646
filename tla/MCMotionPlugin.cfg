CONSTANTS
  cam1 = cam1
  Cameras = {cam1}
  MaxDepth = 2
  Interval = 2
  MaxTs = 7
SPECIFICATION Spec
INVARIANTS
  TypeOK
  EachFrameWrittenOnce
  OwnFramesOnly
CHECK_DEADLOCK FALSE
