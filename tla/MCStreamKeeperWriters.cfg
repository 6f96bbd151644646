CONSTANTS
  cam1 = cam1
  Cameras = {cam1}
  Watched = {cam1}
  MaxChanges = 1
  MaxFaults = 0
  MaxMounts = 0
SPECIFICATION Spec
INVARIANTS
  OneContextPerCamera
CHECK_DEADLOCK FALSE
