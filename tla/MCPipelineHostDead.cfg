CONSTANTS
  slot1 = slot1
  cam1 = cam1
  Slots = {slot1}
  Cameras = {cam1}
  MaxPipes = 2
  MaxSamples = 1
SPECIFICATION FairSpec
PROPERTIES
  DeadCheckReturns
CHECK_DEADLOCK FALSE
