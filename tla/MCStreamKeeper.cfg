CONSTANTS
  cam1 = cam1
  cam2 = cam2
  Cameras = {cam1, cam2}
  Watched = {cam1}
  MaxChanges = 2
  MaxFaults = 1
  MaxMounts = 1
SPECIFICATION FairSpec
INVARIANTS
  TypeOK
PROPERTIES
  StreamsFollowDatabase
  CommandsAnswered
  StopReturns
CHECK_DEADLOCK FALSE
