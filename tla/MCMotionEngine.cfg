CONSTANTS
  cam1 = cam1
  Cameras = {cam1}
  N = 3
  Skew = 1
  Confirm = 3
  HoldOff = 2
  MaxAttempts = 5
  MaxNow = 4
  MaxBacklog = 1
  MaxSteps = 3
SPECIFICATION FairSpec
INVARIANTS
  TypeOK
  EventsAgree
PROPERTIES
  EventsDoNotOverlap
  RingUsed
  RemovedContextsGo
CHECK_DEADLOCK FALSE
