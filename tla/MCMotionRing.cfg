CONSTANTS
  N = 3
  Skew = 1
  MaxNow = 8
  Fractions = {0, 500}
SPECIFICATION Spec
INVARIANTS
  TypeOK
  MotionKept
  NoStaleMotion
  QueriesReturnMotion
CHECK_DEADLOCK FALSE
