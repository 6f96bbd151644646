CONSTANTS
  N = 3
  Skew = 1
  MaxNow = 4
  Fractions = {0, 500}
SPECIFICATION Spec
INVARIANTS
  LastSecondReturned
CHECK_DEADLOCK FALSE
