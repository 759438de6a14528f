CONSTANT
  NewDurations = {0, 1}
SPECIFICATION Spec
PROPERTIES StopReturns
CHECK_DEADLOCK FALSE
