\* Every kind of task, paused and resumed at will; the client may also stop.
\* The client may leave a task unstarted for ever.
CONSTANT
  NewDurations = {0, 1}
SPECIFICATION Spec
INVARIANTS  ControlEffective
PROPERTIES UnpausedStopReturns
CHECK_DEADLOCK FALSE
