\* Three threads; five calls let waits, sets and a reset overlap in every order.
CONSTANTS
  Threads = {t1, t2, t3}
  NoThread = NoThread
  MaxCalls = 5
SPECIFICATION Spec
INVARIANTS NoLostWakeup
PROPERTIES ImplementsEvent NoStuckWaiter
CHECK_DEADLOCK FALSE
