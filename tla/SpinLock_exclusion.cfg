CONSTANTS
  Threads = {t1, t2, t3}
  Objects = {o1}
SPECIFICATION Spec
INVARIANTS MutualExclusion
CHECK_DEADLOCK FALSE
