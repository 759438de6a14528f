CONSTANTS
  Threads = {t1, t2}
  MaxDepth = 1
  Overlap = TRUE
SPECIFICATION Spec
INVARIANTS HolderCanUnlock
