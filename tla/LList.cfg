\* A pool of four nodes. A crashed program stops.
CONSTANTS
  Nodes = {n1, n2, n3, n4}
  Null = Null
  Values = {1, 2, 3}
  MaxSort = 5
SPECIFICATION Spec
SYMMETRY NodeSymmetry
INVARIANTS ChainIntact CursorSound CrashesExplained
CHECK_DEADLOCK FALSE
