\* Four blocks of 8 bytes, two clients; words range over every index and one
\* value past the end marker; 2^32 is scaled down to 2^8 (TLC's integers are
\* signed 32-bit).  Three threads on a reader-writer lock; three processes and two
\* segments of one name; two threads and three blocks in the ledger.  The bounds
\* on calls and segments, and a process that died with a mutex, stop a part.
CONSTANTS
  block_count = 4
  block_size = 8
  Clients = {c1, c2}
  Word = {0, 1, 2, 3, 4, 5}
  UINT32_MOD = 256
  NULL = NULL
  RWThreads = {t1, t2, t3}
  MaxDepth = 2
  Procs = {"p", "q", "r"}
  MaxSegments = 2
  Users = {t1, t2}
  MaxBlocks = 3
  MaxFaults = 1
  MaxCalls = 5
SPECIFICATION MCSpec
INVARIANTS
  Exclusive FreeListIntact BookkeepingExact NamedExclusion SegmentSound
  LedgerExact OverrunCaught FailsOnlyWhenExhausted
CHECK_DEADLOCK FALSE
