\* Three threads on two spin locks; a pool of three message blocks; two clients of
\* a counter that can hold more than the callback's value.  Unserialised threads
\* may spin on a lock word that nobody clears, and a deleted server stops.
CONSTANTS
  Threads = {t1, t2, t3}
  Objects = {o1, o2}
  MaxMessages = 3
  MaxPrints = 5
  Clients = {"c", "d"}
  Remote = {"d"}
  CounterMax = 5
  IntMod = 4
  MaxAdds = 2
  MaxConnects = 2
SPECIFICATION MCSpec
INVARIANTS SafeUntilFirstFailure NeverFails LogFaithful CountDelivered
PROPERTIES Progress EventuallyWritten ClientReturns
CHECK_DEADLOCK FALSE
