------------------------------ MODULE SpinLock ------------------------------
(***************************************************************************)
(* The spin lock that mempool.c and data.c put around their operations,    *)
(* at the level of the loads and stores the macros compile to.             *)
(*                                                                         *)
(* The "expected" operand of __atomic_compare_exchange is the file-level   *)
(* variable spin_down, shared by every object: it is loaded before the     *)
(* exchange, a failing exchange stores the value it found into it, and     *)
(* unlocking stores its current value into the lock.                       *)
(***************************************************************************)
EXTENDS Integers

CONSTANTS Threads,     \* threads using the objects
          Objects      \* pools (or data objects): each has its spinlock

spin_up == 1

VARIABLES serialised,  \* do the callers of one object exclude each other by
                       \* other means (as taskpool.c and syslog.c do)?
          spinlock,    \* spinlock[o]: the lock word of o
          spin_down,   \* the shared "expected" variable
          expect,      \* expect[t]: t's register copy of spin_down
          pc,          \* pc[t]
          obj,         \* obj[t]: the object t operates on (when pc[t] # "idle")
          failed       \* ghost: some compare-exchange has failed

vars == <<serialised, spinlock, spin_down, expect, pc, obj, failed>>

Busy(o) == {t \in Threads : pc[t] # "idle" /\ obj[t] = o}
Inside(o) == {t \in Threads : pc[t] \in {"crit", "write"} /\ obj[t] = o}

MutInit ==
  /\ serialised \in BOOLEAN
  /\ spinlock = [o \in Objects |-> 0]
  /\ spin_down = spin_up
  /\ expect = [t \in Threads |-> 0]
  /\ pc = [t \in Threads |-> "idle"]
  /\ obj \in [Threads -> Objects]
  /\ failed = FALSE
Init ==
  /\ serialised \in BOOLEAN
  /\ spinlock = [o \in Objects |-> 0]
  /\ spin_down = 0
  /\ expect = [t \in Threads |-> 0]
  /\ pc = [t \in Threads |-> "idle"]
  /\ obj \in [Threads -> Objects]
  /\ failed = FALSE

\* A caller enters an operation of o.
Call(t, o) ==
  /\ pc[t] = "idle"
  /\ serialised => Busy(o) = {}
  /\ pc' = [pc EXCEPT ![t] = "read"]
  /\ obj' = [obj EXCEPT ![t] = o]
  /\ UNCHANGED <<serialised, spinlock, spin_down, expect, failed>>

\* spin_up == cplus_atomic_read(&spinlock): on 1 the loop spins (a stutter).
ReadLock(t) ==
  /\ pc[t] = "read"
  /\ spinlock[obj[t]] # spin_up
  /\ pc' = [pc EXCEPT ![t] = "load"]
  /\ UNCHANGED <<serialised, spinlock, spin_down, expect, obj, failed>>

\* The exchange first loads its expected value from spin_down.
LoadExpected(t) ==
  /\ pc[t] = "load"
  /\ expect' = [expect EXCEPT ![t] = spin_down]
  /\ pc' = [pc EXCEPT ![t] = "cas"]
  /\ UNCHANGED <<serialised, spinlock, spin_down, obj, failed>>

\* The compare-exchange succeeds: the lock word becomes spin_up.
MutExchange(t) ==
  /\ pc[t] = "cas"
  /\ spinlock' = [spinlock EXCEPT ![obj[t]] = spin_up]
  /\ pc' = [pc EXCEPT ![t] = "crit"]
  /\ UNCHANGED <<serialised, spin_down, expect, obj, failed>>
Exchange(t) ==
  /\ pc[t] = "cas"
  /\ spinlock[obj[t]] = expect[t]
  /\ spinlock' = [spinlock EXCEPT ![obj[t]] = spin_up]
  /\ pc' = [pc EXCEPT ![t] = "crit"]
  /\ UNCHANGED <<serialised, spin_down, expect, obj, failed>>

\* It fails: the value found goes to the register, then to spin_down, and the
\* loop starts again.
ExchangeFails(t) ==
  /\ pc[t] = "cas"
  /\ spinlock[obj[t]] # expect[t]
  /\ expect' = [expect EXCEPT ![t] = spinlock[obj[t]]]
  /\ pc' = [pc EXCEPT ![t] = "store"]
  /\ failed' = TRUE
  /\ UNCHANGED <<serialised, spinlock, spin_down, obj>>

StoreExpected(t) ==
  /\ pc[t] = "store"
  /\ spin_down' = expect[t]
  /\ pc' = [pc EXCEPT ![t] = "read"]
  /\ UNCHANGED <<serialised, spinlock, expect, obj, failed>>

\* MEMPOOL_SPIN_UNLOCK: cplus_atomic_write(&spinlock, spin_down).
LoadUnlockValue(t) ==
  /\ pc[t] = "crit"
  /\ expect' = [expect EXCEPT ![t] = spin_down]
  /\ pc' = [pc EXCEPT ![t] = "write"]
  /\ UNCHANGED <<serialised, spinlock, spin_down, obj, failed>>

MutUnlock(t) ==
  /\ pc[t] = "write"
  /\ pc' = [pc EXCEPT ![t] = "idle"]
  /\ spinlock' = [spinlock EXCEPT ![obj[t]] = spin_up]
  /\ UNCHANGED <<serialised, spin_down, expect, obj, failed>>
Unlock(t) ==
  /\ pc[t] = "write"
  /\ spinlock' = [spinlock EXCEPT ![obj[t]] = expect[t]]
  /\ pc' = [pc EXCEPT ![t] = "idle"]
  /\ UNCHANGED <<serialised, spin_down, expect, obj, failed>>

Step(t) ==
  \/ ReadLock(t) \/ LoadExpected(t)
  \/ Exchange(t) \/ ExchangeFails(t) \/ StoreExpected(t)
  \/ LoadUnlockValue(t) \/ Unlock(t)

Next == \E t \in Threads : Step(t) \/ \E o \in Objects : Call(t, o)

\* A thread inside an operation keeps running.
Spec == Init /\ [][Next]_vars /\ \A t \in Threads : WF_vars(Step(t))

----------------------------------------------------------------------------
(* Properties.                                                             *)

\* Lock words, spin_down and registers hold 0 or 1.
TypeOK ==
  /\ serialised \in BOOLEAN
  /\ spinlock \in [Objects -> {0, 1}]
  /\ spin_down \in {0, 1}
  /\ expect \in [Threads -> {0, 1}]
  /\ pc \in [Threads -> {"idle", "read", "load", "cas", "store", "crit", "write"}]
  /\ obj \in [Threads -> Objects]
  /\ failed \in BOOLEAN

\* What mempool.c's thread_safe pools and data.c's thread-safe objects promise:
\* at most one thread is between SPIN_LOCK and SPIN_UNLOCK of an object.
MutualExclusion ==
  \A t, u \in Threads :
    (pc[t] = "crit" /\ pc[u] = "crit" /\ obj[t] = obj[u]) => t = u

\* The lock word is 1 exactly while a thread is inside, and one thread is.
LockTracksHolder ==
  \A o \in Objects :
    /\ spinlock[o] = 1 <=> Inside(o) # {}
    /\ \A t, u \in Inside(o) : t = u

\* However many threads and objects there are, the lock works until the first
\* compare-exchange fails: that failure, and nothing else, corrupts it.
SafeUntilFirstFailure == ~failed => LockTracksHolder

\* With serialised callers no exchange fails, also when other objects, which
\* share spin_down, are used at the same time.
NeverFails == serialised => ~failed

\* With serialised callers a thread that calls an operation gets the lock.
Progress ==
  serialised => \A t \in Threads : pc[t] = "read" ~> pc[t] = "crit"
=============================================================================
