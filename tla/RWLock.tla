------------------------------- MODULE RWLock -------------------------------
(***************************************************************************)
(* The reader-writer lock of rwlock.c: a pthread_rwlock_t (external) and   *)
(* two fields, st_locked and count_rdlocked, that cplus_rwlock_unlock      *)
(* consults before it unlocks.  The fields are plain memory, written after *)
(* the pthread call that took the lock, or released it, has returned.      *)
(***************************************************************************)
EXTENDS Integers, FiniteSets

CONSTANTS Threads,
          MaxDepth, \* bound: read locks one thread nests
          Overlap   \* FALSE: a call starts only when no other call is running

VARIABLES writer,          \* pthread rwlock: the threads that hold it exclusively
          readers,         \* readers[t]: how many times t shares it
          st_locked, count_rdlocked,
          pc,              \* pc[t]: where t is inside a call; "idle" outside
          reg,             \* reg[t]: t's loaded value of count_rdlocked
          res              \* res[t]: what t's last call returned

vars == <<writer, readers, st_locked, count_rdlocked, pc, reg, res>>

Holds(t) == t \in writer \/ readers[t] > 0
Free == \A t \in Threads : ~Holds(t)
NoReader == \A t \in Threads : readers[t] = 0
CanCall(t) == pc[t] = "idle" /\ (Overlap \/ \A u \in Threads : pc[u] = "idle")

Init ==
  /\ writer = {} /\ readers = [t \in Threads |-> 0]
  /\ st_locked = FALSE /\ count_rdlocked = 0
  /\ pc = [t \in Threads |-> "idle"]
  /\ reg = [t \in Threads |-> 0]
  /\ res = [t \in Threads |-> "none"]

At(t, l) == pc[t] = l
Goto(t, l) == pc' = [pc EXCEPT ![t] = l]
Return(t, r) == Goto(t, "idle") /\ res' = [res EXCEPT ![t] = r]

----------------------------------------------------------------------------
\* cplus_rwlock_wrlock: pthread_rwlock_wrlock and its try and timed forms.
wrlock(t) ==
  /\ CanCall(t)
  /\ Free
  /\ writer' = {t}
  /\ Goto(t, "wr_mark")
  /\ UNCHANGED <<readers, st_locked, count_rdlocked, reg, res>>

wrlock_mark(t) ==
  /\ At(t, "wr_mark")
  /\ st_locked' = TRUE
  /\ Return(t, "success")
  /\ UNCHANGED <<writer, readers, count_rdlocked, reg>>

\* cplus_rwlock_rdlock: count_rdlocked += 1 is a load and a store.
rdlock(t) ==
  /\ CanCall(t) /\ readers[t] < MaxDepth
  /\ writer = {}
  /\ readers' = [readers EXCEPT ![t] = @ + 1]
  /\ Goto(t, "rd_mark")
  /\ UNCHANGED <<writer, st_locked, count_rdlocked, reg, res>>

rdlock_mark(t) ==
  /\ At(t, "rd_mark")
  /\ st_locked' = TRUE
  /\ Goto(t, "rd_load")
  /\ UNCHANGED <<writer, readers, count_rdlocked, reg, res>>

rdlock_load(t) ==
  /\ At(t, "rd_load")
  /\ reg' = [reg EXCEPT ![t] = count_rdlocked]
  /\ Goto(t, "rd_count")
  /\ UNCHANGED <<writer, readers, st_locked, count_rdlocked, res>>

MutReadCount(t) ==
  /\ At(t, "rd_count")
  /\ Return(t, "success")
  /\ UNCHANGED <<writer, readers, count_rdlocked, st_locked, reg>>
rdlock_count(t) ==
  /\ At(t, "rd_count")
  /\ count_rdlocked' = reg[t] + 1
  /\ Return(t, "success")
  /\ UNCHANGED <<writer, readers, st_locked, reg>>

\* A try or timed lock that does not get the pthread lock (EBUSY, ETIMEDOUT, or
\* EDEADLK when the caller is its writer) returns CPLUS_FAIL and touches nothing.
lock_fails(t) ==
  /\ CanCall(t)
  /\ ~Free
  /\ res' = [res EXCEPT ![t] = "busy"]
  /\ UNCHANGED <<writer, readers, st_locked, count_rdlocked, pc, reg>>

\* cplus_rwlock_unlock, called by a holder, or by anyone when nobody holds the
\* lock.  It refuses (CPLUS_FAIL, no pthread call) when st_locked is false.
unlock_refused(t) ==
  /\ CanCall(t)
  /\ Holds(t) \/ Free
  /\ ~st_locked
  /\ res' = [res EXCEPT ![t] = IF Holds(t) THEN "refused" ELSE "not_locked"]
  /\ UNCHANGED <<writer, readers, st_locked, count_rdlocked, pc, reg>>

unlock(t) ==
  /\ CanCall(t) /\ Holds(t)
  /\ st_locked
  /\ Goto(t, "un_pthread")
  /\ UNCHANGED <<writer, readers, st_locked, count_rdlocked, reg, res>>

unlock_pthread(t) ==
  /\ At(t, "un_pthread")
  /\ writer' = writer \ {t}
  /\ readers' = [readers EXCEPT ![t] = IF t \in writer THEN @ ELSE @ - 1]
  /\ Goto(t, "un_test")
  /\ UNCHANGED <<st_locked, count_rdlocked, reg, res>>

\* count_rdlocked is read again and again: for the first test, for -= 1 (a load
\* and a store) and for the second test.
unlock_test(t) ==
  /\ At(t, "un_test")
  /\ Goto(t, IF count_rdlocked = 0 THEN "un_clear" ELSE "un_load")
  /\ UNCHANGED <<writer, readers, st_locked, count_rdlocked, reg, res>>

unlock_load(t) ==
  /\ At(t, "un_load")
  /\ reg' = [reg EXCEPT ![t] = count_rdlocked]
  /\ Goto(t, "un_count")
  /\ UNCHANGED <<writer, readers, st_locked, count_rdlocked, res>>

unlock_count(t) ==
  /\ At(t, "un_count")
  /\ count_rdlocked' = reg[t] - 1
  /\ Goto(t, "un_retest")
  /\ UNCHANGED <<writer, readers, st_locked, reg, res>>

unlock_retest(t) ==
  /\ At(t, "un_retest")
  /\ IF count_rdlocked = 0 THEN Goto(t, "un_clear") /\ UNCHANGED res ELSE Return(t, "success")
  /\ UNCHANGED <<writer, readers, st_locked, count_rdlocked, reg>>

unlock_clear(t) ==
  /\ At(t, "un_clear")
  /\ st_locked' = FALSE
  /\ Return(t, "success")
  /\ UNCHANGED <<writer, readers, count_rdlocked, reg>>

Step(t) ==
  \/ wrlock_mark(t) \/ rdlock_mark(t) \/ rdlock_load(t) \/ rdlock_count(t)
  \/ unlock_pthread(t) \/ unlock_test(t) \/ unlock_load(t) \/ unlock_count(t)
  \/ unlock_retest(t) \/ unlock_clear(t)

Next ==
  \E t \in Threads :
    \/ wrlock(t) \/ rdlock(t) \/ lock_fails(t) \/ unlock_refused(t) \/ unlock(t)
    \/ Step(t)

Spec == Init /\ [][Next]_vars

----------------------------------------------------------------------------
(* Properties.                                                             *)

\* The shares of the pthread lock: <<t, i>> is the i-th that t has.
Shares == {h \in Threads \X (1..MaxDepth) : h[2] <= readers[h[1]]}

\* Between calls, st_locked and count_rdlocked of rwlock.c describe the pthread
\* lock: they may be used to decide whether an unlock is legitimate.
BookkeepingExact ==
  (\A t \in Threads : pc[t] = "idle") =>
     /\ st_locked = ~Free
     /\ count_rdlocked = Cardinality(Shares)

\* A thread that holds the lock is never refused by cplus_rwlock_unlock; a
\* refused holder has no other way to release it.
HolderCanUnlock == \A t \in Threads : res[t] # "refused"
=============================================================================
