---------------------------- MODULE PEventProofs ----------------------------
(***************************************************************************)
(* Proofs about pevent.c's event, for any number of threads and calls: no  *)
(* wake-up is lost, and the mutex and condition variable implement the     *)
(* atomic event of module Event.                                           *)
(***************************************************************************)
EXTENDS PEvent, TLAPS

\* One step keeps the types and the ownership of the mutex.
LEMMA TypeStep == TypeOK /\ [Next]_vars => TypeOK'
<1> SUFFICES ASSUME TypeOK, [Next]_vars PROVE TypeOK'
  OBVIOUS
<1> USE PEventAssumption DEF TypeOK, At, Goto, Result, Calls, Waits, Results
<1>1. CASE UNCHANGED vars
  BY <1>1 DEF vars
<1>2. ASSUME NEW t \in Threads, NEW c \in Calls, call(t, c) PROVE TypeOK'
  BY <1>2 DEF call
<1>3. ASSUME NEW t \in Threads, mutex_lock(t) PROVE TypeOK'
  BY <1>3 DEF mutex_lock
<1>4. ASSUME NEW t \in Threads, trylock_fails(t) PROVE TypeOK'
  BY <1>4 DEF trylock_fails
<1>5. ASSUME NEW t \in Threads, wait_succeeds(t) PROVE TypeOK'
  BY <1>5 DEF wait_succeeds, Consumed
<1>6. ASSUME NEW t \in Threads, wait_again(t) PROVE TypeOK'
  BY <1>6 DEF wait_again
<1>7. ASSUME NEW t \in Threads, wait_blocks(t) PROVE TypeOK'
  BY <1>7 DEF wait_blocks
<1>8. ASSUME NEW t \in Threads, timeout_returns(t) PROVE TypeOK'
  BY <1>8 DEF timeout_returns
<1>9. ASSUME NEW t \in Threads, reset(t) PROVE TypeOK'
  BY <1>9 DEF reset
<1>10. ASSUME NEW t \in Threads, set_flag(t) PROVE TypeOK'
  BY <1>10 DEF set_flag
<1>11. ASSUME NEW t \in Threads, set_signal(t) PROVE TypeOK'
  <2>1. PICK W \in Wakes :
          pc' = [u \in Threads |-> IF u = t THEN "unlock"
                                   ELSE IF u \in W THEN "woken" ELSE pc[u]]
    BY <1>11 DEF set_signal
  <2>2. \A u \in W : pc[u] = "blocked"
    BY <2>1 DEF Wakes, Blocked
  <2> QED
    BY <1>11, <2>1, <2>2 DEF set_signal
<1>12. ASSUME NEW t \in Threads, get_status(t) PROVE TypeOK'
  BY <1>12 DEF get_status
<1>13. ASSUME NEW t \in Threads, mutex_unlock(t) PROVE TypeOK'
  BY <1>13 DEF mutex_unlock
<1>14. ASSUME NEW t \in Threads, return(t) PROVE TypeOK'
  BY <1>14 DEF return
<1>15. ASSUME NEW t \in Threads, spurious_wakeup(t) PROVE TypeOK'
  BY <1>15 DEF spurious_wakeup
<1>16. ASSUME NEW t \in Threads, timeout(t) PROVE TypeOK'
  BY <1>16 DEF timeout
<1> QED
  BY <1>1, <1>2, <1>3, <1>4, <1>5, <1>6, <1>7, <1>8, <1>9, <1>10, <1>11, <1>12,
     <1>13, <1>14, <1>15, <1>16 DEF Next, Step

\* The fields, program counters and mutex of pevent.c keep their types, and at
\* most one thread is between lock and unlock of ptr_mutex.
THEOREM TypeCorrect == Spec => []TypeOK
<1>1. Init => TypeOK
  BY PEventAssumption DEF Init, TypeOK, Results
<1> QED
  BY <1>1, TypeStep, PTL DEF Spec

\* Only waiting calls are in the queue of ptr_cond, and only timed ones time out.
QueueOK ==
  \A t \in Threads :
    /\ pc[t] \in {"blocked", "woken"} => req[t] \in {"timed", "infinite"}
    /\ pc[t] = "timedout" => req[t] = "timed"

LEMMA QueueStep == TypeOK /\ QueueOK /\ [Next]_vars => QueueOK'
<1> SUFFICES ASSUME TypeOK, QueueOK, [Next]_vars PROVE QueueOK'
  OBVIOUS
<1> USE DEF TypeOK, QueueOK, At, Goto, Result
<1>1. CASE UNCHANGED vars
  BY <1>1 DEF vars
<1>2. ASSUME NEW t \in Threads, NEW c \in Calls, call(t, c) PROVE QueueOK'
  BY <1>2 DEF call
<1>3. ASSUME NEW t \in Threads, set_signal(t) PROVE QueueOK'
  <2>1. PICK W \in Wakes :
          pc' = [u \in Threads |-> IF u = t THEN "unlock"
                                   ELSE IF u \in W THEN "woken" ELSE pc[u]]
    BY <1>3 DEF set_signal
  <2>2. \A u \in W : pc[u] = "blocked"
    BY <2>1 DEF Wakes, Blocked
  <2> QED
    BY <1>3, <2>1, <2>2 DEF set_signal
<1>4. ASSUME NEW t \in Threads,
             mutex_lock(t) \/ trylock_fails(t) \/ wait_succeeds(t) \/ wait_again(t)
      PROVE QueueOK'
  BY <1>4 DEF mutex_lock, trylock_fails, wait_succeeds, wait_again
<1>5. ASSUME NEW t \in Threads,
             wait_blocks(t) \/ timeout_returns(t) \/ reset(t) \/ set_flag(t)
      PROVE QueueOK'
  BY <1>5 DEF wait_blocks, timeout_returns, reset, set_flag
<1>6. ASSUME NEW t \in Threads,
             get_status(t) \/ mutex_unlock(t) \/ spurious_wakeup(t) \/ timeout(t)
      PROVE QueueOK'
  BY <1>6 DEF get_status, mutex_unlock, spurious_wakeup, timeout
<1>7. ASSUME NEW t \in Threads, return(t) PROVE QueueOK'
  BY <1>7 DEF return
<1> QED
  BY <1>1, <1>2, <1>3, <1>4, <1>5, <1>6, <1>7 DEF Next, Step

LEMMA QueueCorrect == Spec => []QueueOK
<1>1. Init => QueueOK
  BY DEF Init, QueueOK
<1> QED
  BY <1>1, TypeCorrect, QueueStep, PTL DEF Spec

\* A step that leaves setted and every program counter but t's alone, where t is
\* neither a setter about to signal nor a thread on its way to the flag.
LEMMA WakeupFrame ==
  ASSUME TypeOK, NoLostWakeup, NEW t \in Threads,
         setted' = setted, broadcast' = broadcast,
         \A u \in Threads \ {t} : pc'[u] = pc[u] /\ req'[u] = req[u],
         pc'[t] # "blocked",
         pc[t] # "signal", pc[t] # "woken",
         ~(pc[t] = "locked" /\ req[t] \in Waits)
  PROVE  NoLostWakeup'
BY DEF TypeOK, NoLostWakeup, Blocked

LEMMA WakeupStep == TypeOK /\ QueueOK /\ NoLostWakeup /\ [Next]_vars => NoLostWakeup'
<1> SUFFICES ASSUME TypeOK, QueueOK, NoLostWakeup, [Next]_vars
                  PROVE NoLostWakeup'
  OBVIOUS
<1> USE DEF At, Goto, Result
<1>1. CASE UNCHANGED vars
  BY <1>1 DEF vars, NoLostWakeup, Blocked
<1>2. ASSUME NEW t \in Threads, NEW c \in Calls, call(t, c) PROVE NoLostWakeup'
  BY <1>2, WakeupFrame DEF call, TypeOK
<1>3. ASSUME NEW t \in Threads, mutex_lock(t) PROVE NoLostWakeup'
  <2>1. CASE pc[t] = "lock"
    BY <1>3, <2>1, WakeupFrame DEF mutex_lock, TypeOK
  <2>2. CASE pc[t] = "woken"
    BY <1>3, <2>2 DEF mutex_lock, NoLostWakeup, TypeOK, QueueOK, Blocked, Waits
  <2> QED
    BY <1>3, <2>1, <2>2 DEF mutex_lock
<1>4. ASSUME NEW t \in Threads, trylock_fails(t) PROVE NoLostWakeup'
  BY <1>4, WakeupFrame DEF trylock_fails, TypeOK
<1>5. ASSUME NEW t \in Threads, wait_succeeds(t) PROVE NoLostWakeup'
  BY <1>5 DEF wait_succeeds, Consumed, NoLostWakeup, TypeOK, Blocked
<1>6. ASSUME NEW t \in Threads, wait_again(t) PROVE NoLostWakeup'
  BY <1>6 DEF wait_again, NoLostWakeup
<1>7. ASSUME NEW t \in Threads, wait_blocks(t) PROVE NoLostWakeup'
  BY <1>7 DEF wait_blocks, NoLostWakeup
<1>8. ASSUME NEW t \in Threads, timeout_returns(t) PROVE NoLostWakeup'
  BY <1>8, WakeupFrame DEF timeout_returns, TypeOK
<1>9. ASSUME NEW t \in Threads, reset(t) PROVE NoLostWakeup'
  BY <1>9 DEF reset, NoLostWakeup
<1>10. ASSUME NEW t \in Threads, set_flag(t) PROVE NoLostWakeup'
  BY <1>10 DEF set_flag, NoLostWakeup, TypeOK
<1>11. ASSUME NEW t \in Threads, set_signal(t) PROVE NoLostWakeup'
  <2>1. PICK W \in Wakes :
          pc' = [u \in Threads |-> IF u = t THEN "unlock"
                                   ELSE IF u \in W THEN "woken" ELSE pc[u]]
    BY <1>11 DEF set_signal
  <2>2. CASE broadcast \/ Blocked = {}
    BY <2>1, <2>2 DEF Wakes, Blocked, NoLostWakeup
  <2>3. CASE ~broadcast /\ Blocked # {}
    <3>1. PICK w \in Blocked : W = {w}
      BY <2>1, <2>3 DEF Wakes
    <3>2. w \in Threads /\ w # t /\ pc'[w] = "woken"
      BY <1>11, <2>1, <3>1 DEF Blocked, set_signal
    <3> QED
      BY <1>11, <2>3, <3>2 DEF NoLostWakeup, set_signal
  <2> QED
    BY <2>2, <2>3
<1>12. ASSUME NEW t \in Threads, get_status(t) PROVE NoLostWakeup'
  <2>1. req[t] \notin Waits
    BY <1>12 DEF get_status, Waits
  <2> QED
    BY <1>12, <2>1, WakeupFrame DEF get_status, TypeOK
<1>13. ASSUME NEW t \in Threads, mutex_unlock(t) PROVE NoLostWakeup'
  BY <1>13, WakeupFrame DEF mutex_unlock, TypeOK
<1>14. ASSUME NEW t \in Threads, return(t) PROVE NoLostWakeup'
  BY <1>14, WakeupFrame DEF return, TypeOK
<1>15. ASSUME NEW t \in Threads, spurious_wakeup(t) PROVE NoLostWakeup'
  BY <1>15, WakeupFrame DEF spurious_wakeup, TypeOK
<1>16. ASSUME NEW t \in Threads, timeout(t) PROVE NoLostWakeup'
  BY <1>16, WakeupFrame DEF timeout, TypeOK
<1> QED
  BY <1>1, <1>2, <1>3, <1>4, <1>5, <1>6, <1>7, <1>8, <1>9, <1>10, <1>11, <1>12,
     <1>13, <1>14, <1>15, <1>16 DEF Next, Step

\* cplus_pevent_set never loses a wake-up: a thread blocked on an event that is
\* set has a signal, or a woken thread, on its way.
THEOREM WakeupsKept == Spec => []NoLostWakeup
<1>1. Init => NoLostWakeup
  BY DEF Init, NoLostWakeup, Blocked
<1> QED
  BY <1>1, TypeCorrect, QueueCorrect, WakeupStep, PTL DEF Spec

----------------------------------------------------------------------------
(* Implementation of the atomic event.                                     *)

LEMMA RefinementInit == Init => Abstract!Init
BY DEF Init, Abstract!Init

LEMMA RefinementStep ==
  TypeOK /\ QueueOK /\ [Next]_vars => [Abstract!Next]_(Abstract!evars)
<1> SUFFICES ASSUME TypeOK, QueueOK, [Next]_vars
             PROVE  Abstract!Next \/ UNCHANGED Abstract!evars
  BY DEF Abstract!evars
<1> USE DEF TypeOK, At, Goto, Result
<1>1. CASE UNCHANGED vars
  BY <1>1 DEF vars, Abstract!evars
<1>2. ASSUME NEW t \in Threads, NEW c \in Calls, call(t, c)
      PROVE Abstract!Call(t, c)
  BY <1>2 DEF call, Abstract!Call
<1>3. ASSUME NEW t \in Threads, trylock_fails(t) PROVE Abstract!WaitFails(t)
  BY <1>3 DEF trylock_fails, Abstract!WaitFails, Abstract!Complete
<1>4. ASSUME NEW t \in Threads, wait_succeeds(t) PROVE Abstract!WaitSucceeds(t)
  BY <1>4 DEF wait_succeeds, Consumed, Waits, Abstract!WaitSucceeds,
              Abstract!Complete, Abstract!Waits
<1>5. ASSUME NEW t \in Threads, wait_again(t) PROVE Abstract!WaitFails(t)
  BY <1>5 DEF wait_again, Abstract!WaitFails, Abstract!Complete
<1>6. ASSUME NEW t \in Threads, timeout_returns(t) PROVE Abstract!WaitFails(t)
  BY <1>6 DEF timeout_returns, QueueOK, Abstract!WaitFails, Abstract!Complete
<1>7. ASSUME NEW t \in Threads, reset(t) PROVE Abstract!Reset(t)
  BY <1>7 DEF reset, Abstract!Reset, Abstract!Complete
<1>8. ASSUME NEW t \in Threads, set_flag(t) PROVE Abstract!Set(t)
  BY <1>8 DEF set_flag, Abstract!Set, Abstract!Complete
<1>9. ASSUME NEW t \in Threads, get_status(t) PROVE Abstract!GetStatus(t)
  BY <1>9 DEF get_status, Abstract!GetStatus, Abstract!Complete
<1>10. ASSUME NEW t \in Threads, return(t) PROVE Abstract!Return(t)
  BY <1>10 DEF return, Abstract!Return
<1>11. ASSUME NEW t \in Threads, set_signal(t) PROVE UNCHANGED Abstract!evars
  <2>1. PICK W \in Wakes :
          pc' = [u \in Threads |-> IF u = t THEN "unlock"
                                   ELSE IF u \in W THEN "woken" ELSE pc[u]]
    BY <1>11 DEF set_signal
  <2>2. \A u \in W : pc[u] = "blocked"
    BY <2>1 DEF Wakes, Blocked
  <2> QED
    BY <1>11, <2>1, <2>2 DEF set_signal, Abstract!evars
<1>12. ASSUME NEW t \in Threads,
              \/ mutex_lock(t) \/ wait_blocks(t) \/ mutex_unlock(t)
              \/ spurious_wakeup(t) \/ timeout(t)
       PROVE UNCHANGED Abstract!evars
  BY <1>12 DEF mutex_lock, wait_blocks, mutex_unlock, spurious_wakeup, timeout,
               Abstract!evars
<1>13. Calls = Abstract!Calls
  BY DEF Calls, Waits, Abstract!Calls, Abstract!Waits
<1> QED
  BY <1>1, <1>2, <1>3, <1>4, <1>5, <1>6, <1>7, <1>8, <1>9, <1>10, <1>11, <1>12,
     <1>13 DEF Next, Step, Abstract!Next

\* The event of pevent.c, with its mutex, condition variable, spurious wake-ups
\* and timeouts, implements the atomic event: in particular an auto-reset event
\* releases one wait per set, and a wait without a timeout never fails.
THEOREM EventImplemented == Spec => ImplementsEvent
<1> QED
  BY TypeCorrect, QueueCorrect, RefinementInit, RefinementStep, PTL
  DEF Spec, ImplementsEvent, Abstract!Spec
=============================================================================
