------------------------------- MODULE PEvent -------------------------------
(***************************************************************************)
(* The event of pevent.c: a flag, a mutex and a condition variable.  The   *)
(* mutex and the condition variable are POSIX's (external): a blocked      *)
(* thread leaves the queue when it is signalled, when its timeout passes,  *)
(* or spuriously, and holds the mutex again before its call goes on.       *)
(***************************************************************************)
EXTENDS Integers

CONSTANTS Threads,
          NoThread,  \* the owner of a free mutex
          MaxCalls   \* bound: calls the threads make

ASSUME PEventAssumption == NoThread \notin Threads /\ MaxCalls \in Nat

VARIABLES setted, broadcast, \* (* evt->ptr_setted), (* evt->ptr_broadcast)
          mutex,             \* the thread that holds ptr_mutex, or NoThread
          pc,                \* pc[t]: where t is in its call; "blocked" is in the
                             \* queue of ptr_cond, "woken" and "timedout" have left
                             \* it and wait for the mutex
          req,               \* req[t]: the call t makes, or "none"
          res,               \* res[t]: what it returns, once that is known
          calls              \* how many calls have been made

vars == <<setted, broadcast, mutex, pc, req, res, calls>>

Waits == {"wait0", "timed", "infinite"}
Calls == Waits \cup {"set", "reset", "status"}
Results == {"none", "success", "fail", "true", "false"}
Blocked == {t \in Threads : pc[t] = "blocked"}

At(t, l) == pc[t] = l
Goto(t, l) == pc' = [pc EXCEPT ![t] = l]
Result(t, r) == res' = [res EXCEPT ![t] = r]

\* pevent_initialize_object: with status TRUE the constructor sets the event.
Init ==
  /\ setted \in BOOLEAN /\ broadcast \in BOOLEAN
  /\ mutex = NoThread
  /\ pc = [t \in Threads |-> "idle"]
  /\ req = [t \in Threads |-> "none"]
  /\ res = [t \in Threads |-> "none"]
  /\ calls = 0

call(t, c) ==
  /\ At(t, "idle") /\ calls < MaxCalls
  /\ calls' = calls + 1
  /\ req' = [req EXCEPT ![t] = c]
  /\ Goto(t, "lock")
  /\ UNCHANGED <<setted, broadcast, mutex, res>>

\* pthread_mutex_lock at the start of a call, or when a condition wait ends.
mutex_lock(t) ==
  /\ pc[t] \in {"lock", "woken"}
  /\ mutex = NoThread
  /\ mutex' = t
  /\ Goto(t, "locked")
  /\ UNCHANGED <<setted, broadcast, req, res, calls>>

\* A wait with timeout 0 only tries the mutex: EBUSY, whatever the flag says.
trylock_fails(t) ==
  /\ At(t, "lock") /\ req[t] = "wait0"
  /\ mutex # NoThread
  /\ Goto(t, "done")
  /\ Result(t, "fail")
  /\ UNCHANGED <<setted, broadcast, mutex, req, calls>>

\* unlock_and_wait_cond: the flag is set and, on an auto-reset event, consumed.
Consumed == setted /\ broadcast

wait_succeeds(t) ==
  /\ At(t, "locked") /\ req[t] \in Waits
  /\ setted
  /\ setted' = Consumed
  /\ Goto(t, "unlock")
  /\ Result(t, "success")
  /\ UNCHANGED <<broadcast, mutex, req, calls>>

\* ... it is not set and the timeout is 0: EAGAIN;
wait_again(t) ==
  /\ At(t, "locked") /\ req[t] = "wait0"
  /\ ~setted
  /\ Goto(t, "unlock")
  /\ Result(t, "fail")
  /\ UNCHANGED <<setted, broadcast, mutex, req, calls>>

\* ... it is not set: pthread_cond_wait or _timedwait releases the mutex.
wait_blocks(t) ==
  /\ At(t, "locked") /\ req[t] \in {"timed", "infinite"}
  /\ ~setted
  /\ mutex' = NoThread
  /\ Goto(t, "blocked")
  /\ UNCHANGED <<setted, broadcast, req, res, calls>>

spurious_wakeup(t) ==
  /\ At(t, "blocked")
  /\ Goto(t, "woken")
  /\ UNCHANGED <<setted, broadcast, mutex, req, res, calls>>

timeout(t) ==
  /\ At(t, "blocked") /\ req[t] = "timed"
  /\ Goto(t, "timedout")
  /\ UNCHANGED <<setted, broadcast, mutex, req, res, calls>>

\* ETIMEDOUT ends the loop with -1, also when the flag has been set meanwhile.
MutTimeoutReturns(t) ==
  /\ At(t, "timedout")
  /\ mutex = NoThread
  /\ mutex' = t
  /\ setted' = Consumed
  /\ Goto(t, "unlock")
  /\ Result(t, "fail")
  /\ UNCHANGED <<broadcast, req, calls>>
timeout_returns(t) ==
  /\ At(t, "timedout")
  /\ mutex = NoThread
  /\ mutex' = t
  /\ Goto(t, "unlock")
  /\ Result(t, "fail")
  /\ UNCHANGED <<setted, broadcast, req, calls>>

reset(t) ==
  /\ At(t, "locked") /\ req[t] = "reset"
  /\ setted' = FALSE
  /\ Goto(t, "unlock")
  /\ Result(t, "success")
  /\ UNCHANGED <<broadcast, mutex, req, calls>>

set_flag(t) ==
  /\ At(t, "locked") /\ req[t] = "set"
  /\ setted' = TRUE
  /\ Goto(t, "signal")
  /\ Result(t, "success")
  /\ UNCHANGED <<broadcast, mutex, req, calls>>

\* pthread_cond_broadcast or pthread_cond_signal: the threads it wakes.
MutWakes == {{w} : w \in Blocked} \cup (IF Blocked = {} THEN {{}} ELSE {})
Wakes ==
  IF broadcast \/ Blocked = {} THEN {Blocked} ELSE {{w} : w \in Blocked}

set_signal(t) ==
  /\ At(t, "signal")
  /\ \E W \in Wakes :
       pc' = [u \in Threads |-> IF u = t THEN "unlock"
                                ELSE IF u \in W THEN "woken" ELSE pc[u]]
  /\ UNCHANGED <<setted, broadcast, mutex, req, res, calls>>

get_status(t) ==
  /\ At(t, "locked") /\ req[t] = "status"
  /\ Goto(t, "unlock")
  /\ Result(t, IF setted THEN "true" ELSE "false")
  /\ UNCHANGED <<setted, broadcast, mutex, req, calls>>

mutex_unlock(t) ==
  /\ At(t, "unlock")
  /\ mutex' = NoThread
  /\ Goto(t, "done")
  /\ UNCHANGED <<setted, broadcast, req, res, calls>>

return(t) ==
  /\ At(t, "done")
  /\ Goto(t, "idle")
  /\ req' = [req EXCEPT ![t] = "none"]
  /\ Result(t, "none")
  /\ UNCHANGED <<setted, broadcast, mutex, calls>>

\* What a thread inside a call does by itself.
Step(t) ==
  \/ mutex_lock(t) \/ trylock_fails(t)
  \/ wait_succeeds(t) \/ wait_again(t) \/ wait_blocks(t) \/ timeout_returns(t)
  \/ reset(t) \/ set_flag(t) \/ set_signal(t) \/ get_status(t)
  \/ mutex_unlock(t) \/ return(t)

Next ==
  \E t \in Threads :
    \/ \E c \in Calls : call(t, c)
    \/ Step(t) \/ spurious_wakeup(t) \/ timeout(t)

\* A thread inside a call keeps running.  Calls are bounded, so no thread is
\* kept from the mutex for ever; a spurious wake-up is never relied on.
Fairness == \A t \in Threads : WF_vars(Step(t))
Spec == Init /\ [][Next]_vars /\ Fairness

----------------------------------------------------------------------------
(* Properties.                                                             *)

\* The variables have their types; exactly the thread between lock and unlock
\* of ptr_mutex is its owner.
TypeOK ==
  /\ setted \in BOOLEAN /\ broadcast \in BOOLEAN
  /\ mutex \in Threads \cup {NoThread}
  /\ pc \in [Threads -> {"idle", "lock", "locked", "signal", "unlock", "done",
                         "blocked", "woken", "timedout"}]
  /\ req \in [Threads -> Calls \cup {"none"}]
  /\ res \in [Threads -> Results]
  /\ calls \in 0..MaxCalls
  /\ \A t \in Threads : pc[t] \in {"locked", "signal", "unlock"} <=> mutex = t

\* No wake-up is lost: while the event is set and threads are blocked on it, a
\* setter is about to signal, or (auto-reset) a woken thread is on its way to
\* the flag.  On a broadcast event nobody stays blocked.
NoLostWakeup ==
  (setted /\ Blocked # {}) =>
    \/ \E t \in Threads : pc[t] = "signal"
    \/ ~broadcast /\ \E t \in Threads : \/ pc[t] = "woken"
                                        \/ pc[t] = "locked" /\ req[t] \in Waits

\* A wait without a timeout does not fail, and every call of pevent.c takes
\* effect at one instant: see module Event.
Abstract == INSTANCE Event WITH
  st <- [t \in Threads |->
           IF pc[t] = "idle" THEN "idle"
           ELSE IF pc[t] \in {"signal", "unlock", "done"} THEN "done"
           ELSE "pending"]
ImplementsEvent == Abstract!Spec

\* No thread stays blocked in cplus_pevent_wait on an event that stays set.
NoStuckWaiter ==
  \A t \in Threads : []<>(~setted \/ pc[t] # "blocked")
=============================================================================
