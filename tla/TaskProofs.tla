----------------------------- MODULE TaskProofs -----------------------------
(***************************************************************************)
(* Proofs about module Task.  Both invariants follow the two threads       *)
(* through their program counters: Lifetime says who may still free the    *)
(* task, Control what each event means for the executor's next round.      *)
(***************************************************************************)
EXTENDS Task, TLAPS

\* Until the thread is cancelled: the client deletes the task only after the
\* thread has ended, the thread frees only a one-shot, and of a one-shot that
\* was started the client no longer knows.
Lifetime ==
  ~cancel =>
    /\ ~uaf
    /\ ex # "wait_start" => evt_start
    /\ ctl # "idle" => duration # INFINITE
    /\ ctl \in {"delete", "stopped"} => ex = "dead"
    /\ freed => /\ ex = "dead"
                /\ ctl = "stopped" \/ (ctl = "idle" /\ duration = INFINITE /\ evt_start)

\* Where the executor may be, given what was asked of it.
Control ==
  /\ ex \notin {"wait_start", "cleanup", "dead"} => evt_start
  /\ ctl \notin {"idle", "set_stop"} => evt_stop
  /\ ~asked => /\ evt_start => evt_stop
               /\ ~ran
               /\ ex \notin {"check_pause", "reset_finish", "proc"}
  /\ since_pause \in {0, 1}
  /\ (ex = "reset_finish" /\ ~evt_pause) => since_pause = 0
  /\ since_stop \in {0, 1}
  /\ ~evt_stop => since_stop = 0
  /\ ex \in {"check_pause", "reset_finish"} => since_stop = 0
  /\ (ex = "proc" /\ ~early) => ~evt_finish

----------------------------------------------------------------------------

LEMMA TaskInit == Init => Lifetime /\ Control
BY DEF Init, Lifetime, Control

\* Every step of either thread, named.
LEMMA TaskSteps ==
  ASSUME Next
  PROVE  \/ ex_started \/ ex_check_stop \/ ex_check_pause \/ ex_reset_finish
         \/ proc_returns \/ ex_set_finish \/ ex_read_duration
         \/ ex_wait_stop \/ ex_sleep \/ ex_end \/ ex_cancelled \/ ex_cleanup
         \/ stop_set_stop \/ stop_set_start \/ stop_finished \/ stop_join \/ stop_delete
         \/ stop_gives_up \/ proc_set_loop_finish \/ proc_reset_loop_finish
         \/ (\E d \in NewDurations : proc_set_loop_duration(d))
         \/ (\E d \in NewDurations : set_duration(d))
         \/ start \/ stop \/ wait_finish
         \/ (\E b \in BOOLEAN : pause(b))
BY DEF Next, Executor, Stopper

\* No step of either thread frees the task under the other.
LEMMA LifetimeStep ==
  ASSUME Lifetime, INFINITE \notin NewDurations, [Next]_vars
  PROVE  Lifetime'
<1> USE DEF Lifetime, Goto, CtlGoto, Touch, task, ghosts, MayUse
<1>1. CASE ex_started
  BY <1>1 DEF ex_started
<1>2. CASE ex_check_stop
  BY <1>2 DEF ex_check_stop
<1>3. CASE ex_check_pause
  BY <1>3 DEF ex_check_pause
<1>4. CASE ex_reset_finish
  BY <1>4 DEF ex_reset_finish
<1>5. CASE proc_returns
  BY <1>5 DEF proc_returns
<1>6. CASE ex_set_finish
  BY <1>6 DEF ex_set_finish
<1>7. CASE ex_read_duration
  BY <1>7 DEF ex_read_duration
<1>8. CASE ex_wait_stop
  BY <1>8 DEF ex_wait_stop
<1>9. CASE ex_sleep
  BY <1>9 DEF ex_sleep
<1>10. CASE ex_end
  BY <1>10 DEF ex_end
<1>11. CASE ex_cancelled
  BY <1>11 DEF ex_cancelled
<1>12. CASE ex_cleanup
  BY <1>12 DEF ex_cleanup
<1>13. CASE stop_set_stop
  BY <1>13 DEF stop_set_stop
<1>14. CASE stop_set_start
  BY <1>14 DEF stop_set_start
<1>15. CASE stop_finished
  BY <1>15 DEF stop_finished
<1>16. CASE stop_join
  BY <1>16 DEF stop_join
<1>17. CASE stop_delete
  BY <1>17 DEF stop_delete
<1>18. CASE stop_gives_up
  BY <1>18 DEF stop_gives_up
<1>19. CASE proc_set_loop_finish
  BY <1>19 DEF proc_set_loop_finish
<1>20. CASE proc_reset_loop_finish
  BY <1>20 DEF proc_reset_loop_finish
<1>21. ASSUME NEW d \in NewDurations, proc_set_loop_duration(d) PROVE Lifetime'
  BY <1>21 DEF proc_set_loop_duration
<1>22. ASSUME NEW d \in NewDurations, set_duration(d) PROVE Lifetime'
  BY <1>22 DEF set_duration
<1>23. CASE start
  BY <1>23 DEF start
<1>24. CASE stop
  BY <1>24 DEF stop
<1>25. CASE wait_finish
  BY <1>25 DEF wait_finish
<1>26. ASSUME NEW b \in BOOLEAN, pause(b) PROVE Lifetime'
  BY <1>26 DEF pause
<1>27. CASE UNCHANGED vars
  BY <1>27 DEF vars
<1> QED
  BY TaskSteps, <1>1, <1>2, <1>3, <1>4, <1>5, <1>6, <1>7, <1>8, <1>9, <1>10,
     <1>11, <1>12, <1>13, <1>14, <1>15, <1>16, <1>17, <1>18, <1>19, <1>20,
     <1>21, <1>22, <1>23, <1>24, <1>25, <1>26, <1>27

\* No step lets the executor begin a round it was asked not to begin.
LEMMA ControlStep ==
  ASSUME Control, [Next]_vars
  PROVE  Control'
<1> USE DEF Control, Goto, CtlGoto, Touch, task, ghosts, MayUse
<1>1. CASE ex_started
  BY <1>1 DEF ex_started
<1>2. CASE ex_check_stop
  BY <1>2 DEF ex_check_stop
<1>3. CASE ex_check_pause
  BY <1>3 DEF ex_check_pause
<1>4. CASE ex_reset_finish
  BY <1>4 DEF ex_reset_finish, Count
<1>5. CASE proc_returns
  BY <1>5 DEF proc_returns
<1>6. CASE ex_set_finish
  BY <1>6 DEF ex_set_finish
<1>7. CASE ex_read_duration
  BY <1>7 DEF ex_read_duration
<1>8. CASE ex_wait_stop
  BY <1>8 DEF ex_wait_stop
<1>9. CASE ex_sleep
  BY <1>9 DEF ex_sleep
<1>10. CASE ex_end
  BY <1>10 DEF ex_end
<1>11. CASE ex_cancelled
  BY <1>11 DEF ex_cancelled
<1>12. CASE ex_cleanup
  BY <1>12 DEF ex_cleanup
<1>13. CASE stop_set_stop
  BY <1>13 DEF stop_set_stop
<1>14. CASE stop_set_start
  BY <1>14 DEF stop_set_start
<1>15. CASE stop_finished
  BY <1>15 DEF stop_finished
<1>16. CASE stop_join
  BY <1>16 DEF stop_join
<1>17. CASE stop_delete
  BY <1>17 DEF stop_delete
<1>18. CASE stop_gives_up
  BY <1>18 DEF stop_gives_up
<1>19. CASE proc_set_loop_finish
  BY <1>19 DEF proc_set_loop_finish
<1>20. CASE proc_reset_loop_finish
  BY <1>20 DEF proc_reset_loop_finish
<1>21. ASSUME NEW d \in NewDurations, proc_set_loop_duration(d) PROVE Control'
  BY <1>21 DEF proc_set_loop_duration
<1>22. ASSUME NEW d \in NewDurations, set_duration(d) PROVE Control'
  BY <1>22 DEF set_duration
<1>23. CASE start
  BY <1>23 DEF start
<1>24. CASE stop
  BY <1>24 DEF stop
<1>25. CASE wait_finish
  BY <1>25 DEF wait_finish
<1>26. ASSUME NEW b \in BOOLEAN, pause(b) PROVE Control'
  BY <1>26 DEF pause
<1>27. CASE UNCHANGED vars
  BY <1>27 DEF vars
<1> QED
  BY TaskSteps, <1>1, <1>2, <1>3, <1>4, <1>5, <1>6, <1>7, <1>8, <1>9, <1>10,
     <1>11, <1>12, <1>13, <1>14, <1>15, <1>16, <1>17, <1>18, <1>19, <1>20,
     <1>21, <1>22, <1>23, <1>24, <1>25, <1>26, <1>27

----------------------------------------------------------------------------

\* task.c frees a task once and uses it no more: cplus_task_delete comes after
\* the join, cancel_in_routine frees one-shots only, and nobody turns a periodic
\* task into a one-shot while it runs (which would free it twice).
THEOREM TaskFreedOnce ==
  ASSUME INFINITE \notin NewDurations
  PROVE  Spec => []NoUseAfterFree
<1>1. Init => Lifetime
  BY TaskInit
<1>2. Lifetime /\ [Next]_vars => Lifetime'
  BY LifetimeStep
<1>3. Lifetime => NoUseAfterFree
  BY DEF Lifetime, NoUseAfterFree
<1> QED
  BY <1>1, <1>2, <1>3, PTL DEF Spec

\* cplus_task_start, _pause and _stop take effect on the executor wherever it is,
\* and evt_finish means that proc is not running, whatever durations are set.
THEOREM TaskControlled == Spec => []ControlEffective
<1>1. Init => Control
  BY TaskInit
<1>2. Control /\ [Next]_vars => Control'
  BY ControlStep
<1>3. Control => ControlEffective
  BY DEF Control, ControlEffective, NeverRunsUnasked, PauseEffective, StopEffective,
         FinishMeansIdle
<1> QED
  BY <1>1, <1>2, <1>3, PTL DEF Spec
=============================================================================
