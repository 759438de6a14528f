-------------------------------- MODULE Task --------------------------------
(***************************************************************************)
(* A task of task.c: the thread that runs task_executor, the client that   *)
(* controls it, and the four events between them.  The events are atomic   *)
(* here, which is what module PEvent is proved to implement.               *)
(***************************************************************************)
EXTENDS Naturals

CONSTANT NewDurations    \* durations set while the task runs

INFINITE == 9            \* CPLUS_INFINITE_TIMEOUT, the largest: a one-shot task

ASSUME TaskAssumption ==
  NewDurations \subseteq {0, 1, INFINITE}

VARIABLES duration,      \* task->duration: 0, 1 or INFINITE
          evt_start, evt_stop, evt_finish, evt_pause,
          ex,            \* where the executor thread is
          ctl,           \* where the client is in cplus_task_stop
          cancel,        \* pthread_cancel was called on the thread
          freed,         \* the struct and its events have been freed
          asked,         \* ghost: a start was asked for
          ran,           \* ghost: proc has been called
          early,         \* ghost: this round called cplus_task_set_loop_finish
          since_pause,   \* ghost: calls of proc begun since the task was paused
          since_stop,    \* ghost: calls of proc begun since evt_stop was set
          uaf            \* ghost: freed memory has been used, or freed again

task == <<duration, evt_start, evt_stop, evt_finish, evt_pause>>
ghosts == <<asked, ran, early, since_pause, since_stop>>
vars == <<task, ex, ctl, cancel, freed, ghosts, uaf>>

\* task_initialize_object, with its constructors: a suspended task waits for
\* cplus_task_start.
Init ==
  /\ duration \in {0, 1, INFINITE}
  /\ evt_start \in BOOLEAN
  /\ evt_stop = FALSE /\ evt_finish = FALSE /\ evt_pause = TRUE
  /\ ex = "wait_start" /\ ctl = "idle"
  /\ cancel = FALSE /\ freed = FALSE
  /\ asked = evt_start
  /\ ran = FALSE /\ early = FALSE
  /\ since_pause = 0 /\ since_stop = 0
  /\ uaf = FALSE

\* A step that reads or writes the struct or one of its events.
Touch == uaf' = (uaf \/ freed)
Goto(l) == ex' = l /\ Touch
CtlGoto(l) == ctl' = l /\ Touch

----------------------------------------------------------------------------
(* The executor.                                                           *)

ex_started ==
  /\ ex = "wait_start" /\ evt_start
  /\ Goto("check_stop")
  /\ UNCHANGED <<task, ctl, cancel, freed, ghosts>>

\* cplus_pevent_wait(evt_stop, 0): success, or EBUSY because cplus_task_stop is
\* setting the event at this moment, ends the loop; EAGAIN goes on.
MutCheckStop ==
  /\ ex = "check_stop"
  /\ Goto("check_pause")
  /\ UNCHANGED <<task, ctl, cancel, freed, ghosts>>
ex_check_stop ==
  /\ ex = "check_stop"
  /\ \/ evt_stop /\ Goto("end")
     \/ ~evt_stop /\ ctl = "set_stop" /\ Goto("end")
     \/ ~evt_stop /\ Goto("check_pause")
  /\ UNCHANGED <<task, ctl, cancel, freed, ghosts>>

MutCheckPause ==
  /\ ex = "check_pause"
  /\ Goto("reset_finish")
  /\ UNCHANGED <<task, ctl, cancel, freed, ghosts>>
ex_check_pause ==
  /\ ex = "check_pause" /\ evt_pause
  /\ Goto("reset_finish")
  /\ UNCHANGED <<task, ctl, cancel, freed, ghosts>>

Count(n) == IF n < 2 THEN n + 1 ELSE n

\* evt_finish is reset and proc is called.
ex_reset_finish ==
  /\ ex = "reset_finish"
  /\ Goto("proc")
  /\ evt_finish' = FALSE
  /\ ran' = TRUE /\ early' = FALSE
  /\ since_pause' = IF evt_pause THEN 0 ELSE Count(since_pause)
  /\ since_stop' = IF evt_stop THEN Count(since_stop) ELSE 0
  /\ UNCHANGED <<duration, evt_start, evt_stop, evt_pause, ctl, cancel, freed, asked>>

\* proc may call cplus_task_set_loop_finish, cplus_task_reset_loop_finish and
\* cplus_task_set_loop_duration.
proc_set_loop_finish ==
  /\ ex = "proc" /\ Goto("proc")
  /\ evt_finish' = TRUE /\ early' = TRUE
  /\ UNCHANGED <<duration, evt_start, evt_stop, evt_pause, ctl, cancel, freed,
                 asked, ran, since_pause, since_stop>>

proc_reset_loop_finish ==
  /\ ex = "proc" /\ Goto("proc")
  /\ evt_finish' = FALSE
  /\ UNCHANGED <<duration, evt_start, evt_stop, evt_pause, ctl, cancel, freed, ghosts>>

proc_set_loop_duration(d) ==
  /\ ex = "proc" /\ Goto("proc")
  /\ duration' = d
  /\ UNCHANGED <<evt_start, evt_stop, evt_finish, evt_pause, ctl, cancel, freed, ghosts>>

proc_returns ==
  /\ ex = "proc" /\ Goto("set_finish")
  /\ UNCHANGED <<task, ctl, cancel, freed, ghosts>>

\* After a round: evt_finish is set; a one-shot leaves the loop.
ex_set_finish ==
  /\ ex = "set_finish"
  /\ Goto("read_duration")
  /\ evt_finish' = TRUE
  /\ UNCHANGED <<duration, evt_start, evt_stop, evt_pause, ctl, cancel, freed, ghosts>>

ex_read_duration ==
  /\ ex = "read_duration"
  /\ \/ duration = INFINITE /\ Goto("end")
     \/ duration = 1 /\ Goto("wait_stop")    \* duration > diff_timestamp
     \/ duration # INFINITE /\ Goto("sleep")
  /\ UNCHANGED <<task, ctl, cancel, freed, ghosts>>

\* cplus_pevent_wait(evt_stop, rest of the period): it is set, or time is up.
ex_wait_stop ==
  /\ ex = "wait_stop"
  /\ Goto("check_stop")
  /\ UNCHANGED <<task, ctl, cancel, freed, ghosts>>

ex_sleep ==
  /\ ex = "sleep"
  /\ ex' = "check_stop"
  /\ UNCHANGED <<task, ctl, cancel, freed, ghosts, uaf>>

ex_end ==
  /\ ex = "end"
  /\ Goto("cleanup")
  /\ evt_finish' = TRUE
  /\ UNCHANGED <<duration, evt_start, evt_stop, evt_pause, ctl, cancel, freed, ghosts>>

\* pthread_cancel takes effect asynchronously, at any point.
ex_cancelled ==
  /\ cancel
  /\ ex \notin {"cleanup", "dead"}
  /\ ex' = "cleanup"
  /\ UNCHANGED <<task, ctl, cancel, freed, ghosts, uaf>>

\* cancel_in_routine: a one-shot calls the callback and frees its own task.
ex_cleanup ==
  /\ ex = "cleanup"
  /\ Goto("dead")
  /\ freed' = (freed \/ duration = INFINITE)
  /\ UNCHANGED <<task, ctl, cancel, ghosts>>

Executor ==
  \/ ex_started \/ ex_check_stop \/ ex_check_pause \/ ex_reset_finish
  \/ proc_returns \/ ex_set_finish \/ ex_read_duration
  \/ ex_wait_stop \/ ex_sleep \/ ex_end \/ ex_cancelled \/ ex_cleanup

----------------------------------------------------------------------------
(* The client.  It uses the task until cplus_task_stop returns; of a task  *)
(* that frees itself it only calls start, and only while it is suspended.  *)

MayUse == ctl = "idle" /\ (duration # INFINITE \/ ~evt_start)

start ==
  /\ MayUse
  /\ CtlGoto("idle")
  /\ evt_start' = TRUE /\ asked' = TRUE
  /\ UNCHANGED <<duration, evt_stop, evt_finish, evt_pause, ex, cancel, freed,
                 ran, early, since_pause, since_stop>>

pause(b) ==
  /\ MayUse /\ duration # INFINITE
  /\ CtlGoto("idle")
  /\ evt_pause' = ~b
  /\ since_pause' = IF evt_pause THEN 0 ELSE since_pause
  /\ UNCHANGED <<duration, evt_start, evt_stop, evt_finish, ex, cancel, freed,
                 asked, ran, early, since_stop>>

set_duration(d) ==
  /\ MayUse /\ duration # INFINITE
  /\ CtlGoto("idle")
  /\ duration' = d
  /\ UNCHANGED <<evt_start, evt_stop, evt_finish, evt_pause, ex, cancel, freed, ghosts>>

\* cplus_task_wait_finish succeeds; evt_finish is an auto-reset event.
wait_finish ==
  /\ MayUse /\ duration # INFINITE
  /\ evt_finish
  /\ CtlGoto("idle")
  /\ evt_finish' = FALSE
  /\ UNCHANGED <<duration, evt_start, evt_stop, evt_pause, ex, cancel, freed, ghosts>>

\* cplus_task_stop (it does nothing to a one-shot).
stop ==
  /\ MayUse /\ duration # INFINITE
  /\ CtlGoto("set_stop")
  /\ UNCHANGED <<task, ex, cancel, freed, ghosts>>

stop_set_stop ==
  /\ ctl = "set_stop"
  /\ CtlGoto("set_start")
  /\ evt_stop' = TRUE
  /\ UNCHANGED <<duration, evt_start, evt_finish, evt_pause, ex, cancel, freed, ghosts>>

stop_set_start ==
  /\ ctl = "set_start"
  /\ CtlGoto("wait_finish")
  /\ evt_start' = TRUE
  /\ UNCHANGED <<duration, evt_stop, evt_finish, evt_pause, ex, cancel, freed, ghosts>>

stop_finished ==
  /\ ctl = "wait_finish" /\ evt_finish
  /\ CtlGoto("join")
  /\ evt_finish' = FALSE
  /\ UNCHANGED <<duration, evt_start, evt_stop, evt_pause, ex, cancel, freed, ghosts>>

\* The wait for evt_finish times out (after 60 s at most): pthread_cancel, and
\* the thread is not joined.
stop_gives_up ==
  /\ ctl = "wait_finish"
  /\ CtlGoto("delete")
  /\ cancel' = TRUE
  /\ UNCHANGED <<task, ex, freed, ghosts>>

MutStopJoin ==
  /\ ctl = "join"
  /\ CtlGoto("delete")
  /\ UNCHANGED <<task, ex, cancel, freed, ghosts>>
stop_join ==
  /\ ctl = "join" /\ ex = "dead"
  /\ CtlGoto("delete")
  /\ UNCHANGED <<task, ex, cancel, freed, ghosts>>

\* cplus_task_delete at the end of cplus_task_stop.
stop_delete ==
  /\ ctl = "delete"
  /\ CtlGoto("stopped")
  /\ freed' = TRUE
  /\ UNCHANGED <<task, ex, cancel, ghosts>>

Stopper ==
  stop_set_stop \/ stop_set_start \/ stop_finished \/ stop_join \/ stop_delete

Next ==
  \/ Executor \/ Stopper \/ stop_gives_up
  \/ proc_set_loop_finish \/ proc_reset_loop_finish
  \/ \E d \in NewDurations : proc_set_loop_duration(d) \/ set_duration(d)
  \/ start \/ stop \/ wait_finish
  \/ \E b \in BOOLEAN : pause(b)

\* Both threads keep running, proc returns, and a timed wait ends.
Spec ==
  /\ Init /\ [][Next]_vars
  /\ WF_vars(Executor) /\ WF_vars(proc_returns) /\ WF_vars(Stopper \/ stop_gives_up)

----------------------------------------------------------------------------
(* Properties.                                                             *)

\* task.c frees the task once, and neither thread uses it afterwards, unless
\* cplus_task_stop gave up waiting and cancelled the thread.
NoUseAfterFree == uaf => cancel

\* Stopping a task that was never started wakes its thread, but proc is not
\* called: cplus_task_stop sets evt_stop before evt_start.
NeverRunsUnasked == ran => asked

\* cplus_task_pause takes effect: at most the round already begun runs.
PauseEffective == since_pause <= 1

\* cplus_task_stop takes effect: once evt_stop is set, at most one more round
\* begins.
StopEffective == since_stop <= 1

\* evt_finish is not set while proc runs, unless proc announced its end itself.
FinishMeansIdle == (ex = "proc" /\ ~early) => ~evt_finish

\* The calls of task.c take effect: start, pause and stop, whatever the thread is
\* doing, and evt_finish means that proc is not running.
ControlEffective ==
  NeverRunsUnasked /\ PauseEffective /\ StopEffective /\ FinishMeansIdle

\* A stop of a task that is not paused returns, provided proc does.
UnpausedStopReturns == (ctl = "set_stop" /\ evt_pause) ~> (ctl = "stopped")

\* cplus_task_stop returns, provided proc does, paused or not: the test of
\* task.c expects CPLUS_SUCCESS of a stop that follows a pause.
StopReturns == (ctl = "set_stop") ~> (ctl = "stopped")
=============================================================================
