------------------------------ MODULE TaskPool ------------------------------
(***************************************************************************)
(* The task pool of taskpool.c.  Clients add and remove tasks, resize,     *)
(* pause and delete the pool; each worker is a periodic task (module Task) *)
(* whose rounds run task_worker.  A critical section of task_access_sect   *)
(* is one step; the semaphore remain_taskpool is posted after the section  *)
(* of the adder and waited for before the section of the worker.           *)
(***************************************************************************)
EXTENDS Naturals, Sequences, SequencesExt, FiniteSets

CONSTANTS Workers,           \* workers the pool may have (MAX_WORKER_COUNT)
          Clients,           \* threads that add tasks
          MaxTasks,          \* bound: tasks added, numbered in that order
          max_task_count,    \* blocks of task_pool
          MaxManage          \* bound: calls of the managing operations

ASSUME TaskPoolAssumption ==
  /\ MaxTasks \in Nat /\ max_task_count \in Nat \ {0}
  /\ MaxManage \in Nat
  /\ IsFiniteSet(Workers) /\ IsFiniteSet(Clients)

Tasks == 1..MaxTasks
NoTask == 0

VARIABLES get_task_cycling,  \* workers run the listed tasks again and again
          manage,            \* calls to come that remove tasks, clear, resize, pause, delete
          task_list,         \* front of the list first
          current,           \* cursor of task_list (used when cycling)
          free_blocks,       \* free blocks of task_pool
          remain_taskpool,   \* value of the semaphore
          added,             \* tasks added so far
          adding,            \* clients between their section and semaphore_push
          wpc,               \* wpc[w]: where worker w is in its loop; "off": none
          wtask,             \* wtask[w]: the task w runs, or NoTask
          stopping,          \* workers whose evt_stop is set
          paused,            \* workers whose evt_pause is reset
          mgr,               \* "idle", "resize" (a shrink waits), "delete", "deleted"
          status,            \* ghost: what became of each task
          last,              \* ghost: the task fetched last
          lost               \* ghost: tokens that died with a cancelled worker

queue == <<task_list, current, free_blocks>>
workers == <<wpc, wtask>>
control == <<stopping, paused, mgr>>
settings == <<get_task_cycling, manage>>
vars == <<settings, queue, remain_taskpool, added, adding, workers, control, status, last, lost>>

Init ==
  /\ get_task_cycling \in BOOLEAN /\ manage \in 0..MaxManage
  /\ task_list = <<>> /\ current = 1
  /\ free_blocks = max_task_count
  /\ remain_taskpool = 0
  /\ added = 0 /\ adding = {}
  /\ \E W \in SUBSET Workers :
       wpc = [w \in Workers |-> IF w \in W THEN "top" ELSE "off"]
  /\ wtask = [w \in Workers |-> NoTask]
  /\ stopping = {} /\ paused = {} /\ mgr = "idle"
  /\ status = [k \in Tasks |-> "new"]
  /\ last = 0 /\ lost = 0

\* A call of one of the managing operations.
Manage == manage > 0 /\ manage' = manage - 1 /\ UNCHANGED get_task_cycling

\* A client uses the pool until it is being deleted.
Open == mgr \notin {"delete", "deleted"}

----------------------------------------------------------------------------
(* cplus_taskpool_add_task_ex.                                             *)

add_task(c) ==
  /\ Open /\ c \notin adding
  /\ added < MaxTasks
  /\ free_blocks > 0
  /\ added' = added + 1
  /\ free_blocks' = free_blocks - 1
  /\ task_list' = <<added + 1>> \o task_list
  /\ current' = 1
  /\ adding' = IF get_task_cycling THEN adding ELSE adding \cup {c}
  /\ status' = [status EXCEPT ![added + 1] = "queued"]
  /\ UNCHANGED <<settings, remain_taskpool, workers, control, last, lost>>

\* No block is left: CPLUS_FAIL, and no token.
add_fails(c) ==
  /\ Open /\ c \notin adding
  /\ added < MaxTasks
  /\ free_blocks = 0
  /\ added' = added + 1
  /\ status' = [status EXCEPT ![added + 1] = "refused"]
  /\ UNCHANGED <<settings, queue, remain_taskpool, adding, workers, control, last, lost>>

MutAddPush(c) ==
  /\ c \in adding
  /\ adding' = adding \ {c}
  /\ remain_taskpool' = IF remain_taskpool = 0 THEN 1 ELSE remain_taskpool
  /\ UNCHANGED <<settings, queue, added, workers, control, status, last, lost>>
add_push(c) ==
  /\ c \in adding
  /\ adding' = adding \ {c}
  /\ remain_taskpool' = remain_taskpool + 1
  /\ UNCHANGED <<settings, queue, added, workers, control, status, last, lost>>

----------------------------------------------------------------------------
(* A round of a worker.                                                    *)

At(w, l) == wpc[w] = l
Goto(w, l) == wpc' = [wpc EXCEPT ![w] = l]

\* The executor's loop tests evt_stop, then waits for evt_pause.
worker_exits(w) ==
  /\ At(w, "top") /\ w \in stopping
  /\ Goto(w, "off")
  /\ UNCHANGED <<settings, queue, remain_taskpool, added, adding, wtask, control, status, last, lost>>

worker_goes_on(w) ==
  /\ At(w, "top") /\ w \notin stopping
  /\ Goto(w, "pause")
  /\ UNCHANGED <<settings, queue, remain_taskpool, added, adding, wtask, control, status, last, lost>>

worker_begins(w) ==
  /\ At(w, "pause") /\ w \notin paused
  /\ Goto(w, IF get_task_cycling THEN "fetch" ELSE "wait")
  /\ UNCHANGED <<settings, queue, remain_taskpool, added, adding, wtask, control, status, last, lost>>

\* cplus_semaphore_wait_poll: a token, or 3 s pass and the round ends.
worker_waits(w) ==
  /\ At(w, "wait")
  /\ remain_taskpool > 0
  /\ remain_taskpool' = remain_taskpool - 1
  /\ Goto(w, "fetch")
  /\ UNCHANGED <<settings, queue, added, adding, wtask, control, status, last, lost>>

worker_times_out(w) ==
  /\ At(w, "wait")
  /\ remain_taskpool = 0
  /\ Goto(w, "top")
  /\ UNCHANGED <<settings, queue, remain_taskpool, added, adding, wtask, control, status, last, lost>>

MutPop == [task |-> Head(task_list), rest |-> Tail(task_list)]
\* fetch_task is cplus_llist_pop_back: the oldest task is at the back.
Pop == [task |-> Last(task_list), rest |-> Front(task_list)]

\* The task is copied and its block freed in the section.
MutFetch(w) ==
  /\ ~get_task_cycling /\ At(w, "fetch") /\ task_list # <<>>
  /\ wtask' = [wtask EXCEPT ![w] = Pop.task]
  /\ status' = [status EXCEPT ![Pop.task] = "running"]
  /\ last' = Pop.task
  /\ task_list' = Pop.rest
  /\ current' = 1
  /\ Goto(w, "run")
  /\ UNCHANGED <<settings, free_blocks, remain_taskpool, added, adding, control, lost>>
worker_fetches(w) ==
  /\ ~get_task_cycling /\ At(w, "fetch") /\ task_list # <<>>
  /\ wtask' = [wtask EXCEPT ![w] = Pop.task]
  /\ status' = [status EXCEPT ![Pop.task] = "running"]
  /\ last' = Pop.task
  /\ task_list' = Pop.rest
  /\ current' = 1
  /\ free_blocks' = free_blocks + 1
  /\ Goto(w, "run")
  /\ UNCHANGED <<settings, remain_taskpool, added, adding, control, lost>>

MutCyclesHead(w) ==
  /\ get_task_cycling /\ At(w, "fetch") /\ task_list # <<>>
  /\ wtask' = [wtask EXCEPT ![w] = Head(task_list)]
  /\ status' = [status EXCEPT ![Head(task_list)] = "running"]
  /\ last' = Head(task_list)
  /\ current' = 1
  /\ Goto(w, "run")
  /\ UNCHANGED <<settings, task_list, free_blocks, remain_taskpool, added, adding, control, lost>>
\* fetch_task is cplus_llist_get_cycling_next: the task stays in the list.
worker_cycles(w) ==
  /\ get_task_cycling /\ At(w, "fetch") /\ task_list # <<>>
  /\ wtask' = [wtask EXCEPT ![w] = task_list[current]]
  /\ status' = [status EXCEPT ![task_list[current]] = "running"]
  /\ last' = task_list[current]
  /\ current' = IF current < Len(task_list) THEN current + 1 ELSE 1
  /\ Goto(w, "run")
  /\ UNCHANGED <<settings, task_list, free_blocks, remain_taskpool, added, adding, control, lost>>

\* The list is empty (the task of this token was removed): nothing to run.
worker_finds_nothing(w) ==
  /\ At(w, "fetch") /\ task_list = <<>>
  /\ Goto(w, "top")
  /\ UNCHANGED <<settings, queue, remain_taskpool, added, adding, wtask, control, status, last, lost>>

\* proc and callback return.
worker_runs(w) ==
  /\ At(w, "run")
  /\ status' = [status EXCEPT ![wtask[w]] = "done"]
  /\ wtask' = [wtask EXCEPT ![w] = NoTask]
  /\ Goto(w, "top")
  /\ UNCHANGED <<settings, queue, remain_taskpool, added, adding, control, last, lost>>

Worker(w) ==
  \/ worker_exits(w) \/ worker_goes_on(w) \/ worker_begins(w)
  \/ worker_waits(w) \/ worker_times_out(w)
  \/ worker_fetches(w) \/ worker_cycles(w) \/ worker_finds_nothing(w) \/ worker_runs(w)

----------------------------------------------------------------------------
(* The other operations.                                                   *)

\* cplus_taskpool_remove_task: the block is freed; the token stays behind.
remove_task(k) ==
  /\ Manage /\ Open
  /\ \E i \in 1..Len(task_list) :
       task_list[i] = k /\ task_list' = RemoveAt(task_list, i)
  /\ current' = 1
  /\ free_blocks' = free_blocks + 1
  /\ status' = [status EXCEPT ![k] = "removed"]
  /\ UNCHANGED <<remain_taskpool, added, adding, workers, control, last, lost>>

\* No task matches: the search leaves the cursor on the last node.
remove_nothing ==
  /\ Manage /\ Open /\ task_list # <<>>
  /\ current' = Len(task_list)
  /\ UNCHANGED <<task_list, free_blocks, remain_taskpool, added, status, adding,
                 workers, control, last, lost>>

Drained ==
  [k \in Tasks |-> IF \E i \in 1..Len(task_list) : task_list[i] = k
                   THEN "removed" ELSE status[k]]

clear_task ==
  /\ Manage /\ Open /\ task_list # <<>>
  /\ task_list' = <<>> /\ current' = 1
  /\ free_blocks' = free_blocks + Len(task_list)
  /\ status' = Drained
  /\ UNCHANGED <<remain_taskpool, added, adding, workers, control, last, lost>>

\* cplus_taskpool_reset_worker_count: a new worker, or a stop of one.
grow(w) ==
  /\ Manage /\ mgr = "idle"
  /\ At(w, "off")
  /\ Goto(w, "top")
  /\ paused' = paused \ {w}
  /\ UNCHANGED <<queue, remain_taskpool, added, adding, wtask, stopping, mgr, status, last, lost>>

shrink(w) ==
  /\ Manage /\ mgr = "idle"
  /\ ~At(w, "off")
  /\ stopping' = {w}
  /\ mgr' = "resize"
  /\ UNCHANGED <<queue, remain_taskpool, added, adding, workers, paused, status, last, lost>>

shrunk ==
  /\ mgr = "resize"
  /\ \A w \in stopping : At(w, "off")
  /\ stopping' = {}
  /\ mgr' = "idle"
  /\ UNCHANGED <<settings, queue, remain_taskpool, added, adding, workers, paused, status, last, lost>>

\* cplus_task_stop gives up after its timeout and cancels the thread, wherever
\* it is; a task it was running is not finished.
cancel(w) ==
  /\ w \in stopping /\ ~At(w, "off")
  /\ Goto(w, "off")
  /\ wtask' = [wtask EXCEPT ![w] = NoTask]
  /\ status' = IF At(w, "run") THEN [status EXCEPT ![wtask[w]] = "cancelled"] ELSE status
  /\ lost' = IF At(w, "fetch") THEN lost + 1 ELSE lost
  /\ UNCHANGED <<settings, queue, remain_taskpool, added, adding, control, last>>

all_pause(b) ==
  /\ Manage /\ mgr = "idle"
  /\ paused' = IF b THEN {w \in Workers : ~At(w, "off")} ELSE {}
  /\ UNCHANGED <<queue, remain_taskpool, added, adding, workers, stopping, mgr, status, last, lost>>

\* cplus_taskpool_delete_ex, when no client is inside the pool.
delete ==
  /\ Manage /\ mgr = "idle" /\ adding = {}
  /\ mgr' = "delete"
  /\ UNCHANGED <<queue, remain_taskpool, added, adding, workers, stopping, paused,
                 status, last, lost>>

\* The workers are stopped one after the other.
delete_stop(w) ==
  /\ mgr = "delete"
  /\ \A v \in stopping : At(v, "off")
  /\ ~At(w, "off")
  /\ stopping' = {w}
  /\ UNCHANGED <<settings, queue, remain_taskpool, added, adding, workers, paused, mgr,
                 status, last, lost>>

deleted ==
  /\ mgr = "delete"
  /\ \A w \in Workers : At(w, "off")
  /\ mgr' = "deleted"
  /\ task_list' = <<>> /\ current' = 1
  /\ free_blocks' = free_blocks + Len(task_list)
  /\ status' = Drained
  /\ UNCHANGED <<settings, remain_taskpool, added, adding, workers, stopping, paused, last, lost>>

Next ==
  \/ \E c \in Clients : add_task(c) \/ add_fails(c) \/ add_push(c)
  \/ \E w \in Workers : Worker(w) \/ grow(w) \/ shrink(w) \/ cancel(w) \/ delete_stop(w)
  \/ \E k \in Tasks : remove_task(k)
  \/ remove_nothing \/ clear_task \/ shrunk \/ delete \/ deleted
  \/ \E b \in BOOLEAN : all_pause(b)

\* Workers keep running, a task's proc returns, and an adder posts its token.
Spec ==
  /\ Init /\ [][Next]_vars
  /\ \A w \in Workers : WF_vars(Worker(w))
  /\ \A c \in Clients : WF_vars(add_push(c))

----------------------------------------------------------------------------
(* Properties.                                                             *)

Fetching == {w \in Workers : wpc[w] = "fetch"}

\* taskpool.c never strands a task: for each listed task there is a token in the
\* semaphore, an adder about to post one, or a worker that took one and has yet
\* to look into the list; removals leave tokens over, which is harmless.
NoStrandedTask ==
  ~get_task_cycling =>
    Len(task_list) <= remain_taskpool + Cardinality(adding) + Cardinality(Fetching) + lost

\* The blocks of task_pool are those free and those of listed tasks; so ENOMEM
\* means that max_task_count tasks are waiting.
BlocksConserved == free_blocks + Len(task_list) = max_task_count

\* A task is listed or run by one worker, never both, and never by two.
RunsOnce ==
  ~get_task_cycling =>
    /\ \A i, j \in 1..Len(task_list) : task_list[i] = task_list[j] => i = j
    /\ \A v, w \in Workers : (wtask[v] = wtask[w] /\ wtask[v] # NoTask) => v = w
    /\ \A w \in Workers, i \in 1..Len(task_list) : wtask[w] # task_list[i]

\* Tasks begin in the order in which they were added.
OldestFirst ==
  ~get_task_cycling =>
    /\ \A i \in 1..Len(task_list) : last < task_list[i] /\ task_list[i] <= added
    /\ \A i, j \in 1..Len(task_list) : i < j => task_list[j] < task_list[i]

\* A pool that does not cycle runs each task once, in the order of the adds.
OnceInOrder == RunsOnce /\ OldestFirst

\* Every task added to a pool with a worker is run, if nobody removes it, pauses
\* or stops the workers, and every proc returns.
EveryTaskRuns ==
  (manage = 0 /\ ~get_task_cycling /\ \E w \in Workers : wpc[w] # "off") =>
    \A k \in Tasks : (status[k] = "queued") ~> (status[k] = "done")

\* In a cycling pool every listed task is run again and again: an added task,
\* which moves the cursor back to the head, does not starve the others.
EveryTaskCycles ==
  (manage = 0 /\ get_task_cycling /\ \E w \in Workers : wpc[w] # "off") =>
    \A k \in Tasks :
      [](status[k] \notin {"new", "refused"} => <>(\E w \in Workers : wtask[w] = k))

\* Pools of either kind serve every task.
EveryTaskServed == EveryTaskRuns /\ EveryTaskCycles
=============================================================================
