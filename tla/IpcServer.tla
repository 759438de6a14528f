----------------------------- MODULE IpcServer -----------------------------
(***************************************************************************)
(* The connections of an ipc_server: the accept task of ipc_server.c reaps *)
(* the connections that ended, takes a new one when there is room for it,  *)
(* creates its ipc_conn in the pool and lists it; each ipc_conn has a task *)
(* that receives from its socket.  ipc_conn_sect guards the list and the   *)
(* changes of status.                                                      *)
(***************************************************************************)
EXTENDS Naturals, FiniteSets

CONSTANTS Conns,       \* the blocks of ipc_conn_pool: max_conn of them
          MaxPeers,    \* bound: peers that connect
          MaxErrors    \* bound: receives that fail

VARIABLES free,        \* the free blocks of ipc_conn_pool
          list,        \* ipc_conn_list
          conn,        \* conn[c]: status, sock ("open" or "null"), peer
          task,        \* conn[c]'s task: "none", "idle", "on_error"
          accept_task, \* "idle", "reap", "accept", "create", "status", "push", "call"
          new,         \* the connection being created
          sect,        \* does the accept task hold ipc_conn_sect?
          backlog,     \* peers waiting to be accepted
          peers, errors,
          cancelled,   \* history: a task cancelled when its stop timed out
          alive

NoConn == 0

vars == <<free, list, conn, task, accept_task, new, sect, backlog, peers, errors,
          cancelled, alive>>

Blank == [status |-> "NOT_CONNECTED", sock |-> "null", peer |-> "closed"]

Init ==
  /\ free = Conns /\ list = {}
  /\ conn = [c \in Conns |-> Blank] /\ task = [c \in Conns |-> "none"]
  /\ accept_task = "idle" /\ new = NoConn /\ sect = FALSE
  /\ backlog = 0 /\ peers = 0 /\ errors = 0
  /\ cancelled = {} /\ alive = TRUE

Goto(l) == accept_task' = l
Task(c, l) == task' = [task EXCEPT ![c] = l]

----------------------------------------------------------------------------
(* The peers.                                                              *)

connect ==
  /\ peers < MaxPeers
  /\ peers' = peers + 1 /\ backlog' = backlog + 1
  /\ UNCHANGED <<free, list, conn, task, accept_task, new, sect, errors, cancelled, alive>>

close(c) ==
  /\ conn[c].peer = "open"
  /\ conn' = [conn EXCEPT ![c].peer = "closed"]
  /\ UNCHANGED <<free, list, task, accept_task, new, sect, backlog, peers, errors,
                 cancelled, alive>>

----------------------------------------------------------------------------
(* ipc_conn_proc.                                                          *)

Receiving(c) == alive /\ task[c] = "idle" /\ conn[c].status # "NOT_CONNECTED"

\* Something was received: the status is refreshed.
recv(c) ==
  /\ Receiving(c) /\ conn[c].peer = "open" /\ conn[c].status # "CONNECTED"
  /\ conn' = [conn EXCEPT ![c].status = "CONNECTED"]
  /\ UNCHANGED <<free, list, task, accept_task, new, sect, backlog, peers, errors,
                 cancelled, alive>>

\* Mutant: the status is set before the section is entered, not inside it.
disconnected_early(c) ==
  /\ conn[c].peer = "closed"
  /\ \/ /\ Receiving(c)
        /\ conn' = [conn EXCEPT ![c].status = "NOT_CONNECTED"]
        /\ Task(c, "closing")
     \/ /\ task[c] = "closing" /\ ~sect
        /\ conn' = [conn EXCEPT ![c].sock = "null"]
        /\ Task(c, "idle")
  /\ UNCHANGED <<free, list, accept_task, new, sect, backlog, peers, errors,
                 cancelled, alive>>

\* recv returns 0: on_disconnected is called, the socket deleted and the status
\* set inside the section, and the accept task can reap the connection.
disconnected(c) ==
  /\ conn[c].peer = "closed"
  /\ Receiving(c) /\ ~sect
  /\ conn' = [conn EXCEPT ![c].status = "NOT_CONNECTED", ![c].sock = "null"]
  /\ UNCHANGED <<free, list, task, accept_task, new, sect, backlog, peers, errors,
                 cancelled, alive>>

\* recv fails: the status is set inside the section, on_error called outside it.
recv_fails(c, s) ==
  /\ Receiving(c) /\ ~sect /\ errors < MaxErrors
  /\ errors' = errors + 1
  /\ conn' = [conn EXCEPT ![c].status = s]
  /\ Task(c, "on_error")
  /\ UNCHANGED <<free, list, accept_task, new, sect, backlog, peers, cancelled, alive>>

on_error(c) ==
  /\ task[c] = "on_error"
  /\ Task(c, "idle")
  /\ UNCHANGED <<free, list, conn, accept_task, new, sect, backlog, peers, errors,
                 cancelled, alive>>

----------------------------------------------------------------------------
(* ipc_server_proc.                                                        *)

reap ==
  /\ alive /\ accept_task = "idle"
  /\ sect' = TRUE
  /\ Goto("reap")
  /\ UNCHANGED <<free, list, conn, task, new, backlog, peers, errors, cancelled, alive>>

Ended == {c \in list : conn[c].status = "NOT_CONNECTED"}

\* Mutant: the block is not given back to the pool.
ipc_conn_delete_leak(c) ==
  /\ free' = free
  /\ conn' = [conn EXCEPT ![c] = Blank] /\ Task(c, "none")

\* The connection's task has ended; its socket and its block are given back.
ipc_conn_delete(c) ==
  /\ free' = free \cup {c}
  /\ conn' = [conn EXCEPT ![c] = Blank] /\ Task(c, "none")

\* ipc_conn_delete waits for the task to end what it is doing, or cancels it.
reap_one(c) ==
  /\ alive /\ accept_task = "reap" /\ c \in Ended
  /\ cancelled' = cancelled \cup ({task[c]} \ {"idle"})
  /\ list' = list \ {c}
  /\ ipc_conn_delete(c)
  /\ UNCHANGED <<accept_task, new, sect, backlog, peers, errors, alive>>

\* Mutant: the section is not left on the way round when there is no room.
reaped_kept ==
  /\ alive /\ accept_task = "reap" /\ Ended = {}
  /\ sect' = (Cardinality(list) >= Cardinality(Conns))
  /\ Goto(IF Cardinality(list) < Cardinality(Conns) THEN "accept" ELSE "idle")
  /\ UNCHANGED <<free, list, conn, task, new, backlog, peers, errors, cancelled, alive>>

\* The list is read again when there is no room.
reaped ==
  /\ alive /\ accept_task = "reap" /\ Ended = {}
  /\ sect' = FALSE
  /\ Goto(IF Cardinality(list) < Cardinality(Conns) THEN "accept" ELSE "idle")
  /\ UNCHANGED <<free, list, conn, task, new, backlog, peers, errors, cancelled, alive>>

accept ==
  /\ alive /\ accept_task = "accept" /\ backlog > 0
  /\ backlog' = backlog - 1
  /\ Goto("create")
  /\ UNCHANGED <<free, list, conn, task, new, sect, peers, errors, cancelled, alive>>

\* ipc_conn_create: its task runs and finds the status NOT_CONNECTED.
ipc_conn_create(c) ==
  /\ alive /\ accept_task = "create" /\ c \in free
  /\ free' = free \ {c} /\ new' = c
  /\ conn' = [conn EXCEPT ![c] = [status |-> "NOT_CONNECTED", sock |-> "open",
                                   peer |-> "open"]]
  /\ Task(c, "idle")
  /\ Goto("status")
  /\ UNCHANGED <<list, sect, backlog, peers, errors, cancelled, alive>>

\* It fails for want of memory: ipc_conn_delete closes the socket.
create_fails ==
  /\ alive /\ accept_task = "create" /\ free # {} /\ errors < MaxErrors
  /\ errors' = errors + 1
  /\ Goto("idle")
  /\ UNCHANGED <<free, list, conn, task, new, sect, backlog, peers, cancelled, alive>>

set_status ==
  /\ alive /\ accept_task = "status"
  /\ conn' = [conn EXCEPT ![new].status = "CONNECTED"]
  /\ Goto("push")
  /\ UNCHANGED <<free, list, task, new, sect, backlog, peers, errors, cancelled, alive>>

push ==
  /\ alive /\ accept_task = "push"
  /\ list' = list \cup {new}
  /\ Goto("call")
  /\ UNCHANGED <<free, conn, task, new, sect, backlog, peers, errors, cancelled, alive>>

\* on_connected(sock)
on_connected ==
  /\ alive /\ accept_task = "call"
  /\ new' = NoConn
  /\ Goto("idle")
  /\ UNCHANGED <<free, list, conn, task, sect, backlog, peers, errors, cancelled, alive>>

\* ipc_server_delete: the accept task, then the connections' tasks are stopped
\* or cancelled, and everything is given back.
delete ==
  /\ alive
  /\ alive' = FALSE
  /\ UNCHANGED <<free, list, conn, task, accept_task, new, sect, backlog, peers, errors,
                 cancelled>>

AcceptTask ==
  \/ reap \/ reaped \/ accept \/ set_status \/ push \/ on_connected \/ create_fails
  \/ \E c \in Conns : reap_one(c) \/ ipc_conn_create(c)
ConnTask(c) == recv(c) \/ disconnected(c) \/ on_error(c)

Next ==
  \/ connect \/ AcceptTask \/ delete
  \/ \E c \in Conns :
       \/ close(c) \/ ConnTask(c)
       \/ \E s \in {"FAULT", "NOT_CONNECTED", conn[c].status} : recv_fails(c, s)

\* The tasks run, a task that can enter the section again and again does, and
\* no peer stays for ever.
Fairness ==
  /\ WF_vars(AcceptTask)
  /\ \A c \in Conns : SF_vars(ConnTask(c)) /\ WF_vars(close(c))
Spec == Init /\ [][Next]_vars /\ Fairness

----------------------------------------------------------------------------
(* Properties.                                                             *)

\* Every block of ipc_conn_pool is free, listed, or that of the connection being
\* created; and when a peer has been accepted there is a block for it.
SlotsExact ==
  /\ free \cap list = {}
  /\ free \cup list \cup ({new} \ {NoConn}) = Conns
  /\ accept_task = "create" => free # {}

\* A connection's task never works on a deleted socket, and the accept task never
\* cancels one that is waiting for the section it holds itself: only one whose
\* on_error callback outlasts the stop.
TasksUndisturbed ==
  /\ \A c \in Conns : Receiving(c) => conn[c].sock = "open" /\ c \notin free
  /\ cancelled \subseteq {"on_error"}

\* A peer in the backlog is accepted in the end, also when all connections were
\* taken, unless the server is deleted.
EventuallyAccepted == backlog > 0 ~> (backlog = 0 \/ ~alive)
=============================================================================
