------------------------------- MODULE MCIpc -------------------------------
(***************************************************************************)
(* Model checking ipc_server.c: the receiving end of a connection          *)
(* (IpcStream), the server's connections (IpcServer) and the client's      *)
(* calls (IpcRequest).  They share no variable, so each behaviour is one   *)
(* of one of them: part says of which.                                     *)
(***************************************************************************)
EXTENDS IpcStream

CONSTANTS MaxConn, MaxPeers, MaxErrors, SeqLimit, Tolerance, MaxCalls

ASSUME IpcAssumption ==
  MaxConn \in Nat \ {0} /\ SeqLimit \in Nat \ {0} /\ Tolerance \in Nat

VARIABLES part,
          sv_free, sv_list, sv_conn, sv_task, sv_accept, sv_new, sv_sect, sv_backlog,
          sv_peers, sv_errors, sv_cancelled, sv_alive,
          rq_call, rq_waiting, rq_inbox, rq_wire, rq_result

Serv == INSTANCE IpcServer WITH
  Conns <- 1..MaxConn, MaxPeers <- MaxPeers, MaxErrors <- MaxErrors,
  free <- sv_free, list <- sv_list, conn <- sv_conn, task <- sv_task,
  accept_task <- sv_accept, new <- sv_new, sect <- sv_sect, backlog <- sv_backlog,
  peers <- sv_peers, errors <- sv_errors, cancelled <- sv_cancelled, alive <- sv_alive

Req == INSTANCE IpcRequest WITH
  TOLERANCE_TO_DIFF_SEQUENCE <- Tolerance, call <- rq_call, waiting <- rq_waiting,
  inbox <- rq_inbox, wire <- rq_wire, result <- rq_result

servVars == <<sv_free, sv_list, sv_conn, sv_task, sv_accept, sv_new, sv_sect, sv_backlog,
              sv_peers, sv_errors, sv_cancelled, sv_alive>>
reqVars == <<rq_call, rq_waiting, rq_inbox, rq_wire, rq_result>>
mcVars == <<part, vars, servVars, reqVars>>

Stream(A) == part = "stream" /\ A /\ UNCHANGED <<part, servVars, reqVars>>
Server(A) == part = "server" /\ A /\ UNCHANGED <<part, vars, reqVars>>

MCInit ==
  /\ part \in {"stream", "server", "request"}
  /\ Init /\ Serv!Init /\ Req!Init

MCNext ==
  \/ Stream(Next)
  \/ Server(Serv!Next)
  \/ part = "request" /\ Req!Next /\ UNCHANGED <<part, vars, servVars>>

\* The fairness of IpcStream and of IpcServer.
MCSpec ==
  /\ MCInit /\ [][MCNext]_mcVars
  /\ WF_mcVars(Stream(Analyze))
  /\ WF_mcVars(Stream(\E n \in 1..recv_bufs_size : recv(n)))
  /\ WF_mcVars(Server(Serv!AcceptTask))
  /\ \A c \in 1..MaxConn :
       SF_mcVars(Server(Serv!ConnTask(c))) /\ WF_mcVars(Server(Serv!close(c)))

\* Every block of ipc_conn_pool is free, listed or being set up (IpcServer).
SlotsExact == Serv!SlotsExact

\* No connection's task works on a deleted socket or is cancelled by a reaper it
\* waits for (IpcServer).
TasksUndisturbed == Serv!TasksUndisturbed

\* A peer in the backlog is accepted in the end (IpcServer).
EventuallyAccepted == Serv!EventuallyAccepted

\* A call that succeeds took its own answer (IpcRequest).
OwnReply == Req!OwnReply

\* EILSEQ is for answers too old, or from before the wrap (IpcRequest).
RefusalExplained == Req!RefusalExplained
=============================================================================
