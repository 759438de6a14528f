----------------------------- MODULE MCServices -----------------------------
(***************************************************************************)
(* Model checking what must go on: the spin lock, the logger and the event *)
(* server.  They share no variable, so each behaviour is one of one of     *)
(* them: part says of which.                                               *)
(***************************************************************************)
EXTENDS SpinLock

CONSTANTS MaxMessages, MaxPrints,
          Clients, Remote, CounterMax, IntMod, MaxAdds, MaxConnects

ASSUME ServicesAssumption ==
  MaxMessages \in Nat /\ IntMod \in Nat \ {0}

VARIABLES part,
          lg_free, lg_list, lg_worker, lg_hand, lg_written, lg_handed, lg_spoilt,
          lg_accepted, lg_prints, lg_alive,
          es_config, es_server, es_counter, es_poll, es_value, es_delivered, es_added,
          es_truncated, es_client, es_arg, es_backlog, es_accept, es_calls

lgVars == <<lg_free, lg_list, lg_worker, lg_hand, lg_written, lg_handed, lg_spoilt,
            lg_accepted, lg_prints, lg_alive>>
esVars == <<es_config, es_server, es_counter, es_poll, es_value, es_delivered, es_added,
            es_truncated, es_client, es_arg, es_backlog, es_accept, es_calls>>
mcVars == <<part, vars, lgVars, esVars>>

Log == INSTANCE Syslog WITH
  MAX_MESSAGE_COUNT <- MaxMessages, free <- lg_free, message_list <- lg_list,
  worker <- lg_worker, hand <- lg_hand, written <- lg_written, handed <- lg_handed,
  spoilt <- lg_spoilt, accepted <- lg_accepted, prints <- lg_prints, alive <- lg_alive

ES == INSTANCE EventServer WITH
  config <- es_config, server <- es_server, counter <- es_counter, poll_proc <- es_poll,
  value <- es_value, delivered <- es_delivered, added <- es_added,
  truncated <- es_truncated, client <- es_client, arg <- es_arg, backlog <- es_backlog,
  accept_proc <- es_accept, calls <- es_calls

Spin(A) == part = "spinlock" /\ A /\ UNCHANGED <<part, lgVars, esVars>>
Logger(A) == part = "syslog" /\ A /\ UNCHANGED <<part, vars, esVars>>
Server(A) == part = "event_server" /\ A /\ UNCHANGED <<part, vars, lgVars>>

\* The parts that stand still start in one of their initial states.
MCInit ==
  /\ part \in {"spinlock", "syslog", "event_server"}
  /\ Init /\ Log!Init /\ ES!Init
  /\ part # "spinlock" => serialised /\ obj = [t \in Threads |-> CHOOSE o \in Objects : TRUE]
  /\ part # "event_server" => es_config.sync /\ es_config.nonblock /\ es_config.on_read

MCNext == Spin(Next) \/ Logger(Log!Next) \/ Server(ES!Next)

\* The fairness of SpinLock, Syslog and EventServer.
MCSpec ==
  /\ MCInit /\ [][MCNext]_mcVars
  /\ \A t \in Threads : WF_mcVars(Spin(Step(t)))
  /\ WF_mcVars(Logger(Log!Worker)) /\ SF_mcVars(Logger(Log!Open))
  /\ WF_mcVars(Server(ES!Poll)) /\ WF_mcVars(Server(ES!accept))
  /\ WF_mcVars(Server(ES!ack_timeout))
  /\ \A c \in Clients : WF_mcVars(Server(ES!connect_fails(c))) /\ SF_mcVars(Server(ES!Reply(c)))

\* What was queued is handed to write(2) once and in order, the files are in
\* order, and no block is lost (Syslog).
LogFaithful == Log!LogFaithful

\* What was queued is handed to write(2), and reaches the file if no write
\* fails (Syslog).
EventuallyWritten == Log!EventuallyWritten

\* What clients added is what on_read gets (EventServer).
CountDelivered == ES!CountDelivered

\* Clients that wait come back, and all connections are taken (EventServer).
ClientReturns == ES!ClientReturns
=============================================================================
