---------------------------- MODULE EventServer ----------------------------
(***************************************************************************)
(* event_server.c: a counter in an eventfd (external), a task that polls   *)
(* it and calls on_read with what it read, and a task that passes the      *)
(* descriptor to clients of other processes over a local socket.  Clients  *)
(* add to the counter.  The counter has 64 bits, the callback's value 32.  *)
(***************************************************************************)
EXTENDS Integers, Sequences

CONSTANTS Clients,
          Remote,       \* the clients in other processes: they connect, the others attach
          CounterMax,   \* the largest value of the counter (2^64 - 2)
          IntMod,       \* the values of an int32_t (2^32)
          MaxAdds,      \* bound: calls of add_count
          MaxConnects   \* bound: calls of connect

VARIABLES config,      \* init_val; sync, nonblock (flags); on_read (given or NULL)
          server,      \* "new", "started" or "deleted"
          counter,     \* the eventfd
          poll_proc,   \* "poll", "read" (POLLIN was seen) or "call" (on_read is next)
          value,       \* what the task has read and not yet handed over
          delivered,   \* the sum of the values on_read got
          added,       \* the sum of the counts whose add succeeded
          truncated,   \* history: a value did not fit in an int32_t
          client,      \* client[c]: "none", "connect", "ack", "attached", "write"
          arg,         \* arg[c]: the count c is adding
          backlog,     \* the connections accept has not taken: of a client, or "closed"
          accept_proc, \* the connection whose acknowledgement is awaited, or "idle"
          calls        \* history: [adds, connects]

vars == <<config, server, counter, poll_proc, value, delivered, added, truncated,
          client, arg, backlog, accept_proc, calls>>

events == <<poll_proc, value, delivered, truncated>>
passing == <<backlog, accept_proc>>

Init ==
  /\ config \in [init_val : {1}, sync : BOOLEAN, nonblock : BOOLEAN, on_read : BOOLEAN]
  /\ server = "new" /\ counter = config.init_val
  /\ poll_proc = "poll" /\ value = 0 /\ delivered = 0 /\ added = 0 /\ truncated = FALSE
  /\ client = [c \in Clients |-> "none"] /\ arg = [c \in Clients |-> 0]
  /\ backlog = <<>> /\ accept_proc = "idle" /\ calls = [adds |-> 0, connects |-> 0]

\* What the clients do after the server is deleted is not followed.
Client(c, from, to) ==
  /\ server # "deleted" /\ client[c] = from
  /\ client' = [client EXCEPT ![c] = to]

\* cplus_event_server_start, or the constructor's start; again, it does nothing.
start ==
  /\ server = "new"
  /\ server' = "started"
  /\ UNCHANGED <<config, counter, events, added, client, arg, passing, calls>>

\* cplus_event_server_delete: the tasks are stopped, or cancelled where they wait.
delete ==
  /\ server # "deleted"
  /\ server' = "deleted"
  /\ UNCHANGED <<config, counter, events, added, client, arg, passing, calls>>

----------------------------------------------------------------------------
(* event_poll_proc.                                                        *)

poll ==
  /\ server = "started" /\ poll_proc = "poll" /\ counter > 0
  /\ config.on_read
  /\ poll_proc' = "read"
  /\ UNCHANGED <<config, server, counter, value, delivered, truncated, added, client, arg,
                 passing, calls>>

\* With EFD_SEMAPHORE a read takes one, otherwise all.
read ==
  /\ server = "started" /\ poll_proc = "read"
  /\ value' = IF config.sync THEN 1 ELSE counter
  /\ counter' = counter - value'
  /\ poll_proc' = "call"
  /\ UNCHANGED <<config, server, delivered, truncated, added, client, arg, passing, calls>>

\* (int32_t)(read_value)
int32(v) ==
  LET w == v % IntMod IN IF 2 * w >= IntMod THEN w - IntMod ELSE w

on_read ==
  /\ server = "started" /\ poll_proc = "call"
  /\ delivered' = delivered + int32(value)
  /\ truncated' = (truncated \/ int32(value) # value)
  /\ value' = 0 /\ poll_proc' = "poll"
  /\ UNCHANGED <<config, server, counter, added, client, arg, passing, calls>>

----------------------------------------------------------------------------
(* Clients.                                                                *)

\* cplus_event_client_attach, in the server's process.
attach(c) ==
  /\ c \notin Remote
  /\ Client(c, "none", "attached")
  /\ UNCHANGED <<config, server, counter, events, added, arg, passing, calls>>

\* cplus_event_client_add_count: write(server_efd, &count).
add_count(c, n) ==
  /\ calls.adds < MaxAdds
  /\ Client(c, "attached", "write")
  /\ arg' = [arg EXCEPT ![c] = n]
  /\ calls' = [calls EXCEPT !.adds = @ + 1]
  /\ UNCHANGED <<config, server, counter, events, added, passing>>

write(c) ==
  /\ counter + arg[c] <= CounterMax
  /\ Client(c, "write", "attached")
  /\ counter' = counter + arg[c] /\ added' = added + arg[c]
  /\ arg' = [arg EXCEPT ![c] = 0]
  /\ UNCHANGED <<config, server, events, passing, calls>>

\* Mutant: a write refused with EAGAIN is reported as done.
write_fails_unseen(c) ==
  /\ config.nonblock /\ counter + arg[c] > CounterMax
  /\ Client(c, "write", "attached")
  /\ added' = added + arg[c]
  /\ arg' = [arg EXCEPT ![c] = 0]
  /\ UNCHANGED <<config, server, counter, events, passing, calls>>

\* The counter is full: EAGAIN, CPLUS_FAIL.  A blocking eventfd waits instead.
write_fails(c) ==
  /\ config.nonblock /\ counter + arg[c] > CounterMax
  /\ Client(c, "write", "attached")
  /\ arg' = [arg EXCEPT ![c] = 0]
  /\ UNCHANGED <<config, server, counter, events, added, passing, calls>>

\* cplus_event_client_connect: connect succeeds when it is queued.
connect(c) ==
  /\ c \in Remote /\ calls.connects < MaxConnects
  /\ Client(c, "none", "connect")
  /\ backlog' = Append(backlog, c)
  /\ calls' = [calls EXCEPT !.connects = @ + 1]
  /\ UNCHANGED <<config, server, counter, events, added, arg, accept_proc>>

\* accept_proc: accept, and send_fd, which nobody receives if the end is closed.
accept ==
  /\ server = "started" /\ accept_proc = "idle" /\ backlog # <<>>
  /\ accept_proc' = Head(backlog) /\ backlog' = Tail(backlog)
  /\ client' = [c \in Clients |-> IF c = Head(backlog) THEN "ack" ELSE client[c]]
  /\ UNCHANGED <<config, server, counter, events, added, arg, calls>>

\* The client has the descriptor and sends RECV_FD: the acceptor is released or,
\* if it has given up and closed its end, the send and with it connect fails.
acknowledge(c) ==
  /\ Client(c, "ack", IF accept_proc = c THEN "attached" ELSE "none")
  /\ accept_proc' = IF accept_proc = c THEN "idle" ELSE accept_proc
  /\ UNCHANGED <<config, server, counter, events, added, arg, backlog, calls>>

\* TIMEOUT_FOR_RECV_FD: the client's connect fails and its socket is closed.
connect_fails(c) ==
  /\ Client(c, "connect", "none")
  /\ backlog' = [i \in DOMAIN backlog |-> IF backlog[i] = c THEN "closed" ELSE backlog[i]]
  /\ UNCHANGED <<config, server, counter, events, added, arg, accept_proc, calls>>

\* Mutant: the acceptor waits for the acknowledgement without a timeout.
ack_timeout_never ==
  /\ accept_proc # "idle" /\ FALSE
  /\ UNCHANGED vars

\* TIMEOUT_FOR_RECV_PASS_FD_ACK, or the client has closed its end.
ack_timeout ==
  /\ server = "started" /\ accept_proc # "idle"
  /\ accept_proc' = "idle"
  /\ UNCHANGED <<config, server, counter, events, added, client, arg, backlog, calls>>

Poll == poll \/ read \/ on_read
Reply(c) == write(c) \/ write_fails(c) \/ acknowledge(c)

Next ==
  \/ start \/ delete \/ Poll \/ accept \/ ack_timeout
  \/ \E c \in Clients :
       \/ attach(c) \/ connect(c) \/ connect_fails(c) \/ Reply(c)
       \/ \E n \in {1, IntMod} : add_count(c, n)

\* The tasks run, and calls that can return do; a write that can go on again and
\* again does (the kernel wakes the writers when the counter is read).
Fairness ==
  /\ WF_vars(Poll) /\ WF_vars(accept) /\ WF_vars(ack_timeout)
  /\ \A c \in Clients : WF_vars(connect_fails(c)) /\ SF_vars(Reply(c))
Spec == Init /\ [][Next]_vars /\ Fairness

----------------------------------------------------------------------------
(* Properties.                                                             *)

\* What on_read was given, what the task has in its hand and what is in the
\* counter add up to what the successful adds put in, modulo 2^32, and exactly
\* as long as no value was too large for the callback's int32_t.
CountDelivered ==
  /\ (delivered + value + counter) % IntMod = (config.init_val + added) % IntMod
  /\ ~truncated => delivered + value + counter = config.init_val + added

\* While the server runs, with an on_read, and is not deleted, a client that
\* waits for room in the counter comes back, and the acceptor takes every
\* connection, also after clients that gave up before they got the descriptor.
ClientReturns ==
  /\ \A c \in Clients :
       (server = "started" /\ config.on_read /\ client[c] = "write") ~>
         (server = "deleted" \/ client[c] = "attached")
  /\ (server = "started" /\ backlog # <<>>) ~> (server = "deleted" \/ backlog = <<>>)
=============================================================================
