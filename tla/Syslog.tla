------------------------------- MODULE Syslog -------------------------------
(***************************************************************************)
(* The file logger of syslog.c: the print functions queue their message in *)
(* a block of message_buffer_pool, and a task, started every second, writes*)
(* the queue to the day's file.  A print holds message_sect from its first *)
(* to its last statement, so it is one action; the task holds it too, over *)
(* several system calls, and the prints wait for it.                       *)
(***************************************************************************)
EXTENDS Naturals, Sequences

CONSTANTS MAX_MESSAGE_COUNT,  \* blocks of message_buffer_pool, bound of message_list
          MaxPrints           \* bound: messages printed

VARIABLES free,          \* free blocks of message_buffer_pool
          message_list,  \* the queue, oldest first (push_front, pop_back)
          worker,        \* "idle", "entered" (holds message_sect), "writing"
          hand,          \* the message the worker has popped: <<>> or <<m>>
          written,       \* the log files: the messages that are whole in them
          handed,        \* history: the messages handed to write(2)
          spoilt,        \* history: a write(2) failed, or wrote less than it was given
          accepted,      \* history: the messages that were queued
          prints,        \* history: messages printed, and their numbers
          alive          \* FALSE after cplus_syslog_delete

vars ==
  <<free, message_list, worker, hand, written, handed, spoilt, accepted, prints, alive>>

file == <<written, handed, spoilt>>

Init ==
  /\ free = MAX_MESSAGE_COUNT /\ message_list = <<>>
  /\ worker = "idle" /\ hand = <<>>
  /\ written = <<>> /\ handed = <<>> /\ spoilt = FALSE
  /\ accepted = <<>> /\ prints = 0
  /\ alive = TRUE

CanPrint == alive /\ worker = "idle" /\ prints < MaxPrints

\* DEBUG_PRINT and syslog_logger_print: the message is formatted into a block
\* and copied, with its time, into a second one; the first is freed again.
Accept ==
  /\ CanPrint
  /\ free > 1 /\ Len(message_list) < MAX_MESSAGE_COUNT
  /\ free' = free - 1
  /\ message_list' = Append(message_list, prints + 1)
  /\ accepted' = Append(accepted, prints + 1)
  /\ prints' = prints + 1
  /\ UNCHANGED <<worker, hand, file, alive>>

\* There is no block for the message or for its copy: it is not logged.
PrintDropped ==
  /\ CanPrint
  /\ free <= 1
  /\ prints' = prints + 1
  /\ UNCHANGED <<free, message_list, worker, hand, file, accepted, alive>>

----------------------------------------------------------------------------
(* custom_logger_executer, the body of the task.                           *)

Enter ==
  /\ alive /\ worker = "idle" /\ message_list # <<>>
  /\ worker' = "entered"
  /\ UNCHANGED <<free, message_list, hand, file, accepted, prints, alive>>

Open ==
  /\ alive /\ worker = "entered"
  /\ worker' = "writing"
  /\ UNCHANGED <<free, message_list, hand, file, accepted, prints, alive>>

\* Mutant: the early return leaves message_sect locked.
OpenFails_locked ==
  /\ alive /\ worker = "entered"
  /\ worker' = "stuck"
  /\ UNCHANGED <<free, message_list, hand, file, accepted, prints, alive>>

\* The file cannot be opened: nothing is popped, the next pass tries again.
OpenFails ==
  /\ alive /\ worker = "entered"
  /\ worker' = "idle"
  /\ UNCHANGED <<free, message_list, hand, file, accepted, prints, alive>>

Pop ==
  /\ alive /\ worker = "writing" /\ hand = <<>> /\ message_list # <<>>
  /\ hand' = <<Head(message_list)>>
  /\ message_list' = Tail(message_list)
  /\ UNCHANGED <<free, worker, file, accepted, prints, alive>>

\* The message is handed to write(2), and a line end if it has none; its block is
\* freed, whatever the calls return.
PassOn ==
  /\ alive /\ hand # <<>>
  /\ handed' = handed \o hand
  /\ hand' = <<>> /\ free' = free + 1
  /\ UNCHANGED <<message_list, worker, accepted, prints, alive>>

Write ==
  /\ PassOn
  /\ written' = written \o hand
  /\ UNCHANGED spoilt

\* Mutant: a failed write skips the rest of the loop's body.
WriteFails_leak ==
  /\ alive /\ hand # <<>>
  /\ handed' = handed \o hand /\ hand' = <<>>
  /\ spoilt' = TRUE
  /\ UNCHANGED <<free, message_list, worker, written, accepted, prints, alive>>

\* A write fails or is short (a full disk, a signal): the message is not, or not
\* whole, in the file, nobody looks at the result and nobody tries again.
WriteFails ==
  /\ PassOn
  /\ spoilt' = TRUE
  /\ UNCHANGED written

Close ==
  /\ alive /\ worker = "writing" /\ hand = <<>> /\ message_list = <<>>
  /\ worker' = "idle"
  /\ UNCHANGED <<free, message_list, hand, file, accepted, prints, alive>>

\* cplus_syslog_delete.  The task is stopped, after its pass or, when 30 s are
\* over, in the middle of one; what is still queued is lost.
Delete ==
  /\ alive
  /\ alive' = FALSE
  /\ UNCHANGED <<free, message_list, worker, hand, file, accepted, prints>>

Worker == Enter \/ Open \/ OpenFails \/ Pop \/ Write \/ WriteFails \/ Close
Next == Accept \/ PrintDropped \/ Worker \/ Delete

\* The task keeps running, and a file that can be opened again and again is.
Fairness == WF_vars(Worker) /\ SF_vars(Open)
Spec == Init /\ [][Next]_vars /\ Fairness

----------------------------------------------------------------------------
(* Properties.                                                             *)

\* Every message that was queued is handed to write(2) once and in order, also
\* when the file could not be opened; the files hold no message twice or out of
\* order and, until a write fails, every one of them; and every block of the pool
\* is free, queued or in the worker's hand, whatever paths prints and writes took.
LogFaithful ==
  /\ handed \o hand \o message_list = accepted
  /\ \A i, j \in DOMAIN written : i < j => written[i] < written[j]
  /\ ~spoilt => written = handed
  /\ free + Len(hand) + Len(message_list) = MAX_MESSAGE_COUNT

\* What is queued is handed to write(2), and is in the file if no write failed,
\* unless the logger is deleted first.
EventuallyWritten ==
  handed # accepted ~>
    (~alive \/ (handed = accepted /\ (spoilt \/ written = accepted)))
=============================================================================
