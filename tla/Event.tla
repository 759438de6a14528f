------------------------------- MODULE Event --------------------------------
(***************************************************************************)
(* What cplus_pevent promises: an event that is set, reset, read and       *)
(* waited for, each call taking effect at one instant between its start    *)
(* and its return.  A successful wait on an auto-reset event (broadcast    *)
(* FALSE) consumes the event; a wait without a timeout cannot fail.        *)
(***************************************************************************)
CONSTANT Threads

VARIABLES setted, broadcast,
          st,    \* st[t]: "idle", "pending" or "done"
          req,   \* req[t]: the call t makes, or "none"
          res    \* res[t]: what it returns, once that is known

evars == <<setted, broadcast, st, req, res>>

Waits == {"wait0", "timed", "infinite"}
Calls == Waits \cup {"set", "reset", "status"}
Results == {"none", "success", "fail", "true", "false"}

Init ==
  /\ setted \in BOOLEAN /\ broadcast \in BOOLEAN
  /\ st = [t \in Threads |-> "idle"]
  /\ req = [t \in Threads |-> "none"]
  /\ res = [t \in Threads |-> "none"]

Call(t, c) ==
  /\ st[t] = "idle"
  /\ st' = [st EXCEPT ![t] = "pending"]
  /\ req' = [req EXCEPT ![t] = c]
  /\ UNCHANGED <<setted, broadcast, res>>

Complete(t, r) ==
  /\ st[t] = "pending"
  /\ st' = [st EXCEPT ![t] = "done"]
  /\ res' = [res EXCEPT ![t] = r]
  /\ UNCHANGED <<broadcast, req>>

Set(t) == req[t] = "set" /\ Complete(t, "success") /\ setted' = TRUE

Reset(t) == req[t] = "reset" /\ Complete(t, "success") /\ setted' = FALSE

GetStatus(t) ==
  /\ req[t] = "status"
  /\ Complete(t, IF setted THEN "true" ELSE "false")
  /\ UNCHANGED setted

WaitSucceeds(t) ==
  /\ req[t] \in Waits
  /\ setted
  /\ Complete(t, "success")
  /\ setted' = broadcast

WaitFails(t) ==
  /\ req[t] \in {"wait0", "timed"}
  /\ Complete(t, "fail")
  /\ UNCHANGED setted

Return(t) ==
  /\ st[t] = "done"
  /\ st' = [st EXCEPT ![t] = "idle"]
  /\ req' = [req EXCEPT ![t] = "none"]
  /\ res' = [res EXCEPT ![t] = "none"]
  /\ UNCHANGED <<setted, broadcast>>

Next ==
  \E t \in Threads :
    \/ \E c \in Calls : Call(t, c)
    \/ Set(t) \/ Reset(t) \/ GetStatus(t) \/ WaitSucceeds(t) \/ WaitFails(t)
    \/ Return(t)

Spec == Init /\ [][Next]_evars
=============================================================================
