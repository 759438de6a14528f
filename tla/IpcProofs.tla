----------------------------- MODULE IpcProofs -----------------------------
(***************************************************************************)
(* Proofs about ipc_server.c, for any number of connections, peers,        *)
(* failures, calls, sequence numbers, packets, lengths and buffer sizes.   *)
(***************************************************************************)
EXTENDS MCIpc, Integers, FiniteSetTheorems, SequenceTheorems, WellFoundedInduction, TLAPS

(***************************************************************************)
(* The connections of a server.                                            *)
(***************************************************************************)

Conns == 1..MaxConn
ServStatus == {"NOT_CONNECTED", "CONNECTED", "FAULT"}

ServTyped ==
  /\ sv_free \subseteq Conns /\ sv_list \subseteq Conns
  /\ sv_conn \in [Conns -> [status : ServStatus, sock : {"open", "null"},
                            peer : {"open", "closed"}]]
  /\ sv_task \in [Conns -> {"none", "idle", "on_error"}]
  /\ sv_accept \in {"idle", "reap", "accept", "create", "status", "push", "call"}
  /\ sv_new \in Conns \cup {0}

\* Where the block of the connection being created is: with the accept task from
\* its creation to on_connected, and in the list from push.
ServNew ==
  /\ sv_accept \in {"status", "push", "call"} <=> sv_new # 0
  /\ sv_new \notin sv_free
  /\ sv_new \in sv_list <=> sv_accept = "call"

\* There is a block for the peer that is about to be accepted: the accept task
\* saw room in the list, and only it takes blocks.
ServSlots ==
  /\ sv_free \cap sv_list = {}
  /\ sv_free \cup sv_list \cup ({sv_new} \ {0}) = Conns
  /\ sv_accept \in {"accept", "create"} => sv_free # {}

\* A connection whose status is not NOT_CONNECTED has a socket and a block; the
\* one being created waits, with its socket, for the accept task to set it.
\* Tasks exist for the connections that have a block.
ServTasks ==
  /\ \A c \in Conns :
       /\ sv_conn[c].status # "NOT_CONNECTED" => sv_conn[c].sock = "open" /\ c \notin sv_free
       /\ c \notin sv_free => sv_task[c] # "none"
  /\ sv_accept = "status" => sv_conn[sv_new].status = "NOT_CONNECTED"
                             /\ sv_conn[sv_new].sock = "open"
  /\ sv_cancelled \subseteq {"on_error"}

ServInv == ServTyped /\ ServNew /\ ServSlots /\ ServTasks

LEMMA ServCardinality == ASSUME NEW S PROVE Serv!Cardinality(S) = Cardinality(S)
  BY DEF Serv!Cardinality, Cardinality

\* The steps of ipc_conn_proc and of the peers touch neither pool nor list, and
\* deleting a socket goes with the status NOT_CONNECTED.
LEMMA ServConnStep ==
  ASSUME ServInv, NEW c \in Conns,
         \/ Serv!close(c) \/ Serv!recv(c) \/ Serv!disconnected(c) \/ Serv!on_error(c)
         \/ \E s \in {"FAULT", "NOT_CONNECTED", sv_conn[c].status} : Serv!recv_fails(c, s)
  PROVE  ServInv'
<1> USE DEF ServInv, ServTyped, ServNew, ServSlots, ServTasks, ServStatus, Serv!Receiving, Serv!Task
<1>1. CASE Serv!close(c)
  BY <1>1 DEF Serv!close
<1>2. CASE Serv!recv(c)
  BY <1>2 DEF Serv!recv
<1>3. CASE Serv!disconnected(c)
  BY <1>3 DEF Serv!disconnected
<1>4. CASE Serv!on_error(c)
  BY <1>4 DEF Serv!on_error
<1>5. ASSUME NEW s \in {"FAULT", "NOT_CONNECTED", sv_conn[c].status}, Serv!recv_fails(c, s)
      PROVE  ServInv'
  BY <1>5 DEF Serv!recv_fails
<1> QED
  BY <1>1, <1>2, <1>3, <1>4, <1>5

LEMMA ServAcceptStep == ASSUME ServInv, Serv!AcceptTask PROVE ServInv'
<1> USE DEF ServInv, ServTyped, ServNew, ServSlots, ServTasks, ServStatus,
            Serv!Goto, Serv!Task, Serv!NoConn, Serv!Blank
<1>0. 0 \notin Conns
  BY DEF Conns
<1>1. CASE Serv!reap
  BY <1>1 DEF Serv!reap
<1>2. CASE Serv!reaped
  <2>1. Cardinality(Conns) \in Nat
    <3>1. 1 \in Int /\ MaxConn \in Int
      BY IpcAssumption
    <3>2. IsFiniteSet(1..MaxConn)
      BY <3>1, FS_Interval
    <3> QED
      BY <3>2, FS_CardinalityType DEF Conns
  <2>2. sv_accept' = "accept" => Cardinality(sv_list) < Cardinality(Conns)
    BY <1>2, ServCardinality DEF Serv!reaped, Conns
  <2>3. sv_accept' = "accept" => sv_list # Conns
    BY <2>1, <2>2
  <2>4. sv_new = 0
    BY <1>2 DEF Serv!reaped
  <2>5. sv_accept' = "accept" => sv_free # {}
    BY <2>3, <2>4
  <2> QED
    BY <1>2, <2>5 DEF Serv!reaped
<1>3. CASE Serv!accept
  BY <1>3 DEF Serv!accept
<1>4. CASE Serv!create_fails
  BY <1>4 DEF Serv!create_fails
<1>5. CASE Serv!set_status
  BY <1>5 DEF Serv!set_status
<1>6. CASE Serv!push
  BY <1>0, <1>6 DEF Serv!push
<1>7. CASE Serv!on_connected
  BY <1>0, <1>7 DEF Serv!on_connected
<1>8. ASSUME NEW c \in Conns, Serv!reap_one(c) PROVE ServInv'
  <2>1. /\ sv_accept = "reap" /\ sv_new = 0 /\ c \in sv_list /\ c \notin sv_free
        /\ sv_free' = sv_free \cup {c} /\ sv_list' = sv_list \ {c}
        /\ sv_cancelled' = sv_cancelled \cup ({sv_task[c]} \ {"idle"})
        /\ sv_conn' = [sv_conn EXCEPT ![c] = Serv!Blank]
        /\ sv_task' = [sv_task EXCEPT ![c] = "none"]
        /\ UNCHANGED <<sv_accept, sv_new>>
    BY <1>8 DEF Serv!reap_one, Serv!ipc_conn_delete, Serv!Ended
  <2>2. ServTyped' /\ ServNew'
    BY <1>0, <2>1
  <2>3. ServSlots'
    BY <1>0, <2>1
  <2>4. ServTasks'
    BY <2>1
  <2> QED
    BY <2>2, <2>3, <2>4
<1>9. ASSUME NEW c \in Conns, Serv!ipc_conn_create(c) PROVE ServInv'
  <2>1. /\ sv_accept = "create" /\ sv_new = 0 /\ c \in sv_free /\ c \notin sv_list
        /\ sv_free' = sv_free \ {c} /\ sv_new' = c
        /\ sv_conn' = [sv_conn EXCEPT ![c] = [status |-> "NOT_CONNECTED", sock |-> "open",
                                              peer |-> "open"]]
        /\ sv_task' = [sv_task EXCEPT ![c] = "idle"] /\ sv_accept' = "status"
        /\ UNCHANGED <<sv_list, sv_cancelled>>
    BY <1>9 DEF Serv!ipc_conn_create
  <2>2. ServTyped' /\ ServNew'
    BY <1>0, <2>1
  <2>3. ServSlots'
    BY <1>0, <2>1
  <2>4. ServTasks'
    BY <2>1
  <2> QED
    BY <2>2, <2>3, <2>4
<1> QED
  BY <1>1, <1>2, <1>3, <1>4, <1>5, <1>6, <1>7, <1>8, <1>9 DEF Serv!AcceptTask, Conns

LEMMA ServStep == ServInv /\ [Serv!Next]_servVars => ServInv'
<1> SUFFICES ASSUME ServInv, [Serv!Next]_servVars PROVE ServInv'
  OBVIOUS
<1>1. CASE UNCHANGED servVars
  BY <1>1 DEF servVars, ServInv, ServTyped, ServNew, ServSlots, ServTasks
<1>2. CASE Serv!connect \/ Serv!delete
  BY <1>2 DEF Serv!connect, Serv!delete, ServInv, ServTyped, ServNew, ServSlots, ServTasks
<1> QED
  BY <1>1, <1>2, ServConnStep, ServAcceptStep DEF Serv!Next, Serv!ConnTask, Conns

LEMMA ServInit == Serv!Init => ServInv
  BY IpcAssumption
  DEF Serv!Init, Serv!Blank, Serv!NoConn, ServInv, ServTyped, ServNew, ServSlots, ServTasks,
      ServStatus, Conns

\* ipc_server.c loses and shares no block of ipc_conn_pool, and ipc_conn_create
\* finds one for every peer that was accepted, whatever ends in the meantime.
THEOREM SlotsAreExact == Serv!Spec => []SlotsExact
<1>1. ServInv => SlotsExact
  BY DEF ServInv, ServSlots, SlotsExact, Serv!SlotsExact, Serv!NoConn, Conns
<1> QED
  BY <1>1, ServInit, ServStep, PTL DEF Serv!Spec, Serv!vars, servVars

\* A connection's task never receives from a deleted socket, and the accept task
\* cancels none that waits for ipc_conn_sect, for any number of connections.
THEOREM TasksAreUndisturbed == Serv!Spec => []TasksUndisturbed
<1>1. ServInv => TasksUndisturbed
  BY DEF ServInv, ServTasks, TasksUndisturbed, Serv!TasksUndisturbed, Serv!Receiving, Conns
<1> QED
  BY <1>1, ServInit, ServStep, PTL DEF Serv!Spec, Serv!vars, servVars

(***************************************************************************)
(* The calls of a client.                                                  *)
(***************************************************************************)

\* A set of natural numbers has a least element, one of numbers up to k a largest.
LEMMA LeastExists ==
  ASSUME NEW T, T \subseteq Nat, T # {}
  PROVE  \E x \in T : \A y \in T : x <= y
<1>1. PICK x \in T : \A y \in T : ~ (<<y, x>> \in OpToRel(<, Nat))
  BY NatLessThanWellFounded, WFMin
<1>2. ASSUME NEW y \in T PROVE x <= y
  <2>1. <<y, x>> \notin {ss \in Nat \X Nat : ss[1] < ss[2]}
    BY <1>1 DEF OpToRel
  <2> QED
    BY <2>1
<1> QED
  BY <1>2

LEMMA LastExists ==
  ASSUME NEW k \in Nat, NEW T, T \subseteq 1..k, T # {}
  PROVE  \E i \in T : \A j \in T : j <= i
<1> DEFINE U == {d \in Nat : k - d \in T}
<1>1. \A j \in T : j \in Nat /\ k - j \in Nat /\ k - (k - j) = j
  OBVIOUS
<1>2. \A j \in T : k - j \in U
  BY <1>1
<1>3. U \subseteq Nat /\ U # {}
  BY <1>2
<1>4. \A d \in U : d \in Nat /\ k - d \in T
  OBVIOUS
<1> HIDE DEF U
<1>5. PICK x \in U : \A y \in U : x <= y
  BY <1>3, LeastExists
<1>6. \A j \in T : j <= k - x
  BY <1>1, <1>2, <1>4, <1>5
<1> QED
  BY <1>4, <1>6

\* The packets of the first n calls, junk included.
Packets(n) ==
  [cmd : {"request", "heartbeat", "oneway", "ACK", "RESPONSE", "junk"}, call : 0..n]

\* No packet is from a call to come.
ReqTyped ==
  /\ rq_call \in Nat
  /\ rq_inbox \in Seq(Packets(rq_call)) /\ rq_wire \in Seq(Packets(rq_call))

ReqInv == ReqTyped /\ OwnReply /\ RefusalExplained

\* Numbers that agree modulo n are equal or at least n apart; if the later one
\* has the larger remainder, they are at least as far apart as the remainders.
LEMMA SeqnDistance ==
  ASSUME NEW n \in Nat \ {0}, NEW a \in Nat, NEW b \in 0..a
  PROVE  /\ a % n = b % n => a = b \/ a - b >= n
         /\ a % n >= b % n => a - b >= (a % n) - (b % n)
<1> DEFINE p == a \div n
           q == b \div n
           r == a % n
           s == b % n
<1>1. p \in Int /\ r \in 0..(n - 1) /\ a = n * p + r
  OBVIOUS
<1>2. q \in Int /\ s \in 0..(n - 1) /\ b = n * q + s
  OBVIOUS
<1> HIDE DEF p, q, r, s
<1>3. a - b = n * (p - q) + (r - s)
  BY <1>1, <1>2
<1>4. p - q >= 0
  <2> SUFFICES ASSUME p - q <= -1 PROVE FALSE
    BY <1>1, <1>2
  <2>1. n * (p - q) <= -n
    BY <1>1, <1>2
  <2> QED
    BY <1>1, <1>2, <1>3, <2>1
<1>5. p = q \/ n * (p - q) >= n
  BY <1>1, <1>2, <1>4
<1>6. n * (p - q) >= 0
  BY <1>1, <1>2, <1>4
<1>7. p = q => n * (p - q) = 0
  BY <1>1, <1>2
<1>8. r = s => a = b \/ a - b >= n
  BY <1>1, <1>2, <1>3, <1>5, <1>7
<1>9. r >= s => a - b >= r - s
  BY <1>1, <1>2, <1>3, <1>6
<1> QED
  BY <1>8, <1>9 DEF r, s

\* The packet that is looked at after a receive is one of the packets received.
LEMMA LookedAt ==
  ASSUME ReqTyped, NEW k \in 1..Len(rq_wire), Req!Whole(k) # {}
  PROVE  Req!Looked(k) \in Packets(rq_call)
<1>1. Len(rq_wire) \in Nat /\ \A i \in 1..Len(rq_wire) : rq_wire[i] \in Packets(rq_call)
  BY ElementOfSeq, LenProperties DEF ReqTyped
<1>2. k \in Nat /\ Req!Whole(k) \subseteq 1..k /\ 1..k \subseteq 1..Len(rq_wire)
  BY <1>1 DEF Req!Whole
<1>3. \E i \in Req!Whole(k) : \A j \in Req!Whole(k) : j <= i
  BY <1>2, LastExists
<1> DEFINE i == CHOOSE i \in Req!Whole(k) : \A j \in Req!Whole(k) : j <= i
<1>4. i \in Req!Whole(k)
  BY <1>3
<1> QED
  BY <1>1, <1>2, <1>4 DEF Req!Looked

\* What is left on the wire after a receive.
LEMMA ReceivedTyped ==
  ASSUME ReqTyped, NEW k \in 0..Len(rq_wire)
  PROVE  SubSeq(rq_wire, k + 1, Len(rq_wire)) \in Seq(Packets(rq_call))
<1>1. Len(rq_wire) \in Nat /\ \A i \in 1..Len(rq_wire) : rq_wire[i] \in Packets(rq_call)
  BY ElementOfSeq, LenProperties DEF ReqTyped
<1>2. k + 1 \in Int /\ Len(rq_wire) \in Int
      /\ \A i \in (k + 1)..Len(rq_wire) : rq_wire[i] \in Packets(rq_call)
  BY <1>1
<1> QED
  BY <1>2, SubSeqProperties

\* A call that ends takes its answer from the packets on the wire.
LEMMA ReqEnds ==
  ASSUME ReqTyped, rq_call' = rq_call, NEW p \in Packets(rq_call), NEW why,
         Req!Ended(why, p),
         why = "success" => Req!Matches(p),
         why = "EILSEQ" => ~Req!Matches(p)
           /\ Req!Diff(Req!seqn(rq_call), Req!seqn(p.call)) >= Tolerance
  PROVE  OwnReply' /\ RefusalExplained'
<1>1. p.call \in 0..rq_call /\ rq_call \in Nat
  BY DEF ReqTyped, Packets
<1>2. rq_result' = [why |-> why, call |-> p.call] /\ rq_waiting' = "none"
  BY DEF Req!Ended
<1> DEFINE a == rq_call
           b == p.call
<1>3. /\ a % SeqLimit = b % SeqLimit => a = b \/ a - b >= SeqLimit
      /\ a % SeqLimit >= b % SeqLimit => a - b >= (a % SeqLimit) - (b % SeqLimit)
  <2> HIDE DEF a, b
  <2> QED
    BY <1>1, IpcAssumption, SeqnDistance DEF a, b
<1>4. OwnReply'
  BY <1>2, <1>3 DEF OwnReply, Req!OwnReply, Req!Matches, Req!seqn
<1>5. RefusalExplained'
  BY <1>1, <1>2, <1>3, IpcAssumption
  DEF RefusalExplained, Req!RefusalExplained, Req!Matches, Req!Diff, Req!seqn
<1> QED
  BY <1>4, <1>5

LEMMA ReqStep == ReqInv /\ [Req!Next]_reqVars => ReqInv'
<1> SUFFICES ASSUME ReqInv, [Req!Next]_reqVars PROVE ReqInv'
  OBVIOUS
<1>0. ReqTyped /\ OwnReply /\ RefusalExplained
  BY DEF ReqInv
<1> DEFINE P == Packets(rq_call)
<1>p. Req!Junk \in P /\ <<Req!Junk>> \in Seq(P) /\ <<>> \in Seq(P) /\ Req!NoPacket \in P
  BY <1>0 DEF ReqTyped, Packets, Req!Junk, Req!NoPacket
<1>1. CASE UNCHANGED reqVars
  BY <1>0, <1>1
  DEF reqVars, ReqInv, ReqTyped, OwnReply, Req!OwnReply, RefusalExplained, Req!RefusalExplained
\* A packet is numbered with the call that makes it.
<1>2. ASSUME NEW o \in {"request", "heartbeat", "oneway"}, Req!Send(o), rq_wire' = rq_wire
      PROVE  ReqTyped'
  <2> DEFINE Q == Packets(rq_call + 1)
             e == [cmd |-> o, call |-> rq_call + 1]
  <2>1. P \subseteq Q /\ e \in Q
    BY <1>0, <1>2 DEF ReqTyped, Packets
  <2> HIDE DEF P, Q, e
  <2>2. rq_inbox \in Seq(Q) /\ rq_wire \in Seq(Q)
    BY <1>0, <2>1, SeqMonotonic DEF ReqTyped, P
  <2>3. Append(rq_inbox, e) \in Seq(Q)
    BY <2>1, <2>2, AppendProperties
  <2> QED
    BY <1>0, <1>2, <2>2, <2>3 DEF ReqTyped, Req!Send, Q, e
<1>3. ASSUME NEW o \in {"request", "heartbeat"}, Req!send(o) PROVE ReqInv'
  <2>1. rq_waiting' # "none" /\ Req!Send(o) /\ rq_wire' = rq_wire
    BY <1>3 DEF Req!send
  <2> QED
    BY <1>2, <2>1 DEF ReqInv, OwnReply, Req!OwnReply, RefusalExplained, Req!RefusalExplained
<1>4. ASSUME NEW o \in {"request", "oneway"}, Req!send_and_return(o) PROVE ReqInv'
  <2>1. rq_result'.why = "sent" /\ Req!Send(o) /\ rq_wire' = rq_wire
    BY <1>4 DEF Req!send_and_return
  <2> QED
    BY <1>2, <2>1 DEF ReqInv, OwnReply, Req!OwnReply, RefusalExplained, Req!RefusalExplained
<1>5. CASE Req!send_fails
  <2>1. /\ rq_result'.why = "sent" /\ rq_call' = rq_call + 1
        /\ UNCHANGED <<rq_inbox, rq_wire>>
    BY <1>5 DEF Req!send_fails
  <2>2. P \subseteq Packets(rq_call + 1)
    BY <1>0 DEF ReqTyped, Packets
  <2>3. rq_inbox \in Seq(Packets(rq_call + 1)) /\ rq_wire \in Seq(Packets(rq_call + 1))
    BY <1>0, <2>2, SeqMonotonic DEF ReqTyped
  <2>4. ReqTyped'
    BY <1>0, <2>1, <2>3 DEF ReqTyped
  <2> QED
    BY <2>1, <2>4 DEF ReqInv, OwnReply, Req!OwnReply, RefusalExplained, Req!RefusalExplained
<1>6. ASSUME NEW answered \in BOOLEAN, Req!serve(answered) PROVE ReqInv'
  <2>1. /\ rq_inbox # <<>> /\ rq_inbox' = Tail(rq_inbox)
        /\ UNCHANGED <<rq_call, rq_waiting, rq_result>>
    BY <1>6 DEF Req!serve
  <2>2. Head(rq_inbox) \in P /\ Tail(rq_inbox) \in Seq(P)
    BY <1>0, <2>1, HeadTailProperties DEF ReqTyped
  <2>3. /\ [Head(rq_inbox) EXCEPT !.cmd = "ACK"] \in P
        /\ [Head(rq_inbox) EXCEPT !.cmd = "RESPONSE"] \in P
    BY <2>2 DEF Packets
  <2>4. \/ rq_wire' = rq_wire
        \/ rq_wire' = Append(rq_wire, [Head(rq_inbox) EXCEPT !.cmd = "ACK"])
        \/ rq_wire' = Append(rq_wire, [Head(rq_inbox) EXCEPT !.cmd = "RESPONSE"])
    BY <1>6 DEF Req!serve
  <2>5. rq_wire' \in Seq(P)
    <3>1. rq_wire \in Seq(P)
      BY <1>0 DEF ReqTyped
    <3>2. \A e \in P : Append(rq_wire, e) \in Seq(P)
      BY <3>1, AppendProperties
    <3> HIDE DEF P
    <3> QED
      BY <2>3, <2>4, <3>1, <3>2
  <2>6. ReqTyped'
    BY <1>0, <2>1, <2>2, <2>5 DEF ReqTyped
  <2> QED
    BY <1>0, <2>1, <2>6
    DEF ReqInv, OwnReply, Req!OwnReply, RefusalExplained, Req!RefusalExplained
\* A step that receives and does not end the call, and one that does.
<1>7. ASSUME NEW k \in 0..Len(rq_wire), Req!Received(k), UNCHANGED <<rq_call, rq_inbox>>
      PROVE  ReqTyped'
  BY <1>0, <1>7, ReceivedTyped DEF ReqTyped, Req!Received
<1>8. ASSUME NEW k \in 0..MaxCalls, Req!request_partial(k) \/ Req!request_dropped(k)
      PROVE  ReqInv'
  <2>1. /\ k \in 0..Len(rq_wire) /\ Req!Received(k)
        /\ UNCHANGED <<rq_call, rq_inbox, rq_waiting, rq_result>> /\ rq_waiting = "request"
    BY <1>8 DEF Req!request_partial, Req!request_dropped
  <2> QED
    BY <1>7, <2>1 DEF ReqInv, OwnReply, Req!OwnReply, RefusalExplained, Req!RefusalExplained
<1>9. ASSUME NEW k \in 0..MaxCalls, Req!request_answered(k) PROVE ReqInv'
  <2>1. /\ k \in 1..Len(rq_wire) /\ k \in 0..Len(rq_wire) /\ Req!Whole(k) # {}
        /\ Req!Matches(Req!Looked(k)) /\ Req!Received(k)
        /\ Req!Ended("success", Req!Looked(k)) /\ UNCHANGED <<rq_call, rq_inbox>>
    BY <1>9 DEF Req!request_answered
  <2>2. Req!Looked(k) \in P
    BY <1>0, <2>1, LookedAt
  <2>3. OwnReply' /\ RefusalExplained'
    BY <1>0, <2>1, <2>2, ReqEnds
  <2> QED
    BY <1>7, <2>1, <2>3 DEF ReqInv
<1>10. ASSUME NEW k \in 0..MaxCalls, Req!request_refused(k) PROVE ReqInv'
  <2>1. /\ k \in 1..Len(rq_wire) /\ k \in 0..Len(rq_wire) /\ Req!Whole(k) # {}
        /\ ~Req!Matches(Req!Looked(k)) /\ Req!Received(k)
        /\ Req!Diff(Req!seqn(rq_call), Req!seqn(Req!Looked(k).call)) >= Tolerance
        /\ Req!Ended("EILSEQ", Req!Looked(k)) /\ UNCHANGED <<rq_call, rq_inbox>>
    BY <1>10 DEF Req!request_refused
  <2>2. Req!Looked(k) \in P
    BY <1>0, <2>1, LookedAt
  <2>3. OwnReply' /\ RefusalExplained'
    BY <1>0, <2>1, <2>2, ReqEnds
  <2> QED
    BY <1>7, <2>1, <2>3 DEF ReqInv
<1>11. ASSUME NEW k \in 0..MaxCalls, Req!request_timeout(k) PROVE ReqInv'
  <2>1. /\ k \in 0..Len(rq_wire) /\ Req!Received(k)
        /\ Req!Ended("ETIMEDOUT", Req!NoPacket) /\ UNCHANGED <<rq_call, rq_inbox>>
    BY <1>11 DEF Req!request_timeout
  <2>2. OwnReply' /\ RefusalExplained'
    BY <1>0, <1>p, <2>1, ReqEnds
  <2> QED
    BY <1>7, <2>1, <2>2 DEF ReqInv
<1>12. CASE Req!heartbeat_answered
  <2>1. /\ rq_wire # <<>> /\ rq_wire' = Tail(rq_wire) /\ UNCHANGED <<rq_call, rq_inbox>>
        /\ \/ Req!Matches(Head(rq_wire)) /\ Req!Ended("success", Head(rq_wire))
           \/ Req!Ended("fail", Req!NoPacket)
    BY <1>12 DEF Req!heartbeat_answered
  <2>2. Head(rq_wire) \in P /\ Tail(rq_wire) \in Seq(P)
    BY <1>0, <2>1, HeadTailProperties DEF ReqTyped
  <2>3. OwnReply' /\ RefusalExplained'
    BY <1>0, <1>p, <2>1, <2>2, ReqEnds
  <2>4. ReqTyped'
    BY <1>0, <2>1, <2>2 DEF ReqTyped
  <2> QED
    BY <2>3, <2>4 DEF ReqInv
<1>13. ASSUME NEW rest \in {<<>>, <<Req!Junk>>}, Req!heartbeat_garbled(rest) PROVE ReqInv'
  <2>1. /\ rq_wire # <<>> /\ rq_wire' = rest \o Tail(rq_wire)
        /\ Req!Ended("fail", Req!NoPacket) /\ UNCHANGED <<rq_call, rq_inbox>>
    BY <1>13 DEF Req!heartbeat_garbled
  <2>2. Tail(rq_wire) \in Seq(P) /\ rest \in Seq(P)
    BY <1>0, <1>p, <2>1, HeadTailProperties DEF ReqTyped
  <2>3. rest \o Tail(rq_wire) \in Seq(P)
    BY <2>2, ConcatProperties
  <2>4. OwnReply' /\ RefusalExplained'
    BY <1>0, <1>p, <2>1, ReqEnds
  <2>5. ReqTyped'
    BY <1>0, <2>1, <2>3 DEF ReqTyped
  <2> QED
    BY <2>4, <2>5 DEF ReqInv
<1>14. ASSUME NEW rest \in {<<>>, <<Req!Junk>>}, NEW d \in {1, 2}, Req!heartbeat_junk(rest, d)
       PROVE  ReqInv'
  <2>1. /\ d \in 0..Len(rq_wire) /\ rq_wire' = rest \o SubSeq(rq_wire, d + 1, Len(rq_wire))
        /\ Req!Ended("fail", Req!NoPacket) /\ UNCHANGED <<rq_call, rq_inbox>>
    BY <1>0, <1>14, LenProperties DEF Req!heartbeat_junk, ReqTyped
  <2>2. SubSeq(rq_wire, d + 1, Len(rq_wire)) \in Seq(P) /\ rest \in Seq(P)
    BY <1>0, <1>p, <2>1, ReceivedTyped
  <2>3. rest \o SubSeq(rq_wire, d + 1, Len(rq_wire)) \in Seq(P)
    BY <2>2, ConcatProperties
  <2>4. OwnReply' /\ RefusalExplained'
    BY <1>0, <1>p, <2>1, ReqEnds
  <2>5. ReqTyped'
    BY <1>0, <2>1, <2>3 DEF ReqTyped
  <2> QED
    BY <2>4, <2>5 DEF ReqInv
<1>15. CASE Req!heartbeat_timeout
  <2>1. Req!Ended("ETIMEDOUT", Req!NoPacket) /\ UNCHANGED <<rq_call, rq_inbox, rq_wire>>
    BY <1>15 DEF Req!heartbeat_timeout
  <2>2. OwnReply' /\ RefusalExplained'
    BY <1>0, <1>p, <2>1, ReqEnds
  <2> QED
    BY <1>0, <2>1, <2>2 DEF ReqInv, ReqTyped
<1> QED
  BY <1>1, <1>3, <1>4, <1>5, <1>6, <1>8, <1>9, <1>10, <1>11, <1>12, <1>13, <1>14, <1>15
  DEF Req!Next

LEMMA ReqInit == Req!Init => ReqInv
  BY EmptySeq
  DEF Req!Init, ReqInv, ReqTyped, OwnReply, Req!OwnReply, RefusalExplained, Req!RefusalExplained

\* A call of ipc_server.c's client that succeeds took its own answer, or one a
\* whole turn of the sequence numbers old, however late the others come.
THEOREM RepliesAreOwn == Req!Spec => []OwnReply
<1>1. ReqInv => OwnReply
  BY DEF ReqInv
<1> QED
  BY <1>1, ReqInit, ReqStep, PTL DEF Req!Spec, Req!vars, reqVars

\* A request ends with EILSEQ only for an answer that is too old or from before
\* the wrap of the sequence numbers.
THEOREM RefusalsAreExplained == Req!Spec => []RefusalExplained
<1>1. ReqInv => RefusalExplained
  BY DEF ReqInv
<1> QED
  BY <1>1, ReqInit, ReqStep, PTL DEF Req!Spec, Req!vars, reqVars

(***************************************************************************)
(* The receiving end of a connection.                                      *)
(***************************************************************************)

\* f gives the weights of the first n digits.
Weighs(f, n) == f[0] = 1 /\ \A k \in 1..n : f[k] = Radix * f[k - 1]

\* The recursive definition of Weight defines what it says.
LEMMA WeightFacts ==
  /\ \A k \in 0..LenSize : Weight[k] \in Nat \ {0}
  /\ Weight[0] = 1
  /\ \A k \in 0..LenSize - 1 : Weight[k + 1] = Radix * Weight[k]
<1>0. LenSize \in Nat \ {0} /\ Radix \in Nat \ {0, 1}
  BY StreamAssumption
<1> DEFINE P == Nat \ {0}
           T == {n \in Nat : ~ \E f \in [0..n -> P] : Weighs(f, n)}
<1>1. T = {}
  <2> SUFFICES ASSUME T # {} PROVE FALSE
    OBVIOUS
  <2>1. PICK n \in T : \A m \in T : n <= m
    BY LeastExists
  <2>2. n \in Nat /\ ~ \E f \in [0..n -> P] : Weighs(f, n)
    BY <2>1
  <2>3. CASE n = 0
    <3> DEFINE g == [k \in 0..0 |-> 1]
    <3>1. g \in [0..0 -> P] /\ Weighs(g, 0)
      BY DEF Weighs
    <3> QED
      BY <2>2, <2>3, <3>1
  <2>4. CASE n # 0
    <3>1. n - 1 \in Nat /\ n - 1 < n
      BY <2>2, <2>4
    <3>2. n - 1 \notin T
      BY <2>1, <2>2, <3>1
    <3>3. PICK f \in [0..n - 1 -> P] : Weighs(f, n - 1)
      BY <3>1, <3>2
    <3> DEFINE g == [k \in 0..n |-> IF k = n THEN Radix * f[n - 1] ELSE f[k]]
    <3>4. f[n - 1] \in P /\ Radix * f[n - 1] \in P
      BY <1>0, <2>2, <3>1, <3>3
    <3>5. g \in [0..n -> P]
      <4>1. ASSUME NEW k \in 0..n PROVE g[k] \in P
        BY <2>2, <2>4, <3>4
      <4> QED
        BY <4>1
    <3>6. Weighs(g, n)
      <4>1. g[0] = 1
        BY <2>2, <2>4, <3>3 DEF Weighs
      <4>2. ASSUME NEW k \in 1..n PROVE g[k] = Radix * g[k - 1]
        <5>1. CASE k = n
          <6>1. k - 1 \in 0..n /\ k - 1 # n
            BY <2>2, <4>2, <5>1
          <6>2. g[k - 1] = f[n - 1] /\ g[k] = Radix * f[n - 1]
            BY <2>2, <5>1, <6>1
          <6> QED
            BY <6>2
        <5>2. CASE k # n
          <6>1. k \in 1..n - 1 /\ k - 1 \in 0..n /\ k - 1 # n /\ k \in 0..n
            BY <2>2, <5>2
          <6>2. g[k - 1] = f[k - 1] /\ g[k] = f[k]
            BY <5>2, <6>1
          <6> QED
            BY <3>3, <6>1, <6>2 DEF Weighs
        <5> QED
          BY <5>1, <5>2
      <4> HIDE DEF g
      <4> QED
        BY <4>1, <4>2 DEF Weighs
    <3> HIDE DEF g
    <3> QED
      BY <2>2, <3>5, <3>6
  <2> QED
    BY <2>3, <2>4
<1>2. PICK f \in [0..LenSize -> P] : Weighs(f, LenSize)
  <2>1. LenSize \in Nat /\ LenSize \notin T
    BY <1>0, <1>1
  <2> QED
    BY <2>1
<1> DEFINE W(w) == [k \in 0..LenSize |-> IF k = 0 THEN 1 ELSE Radix * w[k - 1]]
<1>3. f = W(f)
  <2>1. ASSUME NEW k \in 0..LenSize PROVE f[k] = IF k = 0 THEN 1 ELSE Radix * f[k - 1]
    BY <1>0, <1>2 DEF Weighs
  <2> QED
    BY <1>2, <2>1
<1>4. Weight = W(Weight)
  <2>1. Weight = CHOOSE w : w = W(w)
    BY DEF Weight
  <2> HIDE DEF W
  <2> QED
    BY <1>3, <2>1
<1>5. \A k \in 0..LenSize : Weight[k] = IF k = 0 THEN 1 ELSE Radix * Weight[k - 1]
  <2> DEFINE u == Weight
  <2>1. u = W(u)
    BY <1>4
  <2> HIDE DEF u
  <2>2. \A k \in 0..LenSize : u[k] = IF k = 0 THEN 1 ELSE Radix * u[k - 1]
    BY <2>1
  <2> QED
    BY <2>2 DEF u
<1> DEFINE S == {k \in 0..LenSize : Weight[k] # f[k]}
<1>6. S = {}
  <2> SUFFICES ASSUME S # {} PROVE FALSE
    OBVIOUS
  <2>0. S \subseteq Nat
    BY <1>0
  <2>1. PICK k \in S : \A m \in S : k <= m
    <3> HIDE DEF S
    <3> QED
      BY <2>0, LeastExists
  <2>2. k # 0 /\ k \in 0..LenSize /\ Weight[k] # f[k]
    BY <1>0, <1>2, <1>5, <2>1 DEF Weighs
  <2>3. k - 1 \in 0..LenSize /\ k \in 1..LenSize /\ k - 1 \notin S
    BY <1>0, <2>1, <2>2
  <2>4. Weight[k - 1] = f[k - 1]
    BY <2>3
  <2>5. Weight[k] = Radix * f[k - 1] /\ f[k] = Radix * f[k - 1]
    BY <1>2, <1>5, <2>2, <2>3, <2>4 DEF Weighs
  <2> QED
    BY <2>2, <2>5
<1>7. \A k \in 0..LenSize : Weight[k] = f[k]
  BY <1>6
<1>8. ASSUME NEW k \in 0..LenSize - 1 PROVE Weight[k + 1] = Radix * Weight[k]
  <2>1. k + 1 \in 0..LenSize /\ k + 1 # 0 /\ (k + 1) - 1 = k
    BY <1>0
  <2> QED
    BY <1>5, <2>1
<1> QED
  BY <1>0, <1>2, <1>5, <1>7, <1>8

\* Shifting the next digit in.
LEMMA DigitStep ==
  ASSUME NEW l \in Nat, NEW e \in 0..LenSize - 1
  PROVE  l \div Weight[e] = (l \div Weight[e + 1]) * Radix + ((l \div Weight[e]) % Radix)
<1>1. PICK w \in Nat : w = Weight[e] /\ w > 0
  BY WeightFacts, StreamAssumption
<1>2. Weight[e + 1] = Radix * w
  BY <1>1, WeightFacts
<1>3. PICK r \in Nat : r = Radix /\ r > 1
  BY StreamAssumption
<1> DEFINE x == l \div w
<1>4. x \in Nat
  BY <1>1
<1>5. l \div (w * r) = x \div r
  BY <1>1, <1>3
<1>6. w * r = r * w
  BY <1>1, <1>3
<1> HIDE DEF x
<1>7. x = r * (x \div r) + (x % r)
  BY <1>3, <1>4
<1>8. x \div r \in Nat
  BY <1>3, <1>4
<1>9. x = (x \div r) * r + (x % r)
  BY <1>3, <1>4, <1>7, <1>8
<1> QED
  BY <1>1, <1>2, <1>3, <1>5, <1>6, <1>9 DEF x

\* The first digit is what is left of the length when all others are shifted out.
LEMMA DigitFirst ==
  ASSUME NEW l \in Lengths
  PROVE  l \div Weight[LenSize - 1] = (l \div Weight[LenSize - 1]) % Radix
<1>1. l \in Nat /\ LenSize \in Nat \ {0} /\ LenSize - 1 \in 0..LenSize - 1 /\ (LenSize - 1) + 1 = LenSize
  <2>1. Weight[LenSize] \in Nat
    BY WeightFacts, StreamAssumption
  <2> QED
    BY <2>1, StreamAssumption
<1>2. PICK w \in Nat : w = Weight[LenSize - 1] /\ w > 0
  BY <1>1, WeightFacts
<1>3. PICK r \in Nat : r = Radix /\ r > 1
  BY StreamAssumption
<1>4. Weight[LenSize] = r * w
  BY <1>1, <1>2, <1>3, WeightFacts
<1>5. l < r * w
  <2>1. r * w \in Nat
    BY <1>2, <1>3
  <2> QED
    BY <1>1, <1>4, <2>1, StreamAssumption
<1> DEFINE x == l \div w
<1>6. x \in Nat /\ x * w <= l
  BY <1>1, <1>2
<1> HIDE DEF x
<1>7. x < r
  <2> SUFFICES ASSUME x >= r PROVE FALSE
    BY <1>3, <1>6
  <2>1. x * w >= r * w
    BY <1>2, <1>3, <1>6
  <2> QED
    BY <1>1, <1>2, <1>3, <1>5, <1>6, <2>1
<1>8. x % r = x
  BY <1>3, <1>6, <1>7
<1> QED
  BY <1>2, <1>3, <1>8 DEF x

----------------------------------------------------------------------------

\* The packets a peer can send.
Sendable == {Packet(n, c, l) : n \in Nat, c \in Commands, l \in Lengths}

\* The bytes of a packet.
Size(p) == 8 + LenSize + Len(p.data)
Code(p, j) ==
  IF j <= 3 THEN BeginTag[j]
  ELSE IF j = 4 THEN p.seqn
  ELSE IF j = 5 THEN CommandByte(p.cmd)
  ELSE IF j <= 5 + LenSize THEN Digits(Len(p.data))[j - 5]
  ELSE IF j <= 5 + LenSize + Len(p.data) THEN p.data[j - (5 + LenSize)]
  ELSE EndTag[j - (5 + LenSize + Len(p.data))]

LEMMA SendableFacts ==
  ASSUME NEW p \in Sendable
  PROVE  /\ p = [seqn |-> p.seqn, cmd |-> p.cmd, data |-> p.data]
         /\ p.seqn \in Nat /\ p.cmd \in Commands
         /\ p.data \in Seq(Nat) /\ Len(p.data) \in Nat /\ Len(p.data) \in Lengths
         /\ CommandByte(p.cmd) \in 0..4 /\ Command[CommandByte(p.cmd) + 1] = p.cmd
<1>1. PICK n \in Nat, c \in Commands, l \in Lengths : p = Packet(n, c, l)
  BY DEF Sendable
<1>2. l \in Nat
  <2>1. Weight[LenSize] \in Nat
    BY WeightFacts, StreamAssumption
  <2> QED
    BY <2>1, StreamAssumption
<1>3. p.seqn = n /\ p.cmd = c /\ p.data = [i \in 1..l |-> 4 + ((n + i) % 4)]
      /\ p = [seqn |-> p.seqn, cmd |-> p.cmd, data |-> p.data]
  BY <1>1 DEF Packet
<1>4. \A i \in 1..l : 4 + ((n + i) % 4) \in Nat
  <2> SUFFICES ASSUME NEW i \in 1..l PROVE 4 + ((n + i) % 4) \in Nat
    OBVIOUS
  <2>1. PICK x \in Nat : x = n + i
    BY <1>2
  <2>2. x % 4 \in Nat
    OBVIOUS
  <2> QED
    BY <2>1, <2>2
<1>5. p.data \in Seq(Nat) /\ Len(p.data) = l
  <2> DEFINE d == [i \in 1..l |-> 4 + ((n + i) % 4)]
  <2>1. d \in [1..l -> Nat]
    BY <1>4
  <2> HIDE DEF d
  <2>2. d \in Seq(Nat) /\ Len(d) = l
    <3>1. DOMAIN d = 1..l
      BY <2>1
    <3>2. d \in Seq(Nat)
      BY <1>2, <2>1
    <3> QED
      BY <1>2, <3>1, <3>2, LenProperties
  <2> QED
    BY <1>3, <2>2 DEF d
<1>6. \E i \in 0..4 : Command[i + 1] = c
  <2>1. c \in {"HEARTBEAT", "ONEWAY", "REQUEST", "RESPONSE", "ACK"}
    BY StreamAssumption
  <2>2. /\ Command[0 + 1] = "HEARTBEAT" /\ Command[1 + 1] = "ONEWAY" /\ Command[2 + 1] = "REQUEST"
        /\ Command[3 + 1] = "RESPONSE" /\ Command[4 + 1] = "ACK"
    BY DEF Command
  <2>3. 0 \in 0..4 /\ 1 \in 0..4 /\ 2 \in 0..4 /\ 3 \in 0..4 /\ 4 \in 0..4
    OBVIOUS
  <2> QED
    BY <2>1, <2>2, <2>3
<1>7. Len(Command) - 1 = 4
  BY DEF Command
<1>8. CommandByte(c) \in 0..4 /\ Command[CommandByte(c) + 1] = c
  BY <1>6, <1>7 DEF CommandByte
<1> QED
  BY <1>1, <1>2, <1>3, <1>5, <1>8

LEMMA DigitsFacts ==
  ASSUME NEW l \in Nat
  PROVE  /\ Digits(l) \in Seq(Nat) /\ Len(Digits(l)) = LenSize
         /\ \A i \in 1..LenSize : Digits(l)[i] = (l \div Weight[LenSize - i]) % Radix
<1>1. LenSize \in Nat
  BY StreamAssumption
<1>2. ASSUME NEW i \in 1..LenSize PROVE (l \div Weight[LenSize - i]) % Radix \in Nat
  <2>1. LenSize - i \in 0..LenSize
    BY <1>1
  <2>2. PICK w \in Nat : w = Weight[LenSize - i] /\ w > 0
    BY <2>1, WeightFacts
  <2>3. PICK r \in Nat : r = Radix /\ r > 1
    BY StreamAssumption
  <2>4. PICK x \in Nat : x = l \div w
    BY <2>2
  <2>5. x % r \in Nat
    BY <2>3
  <2> QED
    BY <2>2, <2>3, <2>4, <2>5
<1>3. Digits(l) \in [1..LenSize -> Nat]
  BY <1>2 DEF Digits
<1>4. Digits(l) \in Seq(Nat) /\ DOMAIN Digits(l) = 1..LenSize
  BY <1>1, <1>3
<1>5. Len(Digits(l)) = LenSize
  BY <1>1, <1>4, LenProperties
<1> QED
  BY <1>4, <1>5 DEF Digits

\* r is s followed by t.
Joined(r, s, t, n, m) ==
  /\ r \in Seq(Nat) /\ Len(r) = n + m
  /\ \A i \in 1..n + m : r[i] = IF i <= n THEN s[i] ELSE t[i - n]

LEMMA ConcatJoined ==
  ASSUME NEW s \in Seq(Nat), NEW t \in Seq(Nat), NEW n, NEW m, n = Len(s), m = Len(t)
  PROVE  Joined(s \o t, s, t, n, m)
<1>1. /\ s \o t \in Seq(Nat) /\ Len(s \o t) = Len(s) + Len(t)
      /\ \A i \in 1..Len(s) + Len(t) : (s \o t)[i] = IF i <= Len(s) THEN s[i] ELSE t[i - Len(s)]
  BY ConcatProperties
<1> QED
  BY <1>1 DEF Joined

\* The last three parts of a packet's bytes.
LEMMA CodeParts ==
  ASSUME NEW p, NEW j \in Nat, NEW l \in Nat, l = Len(p.data)
  PROVE  /\ j > 5 /\ j <= 5 + LenSize => Code(p, j) = Digits(l)[j - 5]
         /\ j > 5 + LenSize /\ j <= 5 + LenSize + l => Code(p, j) = p.data[j - (5 + LenSize)]
         /\ j > 5 + LenSize + l => Code(p, j) = EndTag[j - (5 + LenSize + l)]
<1>1. PICK L \in Nat : L = LenSize
  BY StreamAssumption
<1>2. Code(p, j) = IF j <= 3 THEN BeginTag[j]
                   ELSE IF j = 4 THEN p.seqn
                   ELSE IF j = 5 THEN CommandByte(p.cmd)
                   ELSE IF j <= 5 + L THEN Digits(l)[j - 5]
                   ELSE IF j <= 5 + L + l THEN p.data[j - (5 + L)]
                   ELSE EndTag[j - (5 + L + l)]
  BY <1>1 DEF Code
<1>3. j > 5 /\ j <= 5 + L => Code(p, j) = Digits(l)[j - 5]
  BY <1>2
<1>4. j > 5 + L /\ j <= 5 + L + l => Code(p, j) = p.data[j - (5 + L)]
  BY <1>2
<1>5. ASSUME j > 5 + L + l PROVE Code(p, j) = EndTag[j - (5 + L + l)]
  <2>1. ~(j <= 3) /\ j # 4 /\ j # 5 /\ ~(j <= 5 + L) /\ ~(j <= 5 + L + l)
    BY ONLY <1>5, j \in Nat, l \in Nat, L \in Nat
  <2> QED
    BY ONLY <1>2, <2>1
<1> QED
  BY <1>1, <1>3, <1>4, <1>5

LEMMA EncodeFacts ==
  ASSUME NEW p \in Sendable
  PROVE  /\ Encode(p) \in Seq(Nat) /\ Len(Encode(p)) = Size(p) /\ Size(p) \in Nat /\ Size(p) > 8
         /\ \A j \in 1..Size(p) : Encode(p)[j] = Code(p, j)
<1>1. PICK L \in Nat : L = LenSize /\ L > 0
  BY StreamAssumption
<1>2. PICK d : d = p.data /\ d \in Seq(Nat)
  BY SendableFacts
<1>3. PICK l \in Nat : l = Len(d)
  BY <1>2, LenProperties
<1>4. PICK g : g = Digits(l) /\ g \in Seq(Nat) /\ Len(g) = L
  BY <1>1, DigitsFacts
<1>5. PICK h : h = <<p.seqn, CommandByte(p.cmd)>>
  OBVIOUS
<1>6. h \in Seq(Nat) /\ Len(h) = 2 /\ h[1] = p.seqn /\ h[2] = CommandByte(p.cmd)
  <2>1. p.seqn \in Nat /\ CommandByte(p.cmd) \in Nat
    BY SendableFacts
  <2> QED
    BY <1>5, <2>1
<1>7. BeginTag \in Seq(Nat) /\ Len(BeginTag) = 3 /\ EndTag \in Seq(Nat) /\ Len(EndTag) = 3
  BY DEF BeginTag, EndTag
<1> DEFINE a == BeginTag \o h
           b == a \o g
           c == b \o d
           e == c \o EndTag
<1>8. Joined(a, BeginTag, h, 3, 2)
  BY <1>6, <1>7, ConcatJoined
<1> HIDE DEF a
<1>9. Joined(b, a, g, 5, L)
  <2>1. a \in Seq(Nat) /\ 5 = Len(a)
    BY <1>8 DEF Joined
  <2> QED
    BY <1>4, <2>1, ConcatJoined
<1> HIDE DEF b
<1>10. Joined(c, b, d, 5 + L, l)
  <2>1. b \in Seq(Nat) /\ 5 + L = Len(b)
    BY <1>9 DEF Joined
  <2> QED
    BY <1>2, <1>3, <2>1, ConcatJoined
<1> HIDE DEF c
<1>11. Joined(e, c, EndTag, 5 + L + l, 3)
  <2>1. c \in Seq(Nat) /\ 5 + L + l = Len(c)
    BY <1>10 DEF Joined
  <2> QED
    BY <1>7, <2>1, ConcatJoined
<1> HIDE DEF e
<1>12. Encode(p) = e
  BY <1>2, <1>3, <1>4, <1>5 DEF Encode, a, b, c, e
<1>13. Size(p) = 5 + L + l + 3 /\ Size(p) \in Nat /\ Size(p) > 8
  <2>1. Size(p) = 8 + L + l
    BY <1>1, <1>2, <1>3 DEF Size
  <2> QED
    BY <1>1, <2>1
<1>14. ASSUME NEW j \in 1..5 + L + l + 3 PROVE e[j] = Code(p, j)
  <2>1. e[j] = IF j <= 5 + L + l THEN c[j] ELSE EndTag[j - (5 + L + l)]
    BY <1>11 DEF Joined
  <2>2. ASSUME j <= 5 + L + l PROVE c[j] = IF j <= 5 + L THEN b[j] ELSE d[j - (5 + L)]
    <3>1. j \in 1..5 + L + l
      BY <2>2
    <3> QED
      BY <1>10, <3>1 DEF Joined
  <2>3. ASSUME j <= 5 + L PROVE b[j] = IF j <= 5 THEN a[j] ELSE g[j - 5]
    <3>1. j \in 1..5 + L
      BY <2>3
    <3> QED
      BY <1>9, <3>1 DEF Joined
  <2>4. ASSUME j <= 5 PROVE a[j] = IF j <= 3 THEN BeginTag[j] ELSE h[j - 3]
    BY <1>8, <2>4 DEF Joined
  <2>5. ASSUME j <= 5 PROVE a[j] = IF j <= 3 THEN BeginTag[j] ELSE IF j = 4 THEN p.seqn
                                  ELSE CommandByte(p.cmd)
    <3>1. j <= 3 \/ j = 4 \/ j = 5
      BY <2>5
    <3>2. j = 4 => j - 3 = 1
      OBVIOUS
    <3>3. j = 5 => j - 3 = 2
      OBVIOUS
    <3> QED
      BY <1>6, <2>4, <2>5, <3>1, <3>2, <3>3
  <2>6. Code(p, j) = IF j <= 3 THEN BeginTag[j]
                     ELSE IF j = 4 THEN p.seqn
                     ELSE IF j = 5 THEN CommandByte(p.cmd)
                     ELSE IF j <= 5 + L THEN g[j - 5]
                     ELSE IF j <= 5 + L + l THEN d[j - (5 + L)]
                     ELSE EndTag[j - (5 + L + l)]
    BY <1>1, <1>2, <1>3, <1>4 DEF Code
  <2> QED
    BY <2>1, <2>2, <2>3, <2>5, <2>6
<1>15. Encode(p) \in Seq(Nat) /\ Len(Encode(p)) = 5 + L + l + 3
  BY <1>11, <1>12 DEF Joined
<1> QED
  BY <1>12, <1>13, <1>14, <1>15

----------------------------------------------------------------------------
(* The invariant.                                                          *)

Stages == {"HEAD", "SEQN", "CMD", "DATA_LEN", "DATA", "TAIL"}

\* The packet that is being received, and how many of its bytes were parsed.
Current == sent[Len(handled) + 1]
Place ==
  CASE recv_stage = "HEAD"     -> sub_offset
    [] recv_stage = "SEQN"     -> 3
    [] recv_stage = "CMD"      -> 4
    [] recv_stage = "DATA_LEN" -> 5 + sub_offset
    [] recv_stage = "DATA"     -> 5 + LenSize + packet_databufs_offset
    [] recv_stage = "TAIL"     -> 5 + LenSize + data_len + sub_offset

StreamTyped ==
  /\ wire \in Seq(Nat) /\ recv_bufs \in [0..recv_bufs_size - 1 -> Nat]
  /\ recv_bufs_offset \in Nat /\ walker_count \in Nat
  /\ recv_bufs_offset <= walker_count /\ walker_count <= recv_bufs_size
  /\ recv_stage \in Stages /\ sub_offset \in Nat /\ data_len \in Nat
  /\ packet_databufs \in Seq(Nat) /\ packet_databufs_offset \in Nat
  /\ sent \in Seq(Sendable) /\ handled \in Seq(Sendable)

\* What was completed is what was sent, so far.
InOrder ==
  /\ Len(handled) <= Len(sent)
  /\ \A m \in 1..Len(handled) : handled[m] = sent[m]
  /\ \A m \in 1..Len(sent) : sent[m].seqn = m

\* What each stage knows of the packet.
StageKnows ==
  /\ recv_stage \in {"HEAD", "TAIL"} => sub_offset < 3
  /\ recv_stage \in {"SEQN", "CMD", "DATA"} => sub_offset = 0
  /\ recv_stage = "DATA_LEN" => sub_offset <= LenSize
  /\ recv_stage # "HEAD" \/ sub_offset > 0 => Len(handled) < Len(sent)
  /\ recv_stage \in {"CMD", "DATA_LEN", "DATA", "TAIL"} => seqn = Current.seqn
  /\ recv_stage \in {"DATA_LEN", "DATA", "TAIL"} => cmd = CommandByte(Current.cmd)
  /\ recv_stage = "DATA_LEN" /\ sub_offset > 0 =>
       data_len = Len(Current.data) \div Weight[LenSize - sub_offset]
  /\ recv_stage \in {"DATA", "TAIL"} => data_len = Len(Current.data)
  /\ IF recv_stage = "DATA" THEN packet_databufs_offset < data_len
                            ELSE packet_databufs_offset = 0

\* The part of the payload that was copied.
Copied ==
  /\ recv_stage = "DATA" =>
       /\ packet_databufs_offset > 0 => Len(packet_databufs) >= data_len
       /\ \A i \in 1..packet_databufs_offset : packet_databufs[i] = Current.data[i]
  /\ recv_stage = "TAIL" =>
       /\ Len(packet_databufs) >= data_len
       /\ \A i \in 1..data_len : packet_databufs[i] = Current.data[i]

\* The bytes to come: those received and not parsed, then those on the wire.
Held == walker_count - recv_bufs_offset
Ahead(i) ==
  IF i <= Held THEN recv_bufs[recv_bufs_offset + i - 1] ELSE wire[i - Held]

\* s tells where each packet begins among all the bytes sent; the bytes to come are
\* the ones after the first a.
Bytes(s, a) ==
  /\ \A m \in 1..Len(sent) + 1 : s[m] \in Nat /\ s[m] <= s[Len(sent) + 1]
  /\ \A m \in 1..Len(sent) : s[m + 1] = s[m] + Size(sent[m])
  /\ Held + Len(wire) = s[Len(sent) + 1] - a
  /\ \A m \in 1..Len(sent) : \A j \in 1..Size(sent[m]) :
       s[m] + j > a => Ahead(s[m] + j - a) = Code(sent[m], j)

StreamGood(s) ==
  /\ StreamTyped /\ InOrder /\ StageKnows /\ Copied
  /\ Bytes(s, s[Len(handled) + 1] + Place)

LEMMA StreamFacts ==
  ASSUME NEW s, StreamGood(s)
  PROVE  /\ Len(sent) \in Nat /\ Len(handled) \in Nat /\ Len(wire) \in Nat
         /\ Len(packet_databufs) \in Nat
         /\ \A m \in 1..Len(sent) : sent[m] \in Sendable
         /\ LenSize \in Nat \ {0} /\ Place \in Nat /\ Held \in Nat
         /\ Len(handled) + 1 \in 1..Len(sent) + 1 /\ s[Len(handled) + 1] \in Nat
<1> USE DEF StreamGood
<1>1. Len(sent) \in Nat /\ Len(handled) \in Nat /\ Len(wire) \in Nat /\ Len(packet_databufs) \in Nat
      /\ \A m \in 1..Len(sent) : sent[m] \in Sendable
  BY LenProperties, ElementOfSeq DEF StreamTyped
<1>2. LenSize \in Nat \ {0}
  BY StreamAssumption
<1>3. Place \in Nat
  <2>0. /\ LenSize \in Nat /\ sub_offset \in Nat /\ packet_databufs_offset \in Nat /\ data_len \in Nat
        /\ recv_stage \in Stages
    BY <1>2 DEF StreamTyped
  <2> HIDE DEF StreamGood
  <2>1. CASE recv_stage = "HEAD"
    <3>1. Place = sub_offset
      BY <2>1 DEF Place
    <3> QED
      BY <2>0, <2>1, <3>1
  <2>2. CASE recv_stage = "SEQN"
    <3>1. Place = 3
      BY <2>2 DEF Place
    <3> QED
      BY <2>0, <2>2, <3>1
  <2>3. CASE recv_stage = "CMD"
    <3>1. Place = 4
      BY <2>3 DEF Place
    <3> QED
      BY <2>0, <2>3, <3>1
  <2>4. CASE recv_stage = "DATA_LEN"
    <3>1. Place = 5 + sub_offset
      BY <2>4 DEF Place
    <3> QED
      BY <2>0, <2>4, <3>1
  <2>5. CASE recv_stage = "DATA"
    <3>1. Place = 5 + LenSize + packet_databufs_offset
      BY <2>5 DEF Place
    <3> QED
      BY <2>0, <2>5, <3>1
  <2>6. CASE recv_stage = "TAIL"
    <3>1. Place = 5 + LenSize + data_len + sub_offset
      BY <2>6 DEF Place
    <3> QED
      BY <2>0, <2>6, <3>1
  <2> QED
    BY <2>0, <2>1, <2>2, <2>3, <2>4, <2>5, <2>6 DEF Stages
<1>4. Held \in Nat
  BY DEF StreamTyped, Held
<1>5. Len(handled) + 1 \in 1..Len(sent) + 1
  BY <1>1 DEF InOrder
<1> QED
  BY <1>1, <1>2, <1>3, <1>4, <1>5 DEF Bytes

\* The packet being received has bytes left at every stage.
LEMMA PlaceInside ==
  ASSUME NEW s, StreamGood(s), Len(handled) < Len(sent)
  PROVE  /\ Len(handled) + 1 \in 1..Len(sent) /\ Current \in Sendable
         /\ Size(Current) \in Nat /\ Place < Size(Current)
         /\ Len(Current.data) \in Nat /\ Size(Current) = 8 + LenSize + Len(Current.data)
<1>1. Len(handled) + 1 \in 1..Len(sent) /\ Current \in Sendable /\ LenSize \in Nat \ {0}
  BY StreamFacts DEF Current
<1>2. Len(Current.data) \in Nat
  BY <1>1, SendableFacts
<1>3. Size(Current) = 8 + LenSize + Len(Current.data)
  BY DEF Size
<1>4. PICK l \in Nat : l = Len(Current.data)
  BY <1>2
<1>5. recv_stage \in {"DATA", "TAIL"} => data_len = l
  BY <1>4 DEF StreamGood, StageKnows
<1>6. Place < 8 + LenSize + l
  <2>0. /\ LenSize \in Nat /\ sub_offset \in Nat /\ packet_databufs_offset \in Nat /\ data_len \in Nat
        /\ recv_stage \in Stages
        /\ recv_stage \in {"HEAD", "TAIL"} => sub_offset < 3
        /\ recv_stage = "DATA_LEN" => sub_offset <= LenSize
        /\ recv_stage = "DATA" => packet_databufs_offset < data_len
        /\ recv_stage \in {"DATA", "TAIL"} => data_len = l
    BY <1>1, <1>5 DEF StreamGood, StageKnows, StreamTyped
  <2>1. CASE recv_stage = "HEAD"
    <3>1. Place = sub_offset
      BY <2>1 DEF Place
    <3> QED
      BY <2>0, <2>1, <3>1
  <2>2. CASE recv_stage = "SEQN"
    <3>1. Place = 3
      BY <2>2 DEF Place
    <3> QED
      BY <2>0, <2>2, <3>1
  <2>3. CASE recv_stage = "CMD"
    <3>1. Place = 4
      BY <2>3 DEF Place
    <3> QED
      BY <2>0, <2>3, <3>1
  <2>4. CASE recv_stage = "DATA_LEN"
    <3>1. Place = 5 + sub_offset
      BY <2>4 DEF Place
    <3> QED
      BY <2>0, <2>4, <3>1
  <2>5. CASE recv_stage = "DATA"
    <3>1. Place = 5 + LenSize + packet_databufs_offset
      BY <2>5 DEF Place
    <3> QED
      BY <2>0, <2>5, <3>1
  <2>6. CASE recv_stage = "TAIL"
    <3>1. Place = 5 + LenSize + data_len + sub_offset
      BY <2>6 DEF Place
    <3> QED
      BY <2>0, <2>6, <3>1
  <2> QED
    BY <2>0, <2>1, <2>2, <2>3, <2>4, <2>5, <2>6 DEF Stages
<1>7. Size(Current) = 8 + LenSize + l /\ 8 + LenSize + l \in Nat
  <2>1. Size(Current) = 8 + LenSize + l
    BY ONLY <1>3, <1>4
  <2>2. 8 + LenSize + l \in Nat
    <3>1. LenSize \in Nat
      BY <1>1
    <3> QED
      BY ONLY <3>1, l \in Nat
  <2> QED
    BY <2>1, <2>2
<1>8. Size(Current) \in Nat /\ Place < Size(Current)
  BY <1>6, <1>7
<1> QED
  BY <1>1, <1>2, <1>3, <1>8

\* What was received and not parsed continues the packet.
LEMMA HeldBytes ==
  ASSUME NEW s, StreamGood(s), NEW d \in 1..Held
  PROVE  /\ Len(handled) < Len(sent)
         /\ Place + d <= Size(Current) =>
              recv_bufs[recv_bufs_offset + d - 1] = Code(Current, Place + d)
<1> DEFINE k == Len(handled) + 1
           a == s[k] + Place
<1>1. /\ Len(sent) \in Nat /\ Len(handled) \in Nat /\ Len(wire) \in Nat /\ Place \in Nat
      /\ Held \in Nat /\ k \in 1..Len(sent) + 1 /\ s[k] \in Nat
  BY StreamFacts
<1>2. Bytes(s, a)
  BY DEF StreamGood
<1>3. Held + Len(wire) = s[Len(sent) + 1] - a
  BY <1>2 DEF Bytes
<1>4. Len(handled) < Len(sent)
  <2> SUFFICES ASSUME Len(handled) = Len(sent) PROVE FALSE
    BY <1>1
  <2>1. s[Len(sent) + 1] = s[k]
    OBVIOUS
  <2> HIDE DEF k
  <2> QED
    BY <1>1, <1>3, <2>1
<1>5. ASSUME Place + d <= Size(Current)
      PROVE  recv_bufs[recv_bufs_offset + d - 1] = Code(Current, Place + d)
  <2>1. k \in 1..Len(sent) /\ Place + d \in 1..Size(sent[k])
    <3>1. Size(Current) \in Nat /\ k \in 1..Len(sent)
      BY <1>4, PlaceInside
    <3> QED
      BY <1>1, <1>5, <3>1 DEF Current
  <2>2. s[k] + (Place + d) > a /\ s[k] + (Place + d) - a = d
    BY <1>1
  <2>3. Ahead(s[k] + (Place + d) - a) = Code(sent[k], Place + d)
    <3> HIDE DEF k, a
    <3> QED
      BY <1>2, <2>1, <2>2 DEF Bytes
  <2>4. Ahead(d) = recv_bufs[recv_bufs_offset + d - 1]
    BY <1>1 DEF Ahead
  <2> QED
    BY <2>2, <2>3, <2>4 DEF Current
<1> QED
  BY <1>4, <1>5

LEMMA NextByte ==
  ASSUME NEW s, StreamGood(s), Parsing
  PROVE  /\ Len(handled) < Len(sent) /\ Held \in Nat /\ 1 \in 1..Held
         /\ Byte = Code(Current, Place + 1) /\ Byte \in Nat
<1>1. Held \in Nat /\ 1 \in 1..Held /\ recv_bufs_offset + 1 - 1 = recv_bufs_offset
      /\ recv_bufs_offset \in 0..recv_bufs_size - 1
  BY StreamAssumption DEF StreamGood, StreamTyped, Held, Parsing
<1>2. Len(handled) < Len(sent) /\ (Place + 1 <= Size(Current) => Byte = Code(Current, Place + 1))
  BY <1>1, HeldBytes DEF Byte
<1>3. Place + 1 <= Size(Current)
  <2>1. Place < Size(Current) /\ Size(Current) \in Nat
    BY <1>2, PlaceInside
  <2>2. Place \in Nat
    BY StreamFacts
  <2> QED
    BY <2>1, <2>2
<1>4. Byte \in Nat
  BY <1>1 DEF Byte, StreamGood, StreamTyped
<1> QED
  BY <1>1, <1>2, <1>3, <1>4

\* Parsing d of the bytes received.
LEMMA BytesConsumed ==
  ASSUME NEW s, StreamGood(s), NEW a \in Nat, Bytes(s, a), NEW d \in 0..Held,
         recv_bufs_offset' = recv_bufs_offset + d,
         UNCHANGED <<wire, recv_bufs, walker_count, sent>>
  PROVE  Bytes(s, a + d)'
<1>1. /\ Len(sent) \in Nat /\ Len(wire) \in Nat /\ Held \in Nat
      /\ \A m \in 1..Len(sent) : sent[m] \in Sendable
  BY StreamFacts
<1>2. recv_bufs_offset \in Nat /\ walker_count \in Nat
  BY DEF StreamGood, StreamTyped
<1>3. Held' = Held - d /\ d \in Nat
  BY <1>1, <1>2 DEF Held
<1>4. ASSUME NEW i \in Nat, i > d PROVE Ahead(i - d)' = Ahead(i)
  <2>1. Ahead(i - d)' = IF i - d <= Held' THEN recv_bufs[recv_bufs_offset' + (i - d) - 1]
                        ELSE wire[(i - d) - Held']
    BY DEF Ahead
  <2>2. i - d <= Held' <=> i <= Held
    BY <1>1, <1>3
  <2>3. recv_bufs_offset' + (i - d) - 1 = recv_bufs_offset + i - 1
    BY <1>2, <1>3
  <2>4. (i - d) - Held' = i - Held
    BY <1>1, <1>3
  <2> QED
    BY <2>1, <2>2, <2>3, <2>4 DEF Ahead
<1>5. s[Len(sent) + 1] \in Nat
  BY <1>1 DEF Bytes
<1>6. Held' + Len(wire) = s[Len(sent) + 1] - (a + d)
  <2>1. Held + Len(wire) = s[Len(sent) + 1] - a
    BY DEF Bytes
  <2>2. PICK e \in Nat : e = s[Len(sent) + 1]
    BY <1>5
  <2>3. PICK w \in Nat : w = Len(wire)
    BY <1>1
  <2>4. PICK h \in Nat : h = Held
    BY <1>1
  <2>5. h + w = e - a /\ Held' = h - d
    BY <1>3, <2>1, <2>2, <2>3, <2>4
  <2>6. (h - d) + w = e - (a + d)
    BY <1>3, <2>5
  <2> QED
    BY <2>2, <2>3, <2>5, <2>6
<1>7. ASSUME NEW m \in 1..Len(sent), NEW j \in 1..Size(sent[m]), s[m] + j > a + d
      PROVE  Ahead(s[m] + j - (a + d))' = Code(sent[m], j)
  <2>1. s[m] \in Nat
    BY <1>1 DEF Bytes
  <2>2. Size(sent[m]) \in Nat /\ j \in Nat
    BY <1>1, EncodeFacts
  <2> DEFINE i == s[m] + j - a
  <2>3. i \in Nat /\ i > d /\ s[m] + j > a /\ s[m] + j - (a + d) = i - d
    BY <1>3, <1>7, <2>1, <2>2
  <2>4. Ahead(i) = Code(sent[m], j)
    BY <2>3 DEF Bytes
  <2> HIDE DEF i
  <2> QED
    BY <1>4, <2>3, <2>4
<1>8. \A m \in 1..Len(sent) : \A j \in 1..Size(sent[m]) :
        s[m] + j > a + d => Ahead(s[m] + j - (a + d))' = Code(sent[m], j)
  BY <1>7
<1>9. /\ \A m \in 1..Len(sent) + 1 : s[m] \in Nat /\ s[m] <= s[Len(sent) + 1]
      /\ \A m \in 1..Len(sent) : s[m + 1] = s[m] + Size(sent[m])
  BY DEF Bytes
<1>10. sent' = sent /\ wire' = wire
  OBVIOUS
<1>11. Bytes(s, a + d)' <=>
         /\ \A m \in 1..Len(sent') + 1 : s[m] \in Nat /\ s[m] <= s[Len(sent') + 1]
         /\ \A m \in 1..Len(sent') : s[m + 1] = s[m] + Size(sent'[m])
         /\ Held' + Len(wire') = s[Len(sent') + 1] - (a + d)
         /\ \A m \in 1..Len(sent') : \A j \in 1..Size(sent'[m]) :
              s[m] + j > a + d => Ahead(s[m] + j - (a + d))' = Code(sent'[m], j)
  BY DEF Bytes, Size, Code
<1> QED
  BY <1>6, <1>8, <1>9, <1>10, <1>11

\* The bytes after d more of them were parsed.
LEMMA Advance ==
  ASSUME NEW s, StreamGood(s), NEW d \in 0..Held,
         recv_bufs_offset' = recv_bufs_offset + d,
         UNCHANGED <<wire, recv_bufs, walker_count, sent>>,
         s[Len(handled') + 1] + Place' = s[Len(handled) + 1] + Place + d
  PROVE  Bytes(s, s[Len(handled) + 1] + Place)'
<1>1. PICK a \in Nat : a = s[Len(handled) + 1] + Place
  BY StreamFacts
<1>2. Bytes(s, a)
  BY <1>1 DEF StreamGood
<1>3. Bytes(s, a + d)'
  BY <1>2, BytesConsumed
<1>4. s[Len(handled') + 1] + Place' = a + d
  BY <1>1
<1>5. PICK b : b = a + d
  OBVIOUS
<1>6. Bytes(s, b)'
  BY <1>3, <1>5 DEF Bytes
<1> QED
  BY <1>4, <1>5, <1>6 DEF Bytes

\* A step of the parser within a packet.
LEMMA Parsed ==
  ASSUME NEW s, StreamGood(s), NEW d \in 0..Held,
         recv_bufs_offset' = recv_bufs_offset + d,
         UNCHANGED <<wire, recv_bufs, walker_count, sent, handled>>,
         Place' = Place + d,
         recv_stage' \in Stages, sub_offset' \in Nat, data_len' \in Nat,
         packet_databufs' \in Seq(Nat), packet_databufs_offset' \in Nat,
         StageKnows', Copied'
  PROVE  StreamGood(s)'
<1>1. s[Len(handled) + 1] \in Nat /\ Place \in Nat
  BY StreamFacts
<1>2. s[Len(handled') + 1] + Place' = s[Len(handled) + 1] + Place + d
  <2>1. PICK x \in Nat, y \in Nat : x = s[Len(handled) + 1] /\ y = Place
    BY <1>1
  <2>2. Held \in Nat
    BY StreamFacts
  <2>3. x + (y + d) = x + y + d
    BY <2>2
  <2>4. s[Len(handled') + 1] = x /\ Place' = y + d
    BY <2>1
  <2> QED
    BY <2>1, <2>3, <2>4
<1>3. Bytes(s, s[Len(handled) + 1] + Place)'
  BY <1>2, Advance
<1>4. InOrder'
  BY DEF StreamGood, InOrder
<1>5. StreamTyped'
  BY DEF StreamGood, StreamTyped, Held
<1> QED
  BY <1>3, <1>4, <1>5 DEF StreamGood

LEMMA HeadStep ==
  ASSUME NEW s, StreamGood(s), recv_head
  PROVE  StreamGood(s)'
<1>1. /\ Len(handled) < Len(sent) /\ Held \in Nat /\ 1 \in 0..Held
      /\ Byte = Code(Current, Place + 1)
  BY NextByte DEF recv_head
<1>2. Place = sub_offset /\ sub_offset \in 0..2
  BY DEF recv_head, Place, StreamGood, StreamTyped, StageKnows
<1>3. Byte = BeginTag[sub_offset + 1]
  BY <1>1, <1>2 DEF Code
<1>4. /\ recv_stage' = IF sub_offset = 2 THEN "SEQN" ELSE "HEAD"
      /\ sub_offset' = IF sub_offset = 2 THEN 0 ELSE sub_offset + 1
      /\ recv_bufs_offset' = recv_bufs_offset + 1
      /\ UNCHANGED <<wire, recv_bufs, walker_count, sent, handled, seqn, cmd, data_len,
                     packet_databufs, packet_databufs_offset>>
  BY <1>2, <1>3 DEF recv_head, Consume, TagSize, received, packet, payload, ends
<1>5. Place' = Place + 1
  <2>1. CASE sub_offset = 2
    <3>1. Place' = 3
      BY <1>4, <2>1 DEF Place
    <3> QED
      BY <1>2, <2>1, <3>1
  <2>2. CASE sub_offset # 2
    <3>1. Place' = sub_offset'
      BY <1>4, <2>2 DEF Place
    <3> QED
      BY <1>2, <1>4, <2>2, <3>1
  <2> QED
    BY <2>1, <2>2
<1>6. recv_stage' \in Stages /\ sub_offset' \in Nat
  BY <1>2, <1>4 DEF Stages
<1>7. StageKnows'
  <2>1. packet_databufs_offset = 0
    BY DEF recv_head, StreamGood, StageKnows
  <2> QED
    BY <1>1, <1>2, <1>4, <2>1 DEF StageKnows
<1>8. Copied'
  BY <1>4 DEF Copied
<1>9. data_len' \in Nat /\ packet_databufs' \in Seq(Nat) /\ packet_databufs_offset' \in Nat
  BY <1>4 DEF StreamGood, StreamTyped
<1> QED
  BY <1>1, <1>4, <1>5, <1>6, <1>7, <1>8, <1>9, Parsed

LEMMA SeqnStep ==
  ASSUME NEW s, StreamGood(s), recv_seqn
  PROVE  StreamGood(s)'
<1>1. /\ Len(handled) < Len(sent) /\ Held \in Nat /\ 1 \in 0..Held
      /\ Byte = Code(Current, Place + 1)
  BY NextByte DEF recv_seqn
<1>2. Place = 3 /\ sub_offset = 0 /\ packet_databufs_offset = 0
  BY DEF recv_seqn, Place, StreamGood, StageKnows
<1>3. Byte = Current.seqn
  BY <1>1, <1>2 DEF Code
<1>4. /\ recv_stage' = "CMD" /\ seqn' = Current.seqn
      /\ recv_bufs_offset' = recv_bufs_offset + 1
      /\ UNCHANGED <<wire, recv_bufs, walker_count, sent, handled, sub_offset, cmd, data_len,
                     packet_databufs, packet_databufs_offset>>
  BY <1>3 DEF recv_seqn, Consume, received, payload, ends
<1>5. Place' = Place + 1
  <2>1. Place' = 4
    BY <1>4 DEF Place
  <2> QED
    BY <1>2, <2>1
<1>6. recv_stage' \in Stages /\ sub_offset' \in Nat
  BY <1>2, <1>4 DEF Stages
<1>7. StageKnows'
  <2>1. Current' = Current
    BY <1>4 DEF Current
  <2> QED
    BY <1>1, <1>2, <1>4, <2>1 DEF StageKnows
<1>8. Copied'
  BY <1>4 DEF Copied
<1>9. data_len' \in Nat /\ packet_databufs' \in Seq(Nat) /\ packet_databufs_offset' \in Nat
  BY <1>4 DEF StreamGood, StreamTyped
<1> QED
  BY <1>1, <1>4, <1>5, <1>6, <1>7, <1>8, <1>9, Parsed

LEMMA CmdStep ==
  ASSUME NEW s, StreamGood(s), recv_cmd
  PROVE  StreamGood(s)'
<1>1. /\ Len(handled) < Len(sent) /\ Held \in Nat /\ 1 \in 0..Held
      /\ Byte = Code(Current, Place + 1)
  BY NextByte DEF recv_cmd
<1>2. Place = 4 /\ sub_offset = 0 /\ packet_databufs_offset = 0 /\ seqn = Current.seqn
  BY DEF recv_cmd, Place, StreamGood, StageKnows
<1>3. Byte = CommandByte(Current.cmd)
  BY <1>1, <1>2 DEF Code
<1>4. /\ recv_stage' = "DATA_LEN" /\ cmd' = CommandByte(Current.cmd)
      /\ recv_bufs_offset' = recv_bufs_offset + 1
      /\ UNCHANGED <<wire, recv_bufs, walker_count, sent, handled, sub_offset, seqn, data_len,
                     packet_databufs, packet_databufs_offset>>
  BY <1>3 DEF recv_cmd, Consume, received, payload, ends
<1>5. Place' = Place + 1
  <2>1. Place' = 5 + sub_offset'
    BY <1>4 DEF Place
  <2> QED
    BY <1>2, <1>4, <2>1
<1>6. recv_stage' \in Stages /\ sub_offset' \in Nat
  BY <1>2, <1>4 DEF Stages
<1>7. StageKnows'
  <2>1. Current' = Current /\ CommandByte(Current.cmd)' = CommandByte(Current.cmd)
    BY <1>4 DEF Current, CommandByte
  <2>2. LenSize \in Nat
    BY StreamAssumption
  <2> QED
    BY <1>1, <1>2, <1>4, <2>1, <2>2 DEF StageKnows
<1>8. Copied'
  BY <1>4 DEF Copied
<1>9. data_len' \in Nat /\ packet_databufs' \in Seq(Nat) /\ packet_databufs_offset' \in Nat
  BY <1>4 DEF StreamGood, StreamTyped
<1> QED
  BY <1>1, <1>4, <1>5, <1>6, <1>7, <1>8, <1>9, Parsed

LEMMA DataLenStep ==
  ASSUME NEW s, StreamGood(s), recv_data_len
  PROVE  StreamGood(s)'
<1>1. /\ Len(handled) < Len(sent) /\ Held \in Nat /\ 1 \in 0..Held
      /\ Byte = Code(Current, Place + 1)
  BY NextByte DEF recv_data_len
<1>2. /\ Place = 5 + sub_offset /\ packet_databufs_offset = 0 /\ LenSize \in Nat \ {0}
      /\ sub_offset \in 0..LenSize - 1
      /\ seqn = Current.seqn /\ cmd = CommandByte(Current.cmd)
  <2>1. Place = 5 + sub_offset
    BY DEF recv_data_len, Place
  <2> QED
    BY <2>1, StreamAssumption DEF recv_data_len, StreamGood, StreamTyped, StageKnows
<1>3. PICK l \in Nat : l = Len(Current.data) /\ l \in Lengths
  BY <1>1, PlaceInside, SendableFacts
<1> DEFINE e == LenSize - (sub_offset + 1)
<1>4. e \in 0..LenSize - 1 /\ e + 1 = LenSize - sub_offset
  BY <1>2
<1>5. Byte = (l \div Weight[e]) % Radix
  <2>1. Place + 1 = 6 + sub_offset
    BY <1>2
  <2>2. Code(Current, 6 + sub_offset) = Digits(l)[(6 + sub_offset) - 5]
    <3>1. PICK j \in Nat : j = 6 + sub_offset
      BY <1>2
    <3>2. j > 5 /\ j <= 5 + LenSize
      BY <1>2, <3>1
    <3>3. Code(Current, j) = Digits(l)[j - 5]
      BY <1>3, <3>2, CodeParts
    <3> QED
      BY <3>1, <3>3
  <2>3. (6 + sub_offset) - 5 = sub_offset + 1 /\ sub_offset + 1 \in 1..LenSize
    BY <1>2
  <2>4. Digits(l)[sub_offset + 1] = (l \div Weight[e]) % Radix
    BY <2>3, DigitsFacts
  <2> QED
    BY <1>1, <1>3, <2>1, <2>2, <2>3, <2>4
<1>6. /\ recv_stage' = "DATA_LEN" /\ sub_offset' = sub_offset + 1
      /\ data_len' = (IF sub_offset = 0 THEN 0 ELSE data_len * Radix) + Byte
      /\ recv_bufs_offset' = recv_bufs_offset + 1
      /\ UNCHANGED <<wire, recv_bufs, walker_count, sent, handled, seqn, cmd,
                     packet_databufs, packet_databufs_offset>>
  BY DEF recv_data_len, Consume, received, payload, ends
<1>7. data_len' = l \div Weight[e]
  <2>0. Byte \in Nat
    BY NextByte DEF recv_data_len
  <2>1. CASE sub_offset = 0
    <3>1. e = LenSize - 1
      BY <1>2, <2>1
    <3>2. l \div Weight[e] = (l \div Weight[e]) % Radix
      BY <1>3, <3>1, DigitFirst
    <3>3. data_len' = 0 + Byte
      BY <1>6, <2>1
    <3>4. data_len' = Byte
      BY <2>0, <3>3
    <3> QED
      BY <1>5, <3>2, <3>4
  <2>2. CASE sub_offset # 0
    <3>1. data_len = l \div Weight[e + 1]
      <4>1. sub_offset > 0
        BY <1>2, <2>2
      <4>2. data_len = Len(Current.data) \div Weight[LenSize - sub_offset]
        BY <4>1 DEF recv_data_len, StreamGood, StageKnows
      <4> QED
        BY <1>3, <1>4, <4>2
    <3>2. l \div Weight[e] = (l \div Weight[e + 1]) * Radix + ((l \div Weight[e]) % Radix)
      BY <1>4, DigitStep
    <3>3. data_len' = data_len * Radix + Byte
      BY <1>6, <2>2
    <3> QED
      BY <1>5, <3>1, <3>2, <3>3
  <2> QED
    BY <2>1, <2>2
<1>8. l \div Weight[e] \in Nat
  <2>1. PICK w \in Nat : w = Weight[e] /\ w > 0
    BY <1>2, <1>4, WeightFacts
  <2>2. l \div w \in Nat
    BY <2>1
  <2> QED
    BY <2>1, <2>2
<1> HIDE DEF e
<1>9. Place' = Place + 1
  <2>1. Place' = 5 + sub_offset'
    BY <1>6 DEF Place
  <2> QED
    BY <1>2, <1>6, <2>1
<1>10. recv_stage' \in Stages /\ sub_offset' \in Nat /\ sub_offset' <= LenSize
  BY <1>2, <1>6 DEF Stages
<1>11. StageKnows'
  <2>1. Current' = Current /\ CommandByte(Current.cmd)' = CommandByte(Current.cmd)
    BY <1>6 DEF Current, CommandByte
  <2>2. data_len' = Len(Current'.data) \div Weight[LenSize - sub_offset']
    BY <1>3, <1>6, <1>7, <2>1 DEF e
  <2>3. sub_offset' > 0 /\ Weight' = Weight
    BY <1>2, <1>6 DEF Weight
  <2> QED
    BY <1>1, <1>2, <1>6, <1>10, <2>1, <2>2, <2>3 DEF StageKnows
<1>12. Copied'
  BY <1>6 DEF Copied
<1>13. data_len' \in Nat /\ packet_databufs' \in Seq(Nat) /\ packet_databufs_offset' \in Nat
  BY <1>6, <1>7, <1>8 DEF StreamGood, StreamTyped
<1> QED
  BY <1>1, <1>6, <1>9, <1>10, <1>11, <1>12, <1>13, Parsed

LEMMA LengthDoneStep ==
  ASSUME NEW s, StreamGood(s), length_done
  PROVE  StreamGood(s)'
<1>1. Len(handled) < Len(sent) /\ Held \in Nat /\ 0 \in 0..Held
  BY NextByte DEF length_done
<1>2. /\ Place = 5 + LenSize /\ packet_databufs_offset = 0 /\ LenSize \in Nat \ {0}
      /\ sub_offset = LenSize /\ data_len \in Nat
      /\ seqn = Current.seqn /\ cmd = CommandByte(Current.cmd)
  <2>1. Place = 5 + sub_offset
    BY DEF length_done, Place
  <2>2. sub_offset = LenSize /\ LenSize \in Nat \ {0}
    BY StreamAssumption DEF length_done, StreamGood, StreamTyped, StageKnows
  <2> QED
    BY <2>1, <2>2 DEF length_done, StreamGood, StreamTyped, StageKnows
<1>3. PICK l \in Nat : l = Len(Current.data)
  BY <1>1, PlaceInside
<1>4. data_len = l
  <2>1. data_len = Len(Current.data) \div Weight[LenSize - sub_offset]
    BY <1>2 DEF length_done, StreamGood, StageKnows
  <2>2. LenSize - sub_offset = 0
    BY <1>2
  <2>3. data_len = l \div 1
    BY <1>3, <2>1, <2>2, WeightFacts
  <2> QED
    BY <2>3
<1>5. /\ sub_offset' = 0 /\ recv_stage' = IF data_len > 0 THEN "DATA" ELSE "TAIL"
      /\ recv_bufs_offset' = recv_bufs_offset
      /\ UNCHANGED <<wire, recv_bufs, walker_count, sent, handled, seqn, cmd, data_len,
                     packet_databufs, packet_databufs_offset>>
  BY DEF length_done, received, packet, payload, ends
<1>6. recv_bufs_offset' = recv_bufs_offset + 0
  BY <1>5 DEF StreamGood, StreamTyped
<1>7. Place' = Place + 0
  <2>1. CASE data_len > 0
    <3>1. Place' = 5 + LenSize + packet_databufs_offset'
      BY <1>5, <2>1 DEF Place
    <3> QED
      BY <1>2, <1>5, <3>1
  <2>2. CASE ~(data_len > 0)
    <3>1. Place' = 5 + LenSize + data_len' + sub_offset'
      BY <1>5, <2>2 DEF Place
    <3> QED
      BY <1>2, <1>5, <2>2, <3>1
  <2> QED
    BY <2>1, <2>2
<1>8. recv_stage' \in Stages /\ sub_offset' \in Nat
  BY <1>5 DEF Stages
<1>9. StageKnows'
  <2>1. Current' = Current /\ CommandByte(Current.cmd)' = CommandByte(Current.cmd)
    BY <1>5 DEF Current, CommandByte
  <2>2. data_len' = Len(Current'.data)
    BY <1>3, <1>4, <1>5, <2>1
  <2>3. recv_stage' = "DATA" => packet_databufs_offset' < data_len'
    BY <1>2, <1>5
  <2>4. packet_databufs_offset' = 0 /\ 0 < 3 /\ recv_stage' \in {"DATA", "TAIL"}
    BY <1>2, <1>5
  <2> QED
    BY <1>1, <1>2, <1>5, <2>1, <2>2, <2>3, <2>4 DEF StageKnows
<1>10. Copied'
  <2>1. recv_stage' = "TAIL" => data_len' = 0
    BY <1>2, <1>5
  <2>2. Len(packet_databufs) \in Nat
    BY StreamFacts
  <2> QED
    BY <1>2, <1>5, <2>1, <2>2 DEF Copied
<1>11. data_len' \in Nat /\ packet_databufs' \in Seq(Nat) /\ packet_databufs_offset' \in Nat
  BY <1>5 DEF StreamGood, StreamTyped
<1> QED
  BY <1>1, <1>5, <1>6, <1>7, <1>8, <1>9, <1>10, <1>11, Parsed

\* In the tail the next byte is one of the end tag.
LEMMA TailByte ==
  ASSUME NEW s, StreamGood(s), Parsing, recv_stage = "TAIL"
  PROVE  /\ Len(handled) < Len(sent) /\ Held \in Nat /\ 1 \in 0..Held
         /\ Byte = EndTag[sub_offset + 1] /\ sub_offset \in 0..2
         /\ data_len \in Nat /\ data_len = Len(Current.data) /\ LenSize \in Nat
         /\ Place = 5 + LenSize + data_len + sub_offset
<1>1. /\ Len(handled) < Len(sent) /\ Held \in Nat /\ 1 \in 0..Held
      /\ Byte = Code(Current, Place + 1)
  BY NextByte
<1>2. Place = 5 + LenSize + data_len + sub_offset
  BY DEF Place
<1>3. sub_offset \in 0..2 /\ data_len \in Nat /\ data_len = Len(Current.data) /\ LenSize \in Nat
  BY StreamAssumption DEF StreamGood, StreamTyped, StageKnows
<1>4. Byte = EndTag[sub_offset + 1]
  <2>1. PICK l \in Nat : l = data_len
    BY <1>3
  <2>2. PICK j \in Nat : j = 5 + LenSize + l + (sub_offset + 1)
    <3>1. LenSize \in Nat /\ sub_offset \in Nat
      BY <1>3
    <3> QED
      BY <3>1
  <2>3. j > 5 + LenSize + l /\ j - (5 + LenSize + l) = sub_offset + 1
    <3>1. LenSize \in Nat /\ sub_offset \in Nat
      BY <1>3
    <3> QED
      BY <2>2, <3>1
  <2>4. Place + 1 = j
    <3>1. LenSize \in Nat /\ sub_offset \in Nat /\ data_len \in Nat
      BY <1>3
    <3> QED
      BY <1>2, <2>1, <2>2, <3>1
  <2>5. l = Len(Current.data)
    BY <1>3, <2>1
  <2>6. Code(Current, j) = EndTag[j - (5 + LenSize + l)]
    BY <2>3, <2>5, CodeParts
  <2> QED
    BY <1>1, <2>3, <2>4, <2>6
<1> QED
  BY <1>1, <1>2, <1>3, <1>4

LEMMA TailStep ==
  ASSUME NEW s, StreamGood(s), recv_tail
  PROVE  StreamGood(s)'
<1>1. Parsing /\ recv_stage = "TAIL"
  BY DEF recv_tail
<1>2. /\ Len(handled) < Len(sent) /\ Held \in Nat /\ 1 \in 0..Held
      /\ data_len \in Nat /\ LenSize \in Nat /\ Place = 5 + LenSize + data_len + sub_offset
      /\ sub_offset \in 0..1
  <2>1. sub_offset + 1 < 3
    BY DEF recv_tail, TagSize
  <2> QED
    BY <1>1, <2>1, TailByte
<1>3. /\ sub_offset' = sub_offset + 1 /\ recv_stage' = "TAIL"
      /\ recv_bufs_offset' = recv_bufs_offset + 1
      /\ UNCHANGED <<wire, recv_bufs, walker_count, sent, handled, seqn, cmd, data_len,
                     packet_databufs, packet_databufs_offset>>
  BY DEF recv_tail, Consume, received, packet, payload, ends
<1>4. Place' = Place + 1
  <2>1. Place' = 5 + LenSize + data_len' + sub_offset'
    BY <1>3 DEF Place
  <2> QED
    BY <1>2, <1>3, <2>1
<1>5. recv_stage' \in Stages /\ sub_offset' \in Nat /\ sub_offset' < 3
  BY <1>2, <1>3 DEF Stages
<1>6. Current' = Current /\ CommandByte(Current.cmd)' = CommandByte(Current.cmd)
  BY <1>3 DEF Current, CommandByte
<1>7. StageKnows'
  BY <1>1, <1>2, <1>3, <1>5, <1>6 DEF StageKnows, StreamGood
<1>8. Copied'
  BY <1>1, <1>3, <1>6 DEF Copied, StreamGood
<1>9. data_len' \in Nat /\ packet_databufs' \in Seq(Nat) /\ packet_databufs_offset' \in Nat
  BY <1>3 DEF StreamGood, StreamTyped
<1> QED
  BY <1>2, <1>3, <1>4, <1>5, <1>7, <1>8, <1>9, Parsed

\* What is copied, when nothing beyond the bytes received is.
LEMMA DiffFacts ==
  ASSUME NEW s, StreamGood(s), recv_data, recv_bufs_offset + Diff <= walker_count
  PROVE  /\ Diff \in Nat /\ Diff > 0 /\ Diff \in 0..Held /\ Held \in Nat
         /\ packet_databufs_offset + Diff <= data_len
         /\ packet_databufs_offset \in Nat /\ packet_databufs_offset < data_len
         /\ data_len \in Nat
<1>1. /\ recv_bufs_offset \in Nat /\ walker_count \in Nat /\ recv_bufs_size \in Nat
      /\ recv_bufs_offset < walker_count /\ walker_count <= recv_bufs_size
      /\ packet_databufs_offset \in Nat /\ data_len \in Nat
      /\ packet_databufs_offset < data_len
  BY StreamAssumption DEF recv_data, Parsing, StreamGood, StreamTyped, StageKnows
<1>2. /\ Diff \in Nat /\ Diff > 0 /\ packet_databufs_offset + Diff <= data_len
  BY <1>1 DEF Diff
<1>3. Held \in Nat /\ Diff <= Held
  <2>1. Held = walker_count - recv_bufs_offset
    BY DEF Held
  <2> QED
    BY <1>1, <1>2, <2>1
<1> QED
  BY <1>1, <1>2, <1>3

\* The buffer the payload goes to has room for it, and keeps what was copied.
LEMMA DatabufsFacts ==
  ASSUME NEW s, StreamGood(s), recv_data
  PROVE  /\ Databufs \in Seq(Nat) /\ Len(Databufs) \in Nat /\ Len(Databufs) >= data_len
         /\ \A i \in 1..packet_databufs_offset : Databufs[i] = Current.data[i]
<1>1. /\ packet_databufs \in Seq(Nat) /\ Len(packet_databufs) \in Nat /\ data_len \in Nat
      /\ packet_databufs_offset \in Nat /\ recv_stage = "DATA"
  BY LenProperties DEF recv_data, StreamGood, StreamTyped
<1>2. CASE Len(packet_databufs) >= data_len
  <2>1. Databufs = packet_databufs
    BY <1>2 DEF Databufs
  <2> QED
    BY <1>1, <1>2, <2>1 DEF StreamGood, Copied
<1>3. CASE ~(Len(packet_databufs) >= data_len)
  <2>1. Databufs = [i \in 1..data_len |-> 0]
    BY <1>3 DEF Databufs
  <2>2. Databufs \in [1..data_len -> Nat] /\ DOMAIN Databufs = 1..data_len
    BY <2>1
  <2>3. Databufs \in Seq(Nat)
    BY <1>1, <2>2
  <2>4. Len(Databufs) = data_len
    BY <1>1, <2>2, <2>3, LenProperties
  <2>5. packet_databufs_offset = 0
    BY <1>1, <1>3 DEF StreamGood, Copied
  <2> QED
    BY <1>1, <2>3, <2>4, <2>5
<1> QED
  BY <1>2, <1>3

\* The bytes received after Place continue the payload.
LEMMA PayloadBytes ==
  ASSUME NEW s, StreamGood(s), recv_data, recv_bufs_offset + Diff <= walker_count,
         NEW d \in 1..Diff
  PROVE  recv_bufs[recv_bufs_offset + d - 1] = Current.data[packet_databufs_offset + d]
<1>1. PICK o \in Nat, D \in Nat, n \in Nat, L \in Nat :
        o = packet_databufs_offset /\ D = Diff /\ n = data_len /\ L = LenSize
        /\ o + D <= n /\ D <= Held
  BY DiffFacts, StreamAssumption
<1>2. d \in 1..Held /\ d \in 1..D /\ Held \in Nat
  BY <1>1, DiffFacts
<1>3. /\ Len(handled) < Len(sent)
      /\ Place + d <= Size(Current) =>
           recv_bufs[recv_bufs_offset + d - 1] = Code(Current, Place + d)
  BY <1>2, HeldBytes
<1>4. n = Len(Current.data)
  BY <1>1 DEF recv_data, StreamGood, StageKnows
<1>5. Size(Current) = 8 + L + n
  BY <1>1, <1>4 DEF Size
<1>6. Place = 5 + L + o
  BY <1>1 DEF recv_data, Place
<1>7. PICK j \in Nat : j = 5 + L + o + d
  BY <1>2
<1>8. j > 5 + L /\ j <= 5 + L + n /\ j - (5 + L) = o + d /\ j <= 8 + L + n
  BY ONLY <1>1, <1>2, <1>7, o \in Nat, D \in Nat, n \in Nat, L \in Nat
<1>9. Code(Current, j) = Current.data[j - (5 + L)]
  BY <1>1, <1>4, <1>8, CodeParts
<1>10. Place + d = j
  BY <1>2, <1>6, <1>7
<1> QED
  BY <1>1, <1>3, <1>5, <1>8, <1>9, <1>10

LEMMA DataStep ==
  ASSUME NEW s, StreamGood(s), recv_data, recv_bufs_offset + Diff <= walker_count
  PROVE  StreamGood(s)'
<1>1. Len(handled) < Len(sent) /\ LenSize \in Nat /\ sub_offset = 0
  BY NextByte, StreamAssumption DEF recv_data, StreamGood, StageKnows
<1>2. PICK o \in Nat, D \in Nat, n \in Nat :
        /\ o = packet_databufs_offset /\ D = Diff /\ n = data_len
        /\ o + D <= n /\ D > 0 /\ D \in 0..Held /\ o < n
  BY DiffFacts
<1>3. PICK b : b = Databufs /\ b \in Seq(Nat) /\ Len(b) \in Nat /\ Len(b) >= n
               /\ \A i \in 1..o : b[i] = Current.data[i]
  BY <1>2, DatabufsFacts
<1> DEFINE f == [i \in 1..Len(b) |->
                   IF i \in o + 1..o + D THEN recv_bufs[recv_bufs_offset + i - o - 1] ELSE b[i]]
<1>4. /\ packet_databufs' = f /\ recv_bufs_offset' = recv_bufs_offset + D
      /\ IF o + D >= n THEN recv_stage' = "TAIL" /\ packet_databufs_offset' = 0
         ELSE recv_stage' = "DATA" /\ packet_databufs_offset' = o + D
      /\ UNCHANGED <<wire, recv_bufs, walker_count, sent, handled, sub_offset, seqn, cmd, data_len>>
  BY <1>2, <1>3 DEF recv_data, received, packet
<1>5. ASSUME NEW i \in 1..Len(b), i <= o + D PROVE f[i] = Current.data[i]
  <2>1. CASE i <= o
    <3>1. f[i] = b[i]
      BY <2>1
    <3> QED
      BY <1>3, <2>1, <3>1
  <2>2. CASE i > o
    <3>1. i \in o + 1..o + D /\ i - o \in 1..D /\ o + (i - o) = i
      BY <1>5, <2>2
    <3>2. f[i] = recv_bufs[recv_bufs_offset + i - o - 1]
      BY <3>1
    <3>3. recv_bufs[recv_bufs_offset + (i - o) - 1] = Current.data[o + (i - o)]
      BY <1>2, <3>1, PayloadBytes
    <3>4. recv_bufs_offset + (i - o) - 1 = recv_bufs_offset + i - o - 1
      BY DEF StreamGood, StreamTyped
    <3> QED
      BY <3>1, <3>2, <3>3, <3>4
  <2> QED
    BY <2>1, <2>2
<1>6. f \in Seq(Nat) /\ Len(f) = Len(b)
  <2>1. ASSUME NEW i \in 1..Len(b) PROVE f[i] \in Nat
    <3>1. CASE i \in o + 1..o + D
      <4>1. recv_bufs_offset + i - o - 1 \in 0..recv_bufs_size - 1
        BY <1>2, <3>1, StreamAssumption DEF StreamGood, StreamTyped, Held
      <4>2. recv_bufs[recv_bufs_offset + i - o - 1] \in Nat
        BY <4>1 DEF StreamGood, StreamTyped
      <4> QED
        BY <3>1, <4>2
    <3>2. CASE i \notin o + 1..o + D
      <4>1. b[i] \in Nat
        BY <1>3, ElementOfSeq
      <4> QED
        BY <3>2, <4>1
    <3> QED
      BY <3>1, <3>2
  <2>2. f \in [1..Len(b) -> Nat] /\ DOMAIN f = 1..Len(b)
    BY <2>1
  <2> HIDE DEF f
  <2>3. f \in Seq(Nat)
    BY <1>3, <2>2
  <2> QED
    BY <1>3, <2>2, <2>3, LenProperties
<1> HIDE DEF f
<1>7. Place = 5 + LenSize + o
  BY <1>2 DEF recv_data, Place
<1>8. Place' = Place + D
  <2>1. CASE o + D >= n
    <3>1. Place' = 5 + LenSize + data_len' + sub_offset'
      BY <1>4, <2>1 DEF Place
    <3>2. Place' = 5 + LenSize + n + 0
      BY <1>1, <1>2, <1>4, <3>1
    <3> QED
      BY <1>1, <1>2, <1>7, <2>1, <3>2
  <2>2. CASE ~(o + D >= n)
    <3>1. Place' = 5 + LenSize + packet_databufs_offset'
      BY <1>4, <2>2 DEF Place
    <3>2. Place' = 5 + LenSize + (o + D)
      BY <1>4, <2>2, <3>1
    <3> QED
      BY <1>1, <1>2, <1>7, <3>2
  <2> QED
    BY <2>1, <2>2
<1>9. Current' = Current /\ CommandByte(Current.cmd)' = CommandByte(Current.cmd)
  BY <1>4 DEF Current, CommandByte
<1>10. StageKnows'
  <2>1. seqn = Current.seqn /\ cmd = CommandByte(Current.cmd) /\ data_len = Len(Current.data)
    BY DEF recv_data, StreamGood, StageKnows
  <2>2. data_len' = Len(Current'.data) /\ sub_offset' = 0 /\ recv_stage' \in {"DATA", "TAIL"}
    BY <1>1, <1>4, <1>9, <2>1
  <2>3. IF recv_stage' = "DATA" THEN packet_databufs_offset' < data_len'
                                ELSE packet_databufs_offset' = 0
    BY <1>2, <1>4
  <2> QED
    BY <1>1, <1>4, <1>9, <2>1, <2>2, <2>3 DEF StageKnows
<1>11. Copied'
  <2>1. Len(packet_databufs') >= data_len'
    BY <1>2, <1>3, <1>4, <1>6
  <2>2. ASSUME recv_stage' = "DATA", NEW i \in 1..packet_databufs_offset'
        PROVE  packet_databufs'[i] = Current'.data[i]
    <3>1. packet_databufs_offset' = o + D
      BY <1>4, <2>2
    <3>2. i \in 1..Len(b) /\ i <= o + D
      BY <1>2, <1>3, <3>1
    <3> QED
      BY <1>4, <1>5, <1>9, <3>2
  <2>3. ASSUME recv_stage' = "TAIL", NEW i \in 1..data_len'
        PROVE  packet_databufs'[i] = Current'.data[i]
    <3>1. o + D >= n /\ data_len' = n
      BY <1>2, <1>4, <2>3
    <3>2. i \in 1..Len(b) /\ i <= o + D
      BY <1>2, <1>3, <3>1
    <3> QED
      BY <1>4, <1>5, <1>9, <3>2
  <2> QED
    BY <2>1, <2>2, <2>3 DEF Copied
<1>12. /\ data_len' \in Nat /\ packet_databufs' \in Seq(Nat) /\ packet_databufs_offset' \in Nat
       /\ recv_stage' \in Stages /\ sub_offset' \in Nat
  BY <1>1, <1>2, <1>4, <1>6 DEF Stages
<1> QED
  BY <1>2, <1>4, <1>8, <1>10, <1>11, <1>12, Parsed

\* The packet that is completed is the one that was sent.
LEMMA CompletedIsSent ==
  ASSUME NEW s, StreamGood(s), NEW callback, completed(callback)
  PROVE  /\ Len(handled) < Len(sent) /\ Current \in Sendable
         /\ handled' = Append(handled, Current)
         /\ seqn = Current.seqn /\ Current.seqn = Len(handled) + 1
         /\ (IF cmd < Len(Command) THEN Command[cmd + 1] ELSE "none") = Current.cmd
         /\ UNCHANGED <<wire, recv_bufs, walker_count, sent, disturbed>>
<1>1. Parsing /\ recv_stage = "TAIL"
  BY DEF completed
<1>2. /\ Len(handled) < Len(sent) /\ Current \in Sendable
      /\ Len(handled) + 1 \in 1..Len(sent)
  BY <1>1, TailByte, PlaceInside
<1>3. PICK n \in Nat : n = data_len /\ n = Len(Current.data)
  BY <1>1 DEF StreamGood, StreamTyped, StageKnows
<1>4. /\ seqn = Current.seqn /\ cmd = CommandByte(Current.cmd)
      /\ packet_databufs \in Seq(Nat) /\ Len(packet_databufs) >= n
      /\ \A i \in 1..n : packet_databufs[i] = Current.data[i]
  BY <1>1, <1>3 DEF StreamGood, StreamTyped, StageKnows, Copied
<1>5. Current.seqn = Len(handled) + 1
  BY <1>2 DEF StreamGood, InOrder, Current
<1>6. (IF cmd < Len(Command) THEN Command[cmd + 1] ELSE "none") = Current.cmd
  <2>1. cmd \in 0..4 /\ Command[cmd + 1] = Current.cmd
    BY <1>2, <1>4, SendableFacts
  <2>2. Len(Command) = 5
    BY DEF Command
  <2> QED
    BY <2>1, <2>2
<1>7. SubSeq(packet_databufs, 1, n) = Current.data
  <2>1. PICK d : d = Current.data /\ d \in Seq(Nat) /\ Len(d) = n
    BY <1>2, <1>3, SendableFacts
  <2>2. \A i \in 1..n : packet_databufs[i] = d[i] /\ d[i] \in Nat
    BY <1>4, <2>1, ElementOfSeq
  <2> DEFINE q == SubSeq(packet_databufs, 1, n)
  <2>3. q \in Seq(Nat) /\ Len(q) = (IF 1 <= n THEN n - 1 + 1 ELSE 0)
        /\ \A i \in 1..n - 1 + 1 : q[i] = packet_databufs[1 + i - 1]
    <3>1. \A i \in 1..n : packet_databufs[i] \in Nat
      BY <2>2
    <3> HIDE DEF q
    <3>2. 1 \in Int /\ n \in Int
      OBVIOUS
    <3> QED
      BY <3>1, <3>2, SubSeqProperties DEF q
  <2> HIDE DEF q
  <2>4. Len(q) = n /\ \A i \in 1..n : q[i] = d[i]
    <3>1. Len(q) = n
      BY <2>3
    <3>2. ASSUME NEW i \in 1..n PROVE q[i] = d[i]
      <4>1. i \in 1..n - 1 + 1 /\ 1 + i - 1 = i
        OBVIOUS
      <4> QED
        BY <2>2, <2>3, <4>1
    <3> QED
      BY <3>1, <3>2
  <2>5. q = d
    BY <2>1, <2>3, <2>4, SeqEqual
  <2> QED
    BY <2>1, <2>5 DEF q
<1>8. Current = [seqn |-> Current.seqn, cmd |-> Current.cmd, data |-> Current.data]
  BY <1>2, SendableFacts
<1>9. handled' = Append(handled, Current)
  <2>1. handled' = Append(handled,
          [seqn |-> seqn, cmd |-> IF cmd < Len(Command) THEN Command[cmd + 1] ELSE "none",
           data |-> SubSeq(packet_databufs, 1, data_len)])
    BY DEF completed
  <2> QED
    BY <1>3, <1>4, <1>6, <1>7, <1>8, <2>1
<1>10. UNCHANGED <<wire, recv_bufs, walker_count, sent, disturbed>>
  BY DEF completed, received
<1> QED
  BY <1>2, <1>4, <1>5, <1>6, <1>9, <1>10

LEMMA CompletedStep ==
  ASSUME NEW s, StreamGood(s), NEW callback, completed(callback)
  PROVE  StreamGood(s)'
<1>1. Parsing /\ recv_stage = "TAIL" /\ sub_offset + 1 = 3
  BY DEF completed, TagSize
<1>2. /\ Held \in Nat /\ 1 \in 0..Held /\ data_len \in Nat /\ LenSize \in Nat
      /\ Place = 5 + LenSize + data_len + sub_offset /\ sub_offset \in 0..2
      /\ data_len = Len(Current.data)
  BY <1>1, TailByte
<1>3. PICK p \in Sendable : p = Current /\ p = sent[Len(handled) + 1]
  BY CompletedIsSent DEF Current
<1>4. handled' = Append(handled, p) /\ Len(handled) < Len(sent)
      /\ UNCHANGED <<wire, recv_bufs, walker_count, sent>>
  BY <1>3, CompletedIsSent
<1>5. /\ recv_stage' = "HEAD" /\ sub_offset' = 0 /\ recv_bufs_offset' = recv_bufs_offset + 1
      /\ UNCHANGED <<data_len, packet_databufs, packet_databufs_offset>>
  BY DEF completed, Consume, packet, payload
<1>6. PICK h \in Nat : h = Len(handled)
  BY StreamFacts
<1>7. /\ handled' \in Seq(Sendable) /\ Len(handled') = h + 1
      /\ \A i \in 1..h : handled'[i] = handled[i]
      /\ handled'[h + 1] = p
  <2>1. handled \in Seq(Sendable)
    BY DEF StreamGood, StreamTyped
  <2> QED
    BY <1>4, <1>6, <2>1, AppendProperties
<1>8. PICK t \in Nat : t = Len(sent) /\ h < t
  BY <1>4, <1>6, StreamFacts
<1>9. InOrder'
  <2>1. \A m \in 1..h : handled[m] = sent[m]
    BY <1>6 DEF StreamGood, InOrder
  <2>2. ASSUME NEW m \in 1..h + 1 PROVE handled'[m] = sent[m]
    <3>1. m \in 1..h \/ m = h + 1
      OBVIOUS
    <3> QED
      BY <1>3, <1>6, <1>7, <2>1, <3>1
  <2>3. h + 1 <= t
    BY <1>8
  <2>4. \A m \in 1..Len(sent) : sent[m].seqn = m
    BY DEF StreamGood, InOrder
  <2> QED
    BY <1>4, <1>7, <1>8, <2>2, <2>3, <2>4 DEF InOrder
<1>10. StreamTyped'
  <2>1. sub_offset' \in Nat /\ recv_stage' \in Stages /\ recv_bufs_offset' <= walker_count
    BY <1>2, <1>5 DEF Stages, StreamGood, StreamTyped, Held
  <2> QED
    BY <1>4, <1>5, <1>7, <2>1 DEF StreamGood, StreamTyped
<1>11. StageKnows'
  <2>1. packet_databufs_offset = 0
    BY <1>1 DEF StreamGood, StageKnows
  <2> QED
    BY <1>5, <2>1 DEF StageKnows
<1>12. Copied'
  BY <1>5 DEF Copied
<1>13. s[Len(handled') + 1] + Place' = s[Len(handled) + 1] + Place + 1
  <2>1. Place' = 0
    BY <1>5 DEF Place
  <2>2. PICK l \in Nat : l = data_len
    BY <1>2
  <2>3. Place + 1 = 8 + LenSize + l
    <3>1. sub_offset = 2
      BY <1>1, <1>2
    <3>2. Place = 5 + LenSize + l + 2
      BY <1>2, <2>2, <3>1
    <3>3. LenSize \in Nat
      BY <1>2
    <3> QED
      BY ONLY <3>2, <3>3, l \in Nat
  <2>4. Size(p) = 8 + LenSize + l
    BY <1>2, <1>3, <2>2 DEF Size
  <2>5. h + 1 \in 1..t /\ h + 1 \in 1..t + 1 /\ (h + 1) + 1 \in 1..t + 1
    BY <1>8
  <2>6. s[(h + 1) + 1] = s[h + 1] + Size(p)
    BY <1>3, <1>6, <1>8, <2>5 DEF StreamGood, Bytes
  <2>7. PICK x \in Nat : x = s[h + 1]
    BY <1>8, <2>5 DEF StreamGood, Bytes
  <2>8. Place \in Nat /\ Size(p) \in Nat
    BY StreamFacts, EncodeFacts
  <2>9. s[Len(handled') + 1] = x + Size(p)
    BY <1>7, <2>6, <2>7
  <2>10. s[Len(handled') + 1] + Place' = x + (Place + 1)
    BY <2>1, <2>3, <2>4, <2>8, <2>9
  <2> QED
    BY <1>6, <2>7, <2>8, <2>10
<1>14. Bytes(s, s[Len(handled) + 1] + Place)'
  BY <1>2, <1>4, <1>5, <1>13, Advance
<1> QED
  BY <1>9, <1>10, <1>11, <1>12, <1>14 DEF StreamGood

\* The bytes of the packets that are to come are among the bytes to come.
LEMMA BytesIndex ==
  ASSUME NEW s, StreamGood(s), NEW a \in Nat, Bytes(s, a),
         NEW m \in 1..Len(sent), NEW j \in 1..Size(sent[m]), s[m] + j > a
  PROVE  s[m] + j - a \in 1..Held + Len(wire)
<1>1. /\ Len(sent) \in Nat /\ \A i \in 1..Len(sent) : sent[i] \in Sendable
  BY StreamFacts
<1>2. /\ \A i \in 1..Len(sent) + 1 : s[i] \in Nat /\ s[i] <= s[Len(sent) + 1]
      /\ \A i \in 1..Len(sent) : s[i + 1] = s[i] + Size(sent[i])
      /\ Held + Len(wire) = s[Len(sent) + 1] - a
  BY DEF Bytes
<1>3. m \in 1..Len(sent) + 1 /\ m + 1 \in 1..Len(sent) + 1 /\ Len(sent) + 1 \in 1..Len(sent) + 1
  BY <1>1
<1>4. PICK x \in Nat, z \in Nat, c \in Nat :
        x = s[m] /\ z = Size(sent[m]) /\ c = s[Len(sent) + 1] /\ x + z <= c
  <2>1. s[m] \in Nat /\ s[m + 1] <= s[Len(sent) + 1] /\ s[Len(sent) + 1] \in Nat
    BY <1>2, <1>3
  <2>2. Size(sent[m]) \in Nat
    BY <1>1, EncodeFacts
  <2> QED
    BY <1>2, <2>1, <2>2
<1>5. x + j - a \in 1..c - a
  <2>1. j \in 1..z /\ x + j > a /\ x + z <= c
    BY <1>4
  <2> QED
    BY ONLY <2>1, x \in Nat, z \in Nat, c \in Nat, a \in Nat
<1> QED
  BY <1>2, <1>4, <1>5

\* Receiving moves bytes from the wire to the buffer: the bytes to come stay.
LEMMA BytesMoved ==
  ASSUME NEW s, StreamGood(s), NEW a \in Nat, Bytes(s, a), sent' = sent,
         Held' + Len(wire') = Held + Len(wire),
         \A i \in 1..Held + Len(wire) : Ahead(i)' = Ahead(i)
  PROVE  Bytes(s, a)'
<1>1. /\ Len(sent) \in Nat /\ Len(wire) \in Nat /\ Held \in Nat
      /\ \A m \in 1..Len(sent) : sent[m] \in Sendable
  BY StreamFacts
<1>2. /\ \A m \in 1..Len(sent) + 1 : s[m] \in Nat /\ s[m] <= s[Len(sent) + 1]
      /\ \A m \in 1..Len(sent) : s[m + 1] = s[m] + Size(sent[m])
      /\ Held + Len(wire) = s[Len(sent) + 1] - a
      /\ \A m \in 1..Len(sent) : \A j \in 1..Size(sent[m]) :
           s[m] + j > a => Ahead(s[m] + j - a) = Code(sent[m], j)
  BY DEF Bytes
<1>3. ASSUME NEW m \in 1..Len(sent), NEW j \in 1..Size(sent[m]), s[m] + j > a
      PROVE  Ahead(s[m] + j - a)' = Code(sent[m], j)
  <2>4. s[m] + j - a \in 1..Held + Len(wire)
    BY <1>3, BytesIndex
  <2>5. Ahead(s[m] + j - a) = Code(sent[m], j)
    BY <1>2, <1>3
  <2>6. PICK i : i = s[m] + j - a
    OBVIOUS
  <2>7. Ahead(i)' = Ahead(i)
    BY <2>4, <2>6
  <2> QED
    BY <2>5, <2>6, <2>7
<1>4. \A m \in 1..Len(sent) : \A j \in 1..Size(sent[m]) :
        s[m] + j > a => Ahead(s[m] + j - a)' = Code(sent[m], j)
  BY <1>3
<1>5. Held' + Len(wire') = s[Len(sent) + 1] - a
  BY <1>2
<1>6. Bytes(s, a)' <=>
        /\ \A m \in 1..Len(sent') + 1 : s[m] \in Nat /\ s[m] <= s[Len(sent') + 1]
        /\ \A m \in 1..Len(sent') : s[m + 1] = s[m] + Size(sent'[m])
        /\ Held' + Len(wire') = s[Len(sent') + 1] - a
        /\ \A m \in 1..Len(sent') : \A j \in 1..Size(sent'[m]) :
             s[m] + j > a => Ahead(s[m] + j - a)' = Code(sent'[m], j)
  BY DEF Bytes, Size, Code
<1> QED
  BY <1>2, <1>4, <1>5, <1>6

\* The steps of ipc_conn_proc.
LEMMA Received ==
  ASSUME NEW s, StreamGood(s),
         Held' + Len(wire') = Held + Len(wire),
         \A i \in 1..Held + Len(wire) : Ahead(i)' = Ahead(i),
         UNCHANGED <<recv_stage, sub_offset, packet, payload, sent, handled>>,
         wire' \in Seq(Nat), recv_bufs' \in [0..recv_bufs_size - 1 -> Nat],
         recv_bufs_offset' \in Nat, walker_count' \in Nat,
         recv_bufs_offset' <= walker_count', walker_count' <= recv_bufs_size
  PROVE  StreamGood(s)'
<1>1. UNCHANGED <<recv_stage, sub_offset, seqn, cmd, data_len, packet_databufs,
                  packet_databufs_offset, sent, handled>>
  BY DEF packet, payload
<1>2. PICK a \in Nat : a = s[Len(handled) + 1] + Place
  BY StreamFacts
<1>3. Bytes(s, a)
  BY <1>2 DEF StreamGood
<1>4. Bytes(s, a)'
  BY <1>1, <1>3, BytesMoved
<1>5. s[Len(handled') + 1] + Place' = a
  BY <1>1, <1>2 DEF Place
<1>6. Bytes(s, s[Len(handled) + 1] + Place)'
  BY <1>4, <1>5 DEF Bytes
<1>7. StreamTyped' /\ InOrder'
  BY <1>1 DEF StreamGood, StreamTyped, InOrder
<1>8. Current' = Current /\ CommandByte(Current.cmd)' = CommandByte(Current.cmd) /\ Weight' = Weight
  BY <1>1 DEF Current, CommandByte, Weight
<1>9. StageKnows'
  BY <1>1, <1>8 DEF StreamGood, StageKnows
<1>10. Copied'
  BY <1>1, <1>8 DEF StreamGood, Copied
<1> QED
  BY <1>6, <1>7, <1>9, <1>10 DEF StreamGood

LEMMA NothingHeld ==
  ASSUME NEW s, StreamGood(s), Receiving
  PROVE  /\ Held = 0 /\ Start \in 0..recv_bufs_size - 1
         /\ recv_bufs_size \in Nat \ {0} /\ Len(wire) \in Nat
         /\ \A i \in Nat \ {0} : Ahead(i) = wire[i]
<1>1. Held = 0 /\ Start \in 0..recv_bufs_size - 1 /\ recv_bufs_size \in Nat \ {0}
  BY StreamAssumption DEF StreamGood, StreamTyped, Receiving, Parsing, Held, Start
<1>2. ASSUME NEW i \in Nat \ {0} PROVE Ahead(i) = wire[i]
  BY <1>1 DEF Ahead
<1> QED
  BY <1>1, <1>2, StreamFacts

LEMMA RecvStep ==
  ASSUME NEW s, StreamGood(s), NEW n, recv(n)
  PROVE  StreamGood(s)'
<1>1. PICK b \in Nat : b = Start /\ b \in 0..recv_bufs_size - 1
  BY NothingHeld DEF recv
<1>2. PICK w \in Nat : w = Len(wire)
  BY NothingHeld DEF recv
<1>3. Held = 0 /\ recv_bufs_size \in Nat \ {0} /\ \A i \in Nat \ {0} : Ahead(i) = wire[i]
  BY NothingHeld DEF recv
<1>4. n \in Nat /\ n \in 1..w /\ n <= recv_bufs_size - b
  BY <1>1, <1>2 DEF recv
<1>5. /\ recv_bufs' = [i \in 0..recv_bufs_size - 1 |->
                         IF i \in b..b + n - 1 THEN wire[i - b + 1] ELSE recv_bufs[i]]
      /\ recv_bufs_offset' = b /\ walker_count' = b + n
      /\ wire' = SubSeq(wire, n + 1, w)
      /\ UNCHANGED <<recv_stage, sub_offset, packet, payload, sent, handled>>
  BY <1>1, <1>2 DEF recv, ends
<1>6. wire \in Seq(Nat) /\ \A i \in 1..w : wire[i] \in Nat
  BY <1>2, ElementOfSeq DEF StreamGood, StreamTyped
<1>7. /\ wire' \in Seq(Nat) /\ Len(wire') = w - n
      /\ \A i \in 1..w - n : wire'[i] = wire[n + i]
  <2>1. n + 1 \in Int /\ w \in Int /\ \A i \in n + 1..w : wire[i] \in Nat
    BY <1>4, <1>6
  <2>2. PICK m \in Int : m = n + 1
    BY <1>4
  <2>3. /\ SubSeq(wire, m, w) \in Seq(Nat)
        /\ Len(SubSeq(wire, m, w)) = IF m <= w THEN w - m + 1 ELSE 0
        /\ \A i \in 1..w - m + 1 : SubSeq(wire, m, w)[i] = wire[m + i - 1]
    BY <2>1, <2>2, SubSeqProperties
  <2>4. wire' = SubSeq(wire, m, w)
    BY <1>5, <2>2
  <2>5. Len(wire') = w - n
    BY <1>4, <2>2, <2>3, <2>4
  <2>6. ASSUME NEW i \in 1..w - n PROVE wire'[i] = wire[n + i]
    <3>1. i \in 1..w - m + 1 /\ m + i - 1 = n + i
      BY <1>4, <2>2
    <3> QED
      BY <2>3, <2>4, <3>1
  <2> QED
    BY <2>3, <2>4, <2>5, <2>6
<1>8. recv_bufs' \in [0..recv_bufs_size - 1 -> Nat]
  <2>1. ASSUME NEW i \in 0..recv_bufs_size - 1
        PROVE  (IF i \in b..b + n - 1 THEN wire[i - b + 1] ELSE recv_bufs[i]) \in Nat
    <3>1. i \in b..b + n - 1 => i - b + 1 \in 1..w
      BY <1>4
    <3>2. recv_bufs[i] \in Nat
      BY DEF StreamGood, StreamTyped
    <3> QED
      BY <1>6, <3>1, <3>2
  <2> QED
    BY <1>5, <2>1
<1>9. Held' = n
  BY <1>4, <1>5 DEF Held
<1>10. Held' + Len(wire') = Held + Len(wire)
  BY <1>2, <1>3, <1>4, <1>7, <1>9
<1>11. ASSUME NEW i \in 1..Held + Len(wire) PROVE Ahead(i)' = Ahead(i)
  <2>1. i \in Nat \ {0} /\ i \in 1..w
    BY <1>2, <1>3
  <2>2. Ahead(i)' = IF i <= Held' THEN recv_bufs'[recv_bufs_offset' + i - 1] ELSE wire'[i - Held']
    BY DEF Ahead
  <2>3. CASE i <= n
    <3>1. b + i - 1 \in 0..recv_bufs_size - 1 /\ b + i - 1 \in b..b + n - 1
          /\ (b + i - 1) - b + 1 = i
      BY <1>1, <1>3, <1>4, <2>1, <2>3
    <3>2. recv_bufs'[b + i - 1] = wire[i]
      BY <1>5, <3>1
    <3> QED
      BY <1>3, <1>5, <1>9, <2>1, <2>2, <2>3, <3>2
  <2>4. CASE ~(i <= n)
    <3>1. i - n \in 1..w - n /\ n + (i - n) = i
      BY <1>4, <2>1, <2>4
    <3>2. wire'[i - n] = wire[i]
      BY <1>7, <3>1
    <3> QED
      BY <1>3, <1>9, <2>1, <2>2, <2>4, <3>2
  <2> QED
    BY <2>3, <2>4
<1>12. recv_bufs_offset' \in Nat /\ walker_count' \in Nat
       /\ recv_bufs_offset' <= walker_count' /\ walker_count' <= recv_bufs_size
  BY <1>3, <1>4, <1>5
<1> QED
  BY <1>5, <1>7, <1>8, <1>10, <1>11, <1>12, Received

\* Nothing is received.
LEMMA NothingStep ==
  ASSUME NEW s, StreamGood(s), disconnected \/ \E st : recv_fails(st)
  PROVE  StreamGood(s)'
<1>1. Receiving /\ recv_bufs_offset' = Start /\ walker_count' = Start
      /\ UNCHANGED <<wire, recv_bufs, recv_stage, sub_offset, packet, payload, sent, handled>>
  BY DEF disconnected, recv_fails, ends
<1>2. /\ Held = 0 /\ Start \in 0..recv_bufs_size - 1
      /\ recv_bufs_size \in Nat \ {0} /\ Len(wire) \in Nat
      /\ \A i \in Nat \ {0} : Ahead(i) = wire[i]
  BY <1>1, NothingHeld
<1>3. PICK b \in Nat : b = Start /\ b <= recv_bufs_size
  BY <1>2
<1>4. Held' = 0
  BY <1>1, <1>3 DEF Held
<1>5. ASSUME NEW i \in 1..Held + Len(wire) PROVE Ahead(i)' = Ahead(i)
  <2>1. i \in Nat \ {0}
    BY <1>2
  <2>2. Ahead(i)' = IF i <= Held' THEN recv_bufs'[recv_bufs_offset' + i - 1] ELSE wire'[i - Held']
    BY DEF Ahead
  <2>3. ~(i <= 0) /\ i - 0 = i
    BY <2>1
  <2> QED
    BY <1>1, <1>2, <1>4, <2>1, <2>2, <2>3
<1>6. Held' + Len(wire') = Held + Len(wire)
  BY <1>1, <1>2, <1>4
<1>7. /\ recv_bufs_offset' \in Nat /\ walker_count' \in Nat
      /\ recv_bufs_offset' <= walker_count' /\ walker_count' <= recv_bufs_size
  BY <1>1, <1>3
<1>8. wire' \in Seq(Nat) /\ recv_bufs' \in [0..recv_bufs_size - 1 -> Nat]
  BY <1>1 DEF StreamGood, StreamTyped
<1> QED
  BY <1>1, <1>5, <1>6, <1>7, <1>8, Received

\* The bytes of a packet that is sent come after those to come.
LEMMA BytesSent ==
  ASSUME NEW s, StreamGood(s), NEW a \in Nat, Bytes(s, a), NEW p \in Sendable, NEW r,
         sent' = Append(sent, p), wire' = wire \o Encode(p),
         UNCHANGED <<recv_bufs, recv_bufs_offset, walker_count>>,
         r = [m \in 1..Len(sent) + 2 |->
                IF m <= Len(sent) + 1 THEN s[m] ELSE s[Len(sent) + 1] + Size(p)]
  PROVE  Bytes(r, a)'
<1>1. PICK t \in Nat, w \in Nat, h \in Nat : t = Len(sent) /\ w = Len(wire) /\ h = Held
  BY StreamFacts
<1>2. PICK z \in Nat : z = Size(p) /\ Encode(p) \in Seq(Nat) /\ Len(Encode(p)) = z
                       /\ \A j \in 1..z : Encode(p)[j] = Code(p, j)
  BY EncodeFacts
<1>3. /\ Len(sent') = t + 1 /\ sent'[t + 1] = p /\ \A m \in 1..t : sent'[m] = sent[m]
  <2>1. sent \in Seq(Sendable)
    BY DEF StreamGood, StreamTyped
  <2> QED
    BY <1>1, <2>1, AppendProperties
<1>4. Joined(wire', wire, Encode(p), w, z)
  <2>1. wire \in Seq(Nat)
    BY DEF StreamGood, StreamTyped
  <2> QED
    BY <1>1, <1>2, <2>1, ConcatJoined
<1>5. /\ \A m \in 1..t + 1 : s[m] \in Nat /\ s[m] <= s[t + 1]
      /\ \A m \in 1..t : s[m + 1] = s[m] + Size(sent[m])
      /\ h + w = s[t + 1] - a
      /\ \A m \in 1..t : \A j \in 1..Size(sent[m]) :
           s[m] + j > a => Ahead(s[m] + j - a) = Code(sent[m], j)
  BY <1>1 DEF Bytes
<1>6. PICK e \in Nat : e = s[t + 1]
  BY <1>5
<1>7. \A m \in 1..t + 2 : r[m] = IF m <= t + 1 THEN s[m] ELSE e + z
  BY <1>1, <1>2, <1>6
<1>8. Held' = h /\ Len(wire') = w + z
  BY <1>1, <1>4 DEF Held, Joined
<1>9. r[t + 2] = e + z /\ \A m \in 1..t + 1 : r[m] = s[m]
  <2>1. t + 2 \in 1..t + 2 /\ ~(t + 2 <= t + 1)
    OBVIOUS
  <2>2. ASSUME NEW m \in 1..t + 1 PROVE r[m] = s[m]
    <3>1. m \in 1..t + 2 /\ m <= t + 1
      OBVIOUS
    <3> QED
      BY <1>7, <3>1
  <2> QED
    BY <1>7, <2>1, <2>2
<1>10. ASSUME NEW m \in 1..t + 2 PROVE r[m] \in Nat /\ r[m] <= e + z
  <2>1. CASE m = t + 2
    BY <1>9, <2>1
  <2>2. CASE m # t + 2
    <3>1. m \in 1..t + 1
      BY <2>2
    <3>2. s[m] \in Nat /\ s[m] <= e
      BY <1>5, <1>6, <3>1
    <3>3. s[m] <= e + z
      BY <3>2
    <3> QED
      BY <1>9, <3>1, <3>2, <3>3
  <2> QED
    BY <2>1, <2>2
<1>11. ASSUME NEW m \in 1..t + 1 PROVE r[m + 1] = r[m] + Size(sent'[m])
  <2>1. CASE m = t + 1
    <3>1. m + 1 = t + 2 /\ t + 1 \in 1..t + 1
      BY <2>1
    <3>2. r[m + 1] = e + z /\ r[m] = e /\ sent'[m] = p
      BY <1>3, <1>6, <1>9, <2>1, <3>1
    <3> QED
      BY <1>2, <3>2
  <2>2. CASE m # t + 1
    <3>1. m \in 1..t /\ m + 1 \in 1..t + 1
      BY <2>2
    <3>2. r[m + 1] = s[m + 1] /\ r[m] = s[m] /\ sent'[m] = sent[m]
      BY <1>3, <1>9, <3>1
    <3> QED
      BY <1>5, <3>1, <3>2
  <2> QED
    BY <2>1, <2>2
<1>12. h + (w + z) = (e + z) - a
  <2>1. h + w = e - a
    BY <1>5, <1>6
  <2> QED
    BY <2>1
<1>13. ASSUME NEW i \in 1..h + w PROVE Ahead(i)' = Ahead(i)
  <2>1. Ahead(i)' = IF i <= h THEN recv_bufs[recv_bufs_offset + i - 1] ELSE wire'[i - h]
    BY <1>8 DEF Ahead
  <2>2. Ahead(i) = IF i <= h THEN recv_bufs[recv_bufs_offset + i - 1] ELSE wire[i - h]
    BY <1>1 DEF Ahead
  <2>3. ~(i <= h) => i - h \in 1..w + z /\ i - h <= w
    OBVIOUS
  <2>4. ~(i <= h) => wire'[i - h] = wire[i - h]
    BY <1>4, <2>3 DEF Joined
  <2> QED
    BY <2>1, <2>2, <2>4
<1>14. ASSUME NEW j \in 1..z PROVE Ahead(h + w + j)' = Code(p, j)
  <2>1. PICK i \in Nat : i = h + w + j
    OBVIOUS
  <2>2. ~(i <= h) /\ i - h \in 1..w + z /\ ~(i - h <= w) /\ (i - h) - w = j
    BY <2>1
  <2>3. Ahead(i)' = IF i <= h THEN recv_bufs[recv_bufs_offset + i - 1] ELSE wire'[i - h]
    BY <1>8 DEF Ahead
  <2>4. wire'[i - h] = Encode(p)[(i - h) - w]
    BY <1>4, <2>2 DEF Joined
  <2>5. Ahead(i)' = Encode(p)[j]
    BY <2>2, <2>3, <2>4
  <2>6. Ahead(i)' = Code(p, j)
    BY <1>2, <2>5
  <2> QED
    BY <2>1, <2>6
<1>15. ASSUME NEW m \in 1..t + 1, NEW j \in 1..Size(sent'[m]), r[m] + j > a
       PROVE  Ahead(r[m] + j - a)' = Code(sent'[m], j)
  <2>1. CASE m = t + 1
    <3>1. t + 1 \in 1..t + 1
      OBVIOUS
    <3>2. r[m] = e /\ sent'[m] = p
      BY <1>3, <1>6, <1>9, <2>1, <3>1
    <3>3. j \in 1..z
      BY <1>2, <3>2
    <3>4. r[m] + j - a = h + w + j
      <4>1. e + j - a = h + w + j
        <5>1. h + w = e - a
          BY <1>5, <1>6
        <5> QED
          BY <3>3, <5>1
      <4> QED
        BY <3>2, <4>1
    <3>5. Ahead(h + w + j)' = Code(p, j)
      BY <1>14, <3>3
    <3> QED
      BY <3>2, <3>4, <3>5
  <2>2. CASE m # t + 1
    <3>1. m \in 1..t /\ m \in 1..Len(sent)
      BY <1>1, <2>2
    <3>2. r[m] = s[m] /\ sent'[m] = sent[m]
      BY <1>3, <1>9, <3>1
    <3>3. j \in 1..Size(sent[m]) /\ s[m] + j > a
      BY <1>15, <3>2
    <3>4. s[m] + j - a \in 1..h + w
      BY <1>1, <3>1, <3>3, BytesIndex
    <3>5. Ahead(s[m] + j - a) = Code(sent[m], j)
      BY <1>5, <3>1, <3>3
    <3>6. PICK i : i = s[m] + j - a
      OBVIOUS
    <3>7. Ahead(i)' = Code(sent[m], j)
      BY <1>13, <3>4, <3>5, <3>6
    <3> QED
      BY <3>2, <3>6, <3>7
  <2> QED
    BY <2>1, <2>2
<1>16. Bytes(r, a)' <=>
         /\ \A m \in 1..Len(sent') + 1 : r[m] \in Nat /\ r[m] <= r[Len(sent') + 1]
         /\ \A m \in 1..Len(sent') : r[m + 1] = r[m] + Size(sent'[m])
         /\ Held' + Len(wire') = r[Len(sent') + 1] - a
         /\ \A m \in 1..Len(sent') : \A j \in 1..Size(sent'[m]) :
              r[m] + j > a => Ahead(r[m] + j - a)' = Code(sent'[m], j)
  BY DEF Bytes, Size, Code
<1>17. Len(sent') + 1 = t + 2
  BY <1>3
<1>18. Held' + Len(wire') = r[t + 2] - a
  BY <1>8, <1>9, <1>12
<1>19. /\ \A m \in 1..t + 2 : r[m] \in Nat /\ r[m] <= r[t + 2]
       /\ \A m \in 1..t + 1 : r[m + 1] = r[m] + Size(sent'[m])
       /\ \A m \in 1..t + 1 : \A j \in 1..Size(sent'[m]) :
            r[m] + j > a => Ahead(r[m] + j - a)' = Code(sent'[m], j)
  BY <1>9, <1>10, <1>11, <1>15
<1> QED
  BY <1>3, <1>16, <1>17, <1>18, <1>19

LEMMA SendStep ==
  ASSUME NEW s, StreamGood(s), NEW c \in Commands, NEW l \in Lengths, send(c, l)
  PROVE  \E r : StreamGood(r)'
<1>1. PICK t \in Nat, h \in Nat : t = Len(sent) /\ h = Len(handled) /\ h <= t
  BY StreamFacts DEF StreamGood, InOrder
<1>2. PICK p \in Sendable : p = Packet(t + 1, c, l) /\ p.seqn = t + 1
  <2>1. Packet(t + 1, c, l) \in Sendable
    BY DEF Sendable
  <2>2. Packet(t + 1, c, l).seqn = t + 1
    BY DEF Packet
  <2> QED
    BY <2>1, <2>2
<1>3. /\ sent' = Append(sent, p) /\ wire' = wire \o Encode(p)
      /\ UNCHANGED <<recv_bufs, walker_count, recv_bufs_offset, recv_stage, sub_offset, seqn, cmd,
                     data_len, packet_databufs, packet_databufs_offset, handled>>
  BY <1>1, <1>2 DEF send, received, packet, payload
<1>4. PICK r : r = [m \in 1..Len(sent) + 2 |->
                      IF m <= Len(sent) + 1 THEN s[m] ELSE s[Len(sent) + 1] + Size(p)]
  OBVIOUS
<1>5. PICK a \in Nat : a = s[h + 1] + Place
  BY <1>1, StreamFacts
<1>6. Bytes(s, a)
  BY <1>1, <1>5 DEF StreamGood
<1>7. Bytes(r, a)'
  BY <1>3, <1>4, <1>6, BytesSent
<1>8. r[Len(handled') + 1] + Place' = a
  <2>1. r[h + 1] = s[h + 1]
    <3>1. h + 1 \in 1..t + 2 /\ h + 1 <= t + 1
      BY <1>1
    <3> QED
      BY <1>1, <1>4, <3>1
  <2>2. Place' = Place
    BY <1>3 DEF Place
  <2> QED
    BY <1>1, <1>3, <1>5, <2>1, <2>2
<1>9. Bytes(r, r[Len(handled) + 1] + Place)'
  BY <1>7, <1>8 DEF Bytes
<1>10. /\ sent' \in Seq(Sendable) /\ Len(sent') = t + 1 /\ sent'[t + 1] = p
       /\ \A m \in 1..t : sent'[m] = sent[m]
  <2>1. sent \in Seq(Sendable)
    BY DEF StreamGood, StreamTyped
  <2> QED
    BY <1>1, <1>3, <2>1, AppendProperties
<1>11. wire' \in Seq(Nat)
  <2>1. Encode(p) \in Seq(Nat) /\ wire \in Seq(Nat)
    BY EncodeFacts DEF StreamGood, StreamTyped
  <2> QED
    BY <1>3, <2>1, ConcatProperties
<1>12. StreamTyped'
  BY <1>3, <1>10, <1>11 DEF StreamGood, StreamTyped
<1>13. InOrder'
  <2>1. /\ \A m \in 1..h : handled[m] = sent[m]
        /\ \A m \in 1..t : sent[m].seqn = m
    BY <1>1 DEF StreamGood, InOrder
  <2>2. ASSUME NEW m \in 1..h PROVE handled[m] = sent'[m]
    BY <1>1, <1>10, <2>1
  <2>3. ASSUME NEW m \in 1..t + 1 PROVE sent'[m].seqn = m
    <3>1. m \in 1..t \/ m = t + 1
      OBVIOUS
    <3> QED
      BY <1>2, <1>10, <2>1, <3>1
  <2>4. h <= t + 1
    BY <1>1
  <2> QED
    BY <1>1, <1>3, <1>10, <2>2, <2>3, <2>4 DEF InOrder
<1>14. StageKnows' /\ Copied'
  <2>1. CASE h < t
    <3>1. h + 1 \in 1..t
      BY <2>1
    <3>2. Current' = Current
      BY <1>1, <1>3, <1>10, <3>1 DEF Current
    <3>3. CommandByte(Current.cmd)' = CommandByte(Current.cmd) /\ Weight' = Weight
      BY <3>2 DEF CommandByte, Weight
    <3>4. Len(handled') < Len(sent')
      BY <1>1, <1>3, <1>10, <2>1
    <3>5. StageKnows'
      BY <1>3, <3>2, <3>3, <3>4 DEF StreamGood, StageKnows
    <3> QED
      BY <1>3, <3>2, <3>5 DEF StreamGood, Copied
  <2>2. CASE ~(h < t)
    <3>1. recv_stage = "HEAD" /\ sub_offset = 0 /\ packet_databufs_offset = 0
      <4>1. ~(Len(handled) < Len(sent))
        BY <1>1, <2>2
      <4> QED
        BY <4>1 DEF StreamGood, StageKnows, StreamTyped
    <3> QED
      BY <1>3, <3>1 DEF StageKnows, Copied
  <2> QED
    BY <2>1, <2>2
<1>15. StreamGood(r)'
  BY <1>9, <1>12, <1>13, <1>14 DEF StreamGood
<1> QED
  BY <1>15

LEMMA StreamStarts == ASSUME Init PROVE \E s : StreamGood(s)
<1>1. PICK s : s = [m \in 1..1 |-> 0]
  OBVIOUS
<1>2. Len(sent) = 0 /\ Len(handled) = 0 /\ Len(wire) = 0 /\ Place = 0 /\ Held = 0
  BY DEF Init, Place, Held
<1>3. s[1] = 0
  BY <1>1
<1>4. StreamTyped
  BY StreamAssumption DEF Init, StreamTyped, Stages, Absent
<1>5. InOrder /\ StageKnows /\ Copied
  BY <1>2 DEF Init, InOrder, StageKnows, Copied
<1>6. Bytes(s, s[Len(handled) + 1] + Place)
  <2>1. Len(sent) + 1 = 1 /\ s[Len(handled) + 1] + Place = 0
    BY <1>2, <1>3
  <2>2. Bytes(s, 0)
    <3>1. \A m \in 1..Len(sent) + 1 : s[m] \in Nat /\ s[m] <= s[Len(sent) + 1]
      BY <1>3, <2>1
    <3>2. 1..Len(sent) = {}
      BY <1>2
    <3>3. Held + Len(wire) = s[Len(sent) + 1] - 0
      BY <1>2, <1>3, <2>1
    <3> QED
      BY <3>1, <3>2, <3>3 DEF Bytes
  <2> QED
    BY <2>1, <2>2
<1>7. StreamGood(s)
  BY <1>4, <1>5, <1>6 DEF StreamGood
<1> QED
  BY <1>7

----------------------------------------------------------------------------
(* The replies.                                                            *)

\* A reply carries the number of the packet it answers.
Replied(i) ==
  /\ replies[i][2] \in 1..Len(handled)
  /\ replies[i][1] = IF sent[replies[i][2]].cmd = "REQUEST" THEN "RESPONSE" ELSE "ACK"
  /\ sent[replies[i][2]].cmd \in {"HEARTBEAT", "REQUEST", "RESPONSE"}

RepliesGood ==
  /\ replies \in Seq({"ACK", "RESPONSE"} \X Nat)
  /\ \A i \in 1..Len(replies) : Replied(i)
  /\ \A i, j \in 1..Len(replies) : i < j => replies[i][2] < replies[j][2]
  /\ \A k \in 1..Len(handled) :
       handled[k].cmd = "HEARTBEAT" => \E i \in 1..Len(replies) : replies[i] = <<"ACK", k>>

LEMMA SetToSeqOne == ASSUME NEW x PROVE SetToSeq({x}) = <<x>>
<1>1. Cardinality({x}) = 1
  BY FS_Singleton
<1>2. PICK f : f = <<x>> /\ f \in [1..1 -> {x}]
  <2>1. <<x>> \in Seq({x}) /\ Len(<<x>>) = 1
    OBVIOUS
  <2>2. <<x>> \in [1..1 -> {x}]
    BY <2>1, LenProperties
  <2> QED
    BY <2>2
<1>3. IsInjective(f)
  BY <1>2 DEF IsInjective
<1>4. ASSUME NEW g \in [1..1 -> {x}] PROVE g = f
  <2>1. g[1] = x /\ f[1] = x
    BY <1>2
  <2> QED
    BY <1>2, <2>1
<1> QED
  BY <1>1, <1>2, <1>3, <1>4 DEF SetToSeq

LEMMA SetToSeqNone == SetToSeq({}) = <<>>
<1>1. Cardinality({}) = 0
  BY FS_EmptySet
<1>2. PICK f : f = <<>> /\ f \in [1..0 -> {}]
  <2>1. <<>> \in Seq({}) /\ Len(<<>>) = 0
    OBVIOUS
  <2>2. <<>> \in [1..0 -> {}]
    BY <2>1, LenProperties
  <2> QED
    BY <2>2
<1>3. IsInjective(f)
  BY <1>2 DEF IsInjective
<1>4. ASSUME NEW g \in [1..0 -> {}] PROVE g = f
  BY <1>2
<1> QED
  BY <1>1, <1>2, <1>3, <1>4 DEF SetToSeq

\* What a completed packet of a peer is answered with.
LEMMA RepliesSent ==
  ASSUME NEW s, StreamGood(s), RepliesGood, NEW callback \in BOOLEAN, completed(callback)
  PROVE  \/ replies' = replies /\ Current.cmd # "HEARTBEAT"
         \/ /\ replies' = Append(replies, <<IF Current.cmd = "REQUEST" THEN "RESPONSE" ELSE "ACK",
                                            Len(handled) + 1>>)
            /\ Current.cmd \in {"HEARTBEAT", "REQUEST", "RESPONSE"}
<1> DEFINE c == IF cmd < Len(Command) THEN Command[cmd + 1] ELSE "none"
<1>1. c = Current.cmd /\ seqn = Len(handled) + 1
  BY CompletedIsSent
<1>2. replies' = IF callback \/ c = "HEARTBEAT" THEN replies \o SetToSeq(Reply(c)) ELSE replies
  BY DEF completed
<1>3. replies \in Seq({"ACK", "RESPONSE"} \X Nat)
  BY DEF RepliesGood
<1> HIDE DEF c
<1>4. CASE ~(callback \/ c = "HEARTBEAT")
  BY <1>1, <1>2, <1>4
<1>5. CASE callback \/ c = "HEARTBEAT"
  <2>1. CASE c \in {"HEARTBEAT", "REQUEST", "RESPONSE"}
    <3>1. PICK x : x = <<IF c = "REQUEST" THEN "RESPONSE" ELSE "ACK", seqn>>
      OBVIOUS
    <3>2. Reply(c) = {x}
      BY <2>1, <3>1 DEF Reply
    <3>3. replies' = replies \o <<x>>
      BY <1>2, <1>5, <3>2, SetToSeqOne
    <3>4. replies \o <<x>> = Append(replies, x)
      <4>1. seqn \in Nat
        <5>1. Len(handled) \in Nat
          BY StreamFacts
        <5> QED
          BY <1>1, <5>1
      <4>2. x \in {"ACK", "RESPONSE"} \X Nat
        BY <3>1, <4>1
      <4> QED
        BY <1>3, <4>2, AppendIsConcat
    <3> QED
      BY <1>1, <2>1, <3>1, <3>3, <3>4
  <2>2. CASE c \notin {"HEARTBEAT", "REQUEST", "RESPONSE"}
    <3>1. Reply(c) = {}
      BY <2>2 DEF Reply
    <3>2. replies' = replies \o <<>>
      BY <1>2, <1>5, <3>1, SetToSeqNone
    <3>3. replies' = replies
      BY <1>3, <3>2, ConcatEmptySeq
    <3> QED
      BY <1>1, <2>2, <3>3
  <2> QED
    BY <2>1, <2>2
<1> QED
  BY <1>4, <1>5

LEMMA RepliesStep ==
  ASSUME NEW s, StreamGood(s), RepliesGood, NEW callback \in BOOLEAN, completed(callback)
  PROVE  RepliesGood'
<1>1. PICK h \in Nat : h = Len(handled)
  BY StreamFacts
<1>2. PICK p \in Sendable : p = Current /\ p = sent[h + 1]
  BY <1>1, CompletedIsSent DEF Current
<1>3. handled' = Append(handled, p) /\ sent' = sent
  BY <1>2, CompletedIsSent
<1>4. Len(handled') = h + 1 /\ handled'[h + 1] = p /\ \A k \in 1..h : handled'[k] = handled[k]
  <2>1. handled \in Seq(Sendable)
    BY DEF StreamGood, StreamTyped
  <2> QED
    BY <1>1, <1>3, <2>1, AppendProperties
<1>5. PICK n \in Nat : n = Len(replies)
  BY LenProperties DEF RepliesGood
<1>6. /\ \A i \in 1..n : Replied(i)
      /\ \A i, j \in 1..n : i < j => replies[i][2] < replies[j][2]
      /\ \A k \in 1..h : handled[k].cmd = "HEARTBEAT" => \E i \in 1..n : replies[i] = <<"ACK", k>>
      /\ replies \in Seq({"ACK", "RESPONSE"} \X Nat)
  BY <1>1, <1>5 DEF RepliesGood
<1>7. ASSUME NEW i \in 1..n, replies'[i] = replies[i] PROVE Replied(i)'
  <2>1. Replied(i)
    BY <1>6
  <2>2. replies[i][2] \in 1..h + 1
    BY <1>1, <2>1 DEF Replied
  <2> QED
    BY <1>3, <1>4, <1>7, <2>1, <2>2 DEF Replied
<1>8. CASE replies' = replies /\ p.cmd # "HEARTBEAT"
  <2>1. \A i \in 1..n : Replied(i)'
    BY <1>7, <1>8
  <2>2. ASSUME NEW k \in 1..h + 1, handled'[k].cmd = "HEARTBEAT"
        PROVE  \E i \in 1..n : replies[i] = <<"ACK", k>>
    <3>1. k \in 1..h \/ k = h + 1
      OBVIOUS
    <3> QED
      BY <1>4, <1>6, <1>8, <2>2, <3>1
  <2> QED
    BY <1>4, <1>5, <1>6, <1>8, <2>1, <2>2 DEF RepliesGood
<1>9. ASSUME NEW x, x = <<IF p.cmd = "REQUEST" THEN "RESPONSE" ELSE "ACK", h + 1>>,
             replies' = Append(replies, x), p.cmd \in {"HEARTBEAT", "REQUEST", "RESPONSE"}
      PROVE  RepliesGood'
  <2>1. x \in {"ACK", "RESPONSE"} \X Nat /\ x[2] = h + 1
        /\ x[1] = IF p.cmd = "REQUEST" THEN "RESPONSE" ELSE "ACK"
    BY <1>9
  <2>2. /\ replies' \in Seq({"ACK", "RESPONSE"} \X Nat) /\ Len(replies') = n + 1
        /\ \A i \in 1..n : replies'[i] = replies[i]
        /\ replies'[n + 1] = x
    BY <1>5, <1>6, <1>9, <2>1, AppendProperties
  <2>3. ASSUME NEW i \in 1..n + 1 PROVE Replied(i)'
    <3>1. CASE i = n + 1
      <4>1. h + 1 \in 1..h + 1 /\ sent'[h + 1] = p /\ replies'[i] = x
        BY <1>2, <1>3, <2>2, <3>1
      <4> QED
        BY <1>4, <1>9, <2>1, <4>1 DEF Replied
    <3>2. CASE i # n + 1
      <4>1. i \in 1..n
        BY <3>2
      <4> QED
        BY <1>7, <2>2, <4>1
    <3> QED
      BY <3>1, <3>2
  <2>4. ASSUME NEW i \in 1..n + 1, NEW j \in 1..n + 1, i < j
        PROVE  replies'[i][2] < replies'[j][2]
    <3>0. i \in 1..n
      BY <2>4
    <3>1. CASE j = n + 1
      <4>1. replies[i][2] \in 1..h
        BY <1>1, <1>6, <3>0 DEF Replied
      <4>2. replies'[i][2] < h + 1
        BY <2>2, <3>0, <4>1
      <4> QED
        BY <2>1, <2>2, <3>1, <4>2
    <3>2. CASE j # n + 1
      <4>1. j \in 1..n
        BY <3>2
      <4> QED
        BY <1>6, <2>2, <2>4, <3>0, <4>1
    <3> QED
      BY <3>1, <3>2
  <2>5. ASSUME NEW k \in 1..h + 1, handled'[k].cmd = "HEARTBEAT"
        PROVE  \E i \in 1..n + 1 : replies'[i] = <<"ACK", k>>
    <3>1. CASE k = h + 1
      <4>1. p.cmd = "HEARTBEAT"
        BY <1>4, <2>5, <3>1
      <4>2. x = <<"ACK", k>> /\ n + 1 \in 1..n + 1
        BY <1>9, <3>1, <4>1
      <4> QED
        BY <2>2, <4>2
    <3>2. CASE k # h + 1
      <4>1. k \in 1..h
        BY <3>2
      <4>2. PICK i \in 1..n : replies[i] = <<"ACK", k>>
        BY <1>4, <1>6, <2>5, <4>1
      <4>3. i \in 1..n + 1 /\ replies'[i] = <<"ACK", k>>
        BY <2>2, <4>2
      <4> QED
        BY <4>3
    <3> QED
      BY <3>1, <3>2
  <2> QED
    BY <1>4, <2>2, <2>3, <2>4, <2>5 DEF RepliesGood
<1> QED
  BY <1>1, <1>2, <1>8, <1>9, RepliesSent

----------------------------------------------------------------------------
(* The theorems.                                                           *)

StreamInv == disturbed \in BOOLEAN /\ (~disturbed => RepliesGood /\ \E s : StreamGood(s))

\* Every step that leaves the connection undisturbed keeps the invariant.
LEMMA StreamKept ==
  ASSUME StreamInv, [Next]_vars
  PROVE  StreamInv'
<1>1. disturbed' \in BOOLEAN /\ (disturbed => disturbed')
  BY DEF StreamInv, Next, Analyze, send, close, recv, disconnected, recv_fails, recv_head, recv_seqn,
         recv_cmd, recv_data_len, length_done, recv_data, data_no_memory, recv_tail, completed,
         tail_dropped, ends, vars
<1> SUFFICES ASSUME ~disturbed' PROVE RepliesGood' /\ \E r : StreamGood(r)'
  BY <1>1 DEF StreamInv
<1>2. PICK s : StreamGood(s)
  BY <1>1 DEF StreamInv
<1>3. RepliesGood
  BY <1>1 DEF StreamInv
<1>4. ASSUME UNCHANGED <<replies, handled, sent>> PROVE RepliesGood'
  BY <1>3, <1>4 DEF RepliesGood, Replied
<1>5. ASSUME NEW c \in Commands, NEW l \in Lengths, send(c, l)
      PROVE  RepliesGood' /\ \E r : StreamGood(r)'
  <2>1. \E r : StreamGood(r)'
    BY <1>2, <1>5, SendStep
  <2>2. RepliesGood'
    <3>1. sent' = Append(sent, Packet(Len(sent) + 1, c, l)) /\ replies' = replies /\ handled' = handled
      BY <1>5 DEF send
    <3>2. Packet(Len(sent) + 1, c, l) \in Sendable /\ sent \in Seq(Sendable)
      <4>1. Len(sent) \in Nat
        BY <1>2, StreamFacts
      <4>2. PICK n \in Nat : n = Len(sent) + 1
        BY <4>1
      <4>3. Packet(n, c, l) \in Sendable
        BY DEF Sendable
      <4> QED
        BY <1>2, <4>2, <4>3 DEF StreamGood, StreamTyped
    <3>3. \A k \in 1..Len(sent) : sent'[k] = sent[k]
      BY <3>1, <3>2, AppendProperties
    <3>4. Len(handled) \in Nat /\ Len(sent) \in Nat /\ Len(handled) <= Len(sent)
      BY <1>2, StreamFacts DEF StreamGood, InOrder
    <3>5. ASSUME NEW i \in 1..Len(replies) PROVE Replied(i)'
      <4>1. Replied(i)
        BY <1>3 DEF RepliesGood
      <4>2. replies[i][2] \in 1..Len(sent)
        BY <3>4, <4>1 DEF Replied
      <4> QED
        BY <3>1, <3>3, <4>1, <4>2 DEF Replied
    <3> QED
      BY <1>3, <3>1, <3>5 DEF RepliesGood
  <2> QED
    BY <2>1, <2>2
<1>6. ASSUME UNCHANGED <<wire, recv_bufs, walker_count, recv_bufs_offset, recv_stage, sub_offset,
                         seqn, cmd, data_len, packet_databufs, packet_databufs_offset, sent, handled>>
      PROVE  StreamGood(s)'
  <2>1. UNCHANGED <<Place, Held>> /\ StreamTyped' /\ InOrder' /\ Copied'
    BY <1>2, <1>6 DEF StreamGood, Place, Held, StreamTyped, InOrder, Copied, Current
  <2>2. StageKnows'
    BY <1>2, <1>6 DEF StreamGood, StageKnows, Current, CommandByte, Weight
  <2>3. Bytes(s, s[Len(handled) + 1] + Place)'
    <3>1. Held \in Nat /\ 0 \in 0..Held /\ s[Len(handled) + 1] \in Nat /\ Place \in Nat
      BY <1>2, StreamFacts
    <3>2. recv_bufs_offset' = recv_bufs_offset + 0
      BY <1>2, <1>6 DEF StreamGood, StreamTyped
    <3>3. s[Len(handled') + 1] + Place' = s[Len(handled) + 1] + Place + 0
      BY <1>6, <2>1, <3>1
    <3> QED
      BY <1>2, <1>6, <3>1, <3>2, <3>3, Advance
  <2> QED
    BY <2>1, <2>2, <2>3 DEF StreamGood
<1>7. CASE close
  BY <1>4, <1>6, <1>7 DEF close, received, packet, payload, ends
<1>8. CASE UNCHANGED vars
  BY <1>4, <1>6, <1>8 DEF vars, received, packet, payload, ends
<1>9. ASSUME NEW n, recv(n) PROVE RepliesGood' /\ \E r : StreamGood(r)'
  BY <1>2, <1>4, <1>9, RecvStep DEF recv, ends
<1>10. CASE disconnected \/ \E st : recv_fails(st)
  <2>1. UNCHANGED <<replies, handled, sent>>
    BY <1>10 DEF disconnected, recv_fails, ends
  <2> QED
    BY <1>2, <1>4, <1>10, <2>1, NothingStep
<1>11. CASE recv_head
  BY <1>2, <1>4, <1>11, HeadStep DEF recv_head, ends
<1>12. CASE recv_seqn
  BY <1>2, <1>4, <1>12, SeqnStep DEF recv_seqn, ends
<1>13. CASE recv_cmd
  BY <1>2, <1>4, <1>13, CmdStep DEF recv_cmd, ends
<1>14. CASE recv_data_len
  BY <1>2, <1>4, <1>14, DataLenStep DEF recv_data_len, ends
<1>15. CASE length_done
  BY <1>2, <1>4, <1>15, LengthDoneStep DEF length_done, ends
<1>16. CASE recv_data
  <2>1. recv_bufs_offset + Diff <= walker_count
    <3>1. ~(recv_bufs_offset + Diff > walker_count)
      BY <1>16 DEF recv_data
    <3>2. recv_bufs_offset \in Nat /\ walker_count \in Nat /\ Diff \in Int
      BY <1>2, StreamAssumption DEF StreamGood, StreamTyped, Diff
    <3> QED
      BY <3>1, <3>2
  <2> QED
    BY <1>2, <1>4, <1>16, <2>1, DataStep DEF recv_data
<1>17. CASE data_no_memory
  BY <1>17 DEF data_no_memory
<1>18. CASE recv_tail
  BY <1>2, <1>4, <1>18, TailStep DEF recv_tail, ends
<1>19. CASE tail_dropped
  BY <1>2, <1>19, TailByte DEF tail_dropped
<1>20. ASSUME NEW callback \in BOOLEAN, completed(callback)
       PROVE  RepliesGood' /\ \E r : StreamGood(r)'
  BY <1>2, <1>3, <1>20, CompletedStep, RepliesStep
<1> QED
  BY <1>5, <1>7, <1>8, <1>9, <1>10, <1>11, <1>12, <1>13, <1>14, <1>15, <1>16, <1>17, <1>18, <1>19,
     <1>20 DEF Next, Analyze

LEMMA StreamImplies ==
  ASSUME StreamInv
  PROVE  ReceivedAsSent /\ RepliesMatch
<1>1. CASE disturbed
  BY <1>1 DEF ReceivedAsSent, RepliesMatch
<1>2. CASE ~disturbed
  <2>1. PICK s : StreamGood(s)
    BY <1>2 DEF StreamInv
  <2>2. RepliesGood
    BY <1>2 DEF StreamInv
  <2>3. PICK h \in Nat, t \in Nat : h = Len(handled) /\ t = Len(sent) /\ h <= t
    BY <2>1, StreamFacts DEF StreamGood, InOrder
  <2>4. /\ \A m \in 1..h : handled[m] = sent[m] /\ handled[m] \in Sendable
        /\ \A m \in 1..t : sent[m].seqn = m
    BY <2>1, <2>3, ElementOfSeq DEF StreamGood, StreamTyped, InOrder
  <2>5. ReceivedAsSent
    <3>1. 1 \in Int /\ h \in Int /\ \A m \in 1..h : sent[m] \in Sendable
      BY <2>4
    <3>2. PICK u, v : u = SubSeq(handled, 1, h) /\ v = SubSeq(sent, 1, h)
      OBVIOUS
    <3>3. /\ u \in Seq(Sendable) /\ Len(u) = (IF 1 <= h THEN h - 1 + 1 ELSE 0)
          /\ \A i \in 1..h - 1 + 1 : u[i] = handled[1 + i - 1]
      BY <2>4, <3>1, <3>2, SubSeqProperties
    <3>4. /\ v \in Seq(Sendable) /\ Len(v) = (IF 1 <= h THEN h - 1 + 1 ELSE 0)
          /\ \A i \in 1..h - 1 + 1 : v[i] = sent[1 + i - 1]
      BY <3>1, <3>2, SubSeqProperties
    <3>5. Len(u) = h /\ Len(v) = h
      BY <3>3, <3>4
    <3>6. ASSUME NEW i \in 1..h PROVE u[i] = v[i]
      <4>1. i \in 1..h - 1 + 1 /\ 1 + i - 1 = i
        OBVIOUS
      <4> QED
        BY <2>4, <3>3, <3>4, <4>1
    <3>7. u = v
      BY <3>3, <3>4, <3>5, <3>6, SeqEqual
    <3> QED
      BY <2>3, <3>2, <3>7 DEF ReceivedAsSent, IsPrefix
  <2>6. RepliesMatch
    <3>1. ASSUME NEW i \in 1..Len(replies)
          PROVE  \E k \in 1..Len(handled) :
                   /\ replies[i][2] = sent[k].seqn
                   /\ replies[i][1] = IF sent[k].cmd = "REQUEST" THEN "RESPONSE" ELSE "ACK"
                   /\ sent[k].cmd \in {"HEARTBEAT", "REQUEST", "RESPONSE"}
      <4>1. PICK k \in 1..h : k = replies[i][2] /\ Replied(i)
        BY <2>2, <2>3 DEF RepliesGood, Replied
      <4>2. k \in 1..t
        BY <2>3
      <4>3. sent[k].seqn = k
        BY <2>4, <4>2
      <4> QED
        BY <2>3, <4>1, <4>3 DEF Replied
    <3>2. ASSUME NEW k \in 1..Len(handled), handled[k].cmd = "HEARTBEAT"
          PROVE  \E i \in 1..Len(replies) : replies[i] = <<"ACK", handled[k].seqn>>
      <4>1. k \in 1..h /\ k \in 1..t
        BY <2>3
      <4>2. handled[k].seqn = k
        BY <2>4, <4>1
      <4> QED
        BY <2>2, <3>2, <4>2 DEF RepliesGood
    <3> QED
      BY <2>2, <3>1, <3>2 DEF RepliesMatch, RepliesGood
  <2> QED
    BY <2>5, <2>6
<1> QED
  BY <1>1, <1>2 DEF StreamInv

LEMMA StreamBegins == ASSUME Init PROVE StreamInv
<1>1. RepliesGood
  BY DEF Init, RepliesGood
<1> QED
  BY <1>1, StreamStarts DEF StreamInv, Init

\* However the stream cuts the bytes of the packets, ipc_packet_analyze completes
\* them whole, unchanged and in the order they were sent, as long as no payload was
\* copied from beyond the bytes received or lacked memory.
THEOREM PacketsArriveAsSent == Spec => []ReceivedAsSent
<1>1. Init => StreamInv
  BY StreamBegins
<1>2. StreamInv /\ [Next]_vars => StreamInv'
  BY StreamKept
<1>3. StreamInv => ReceivedAsSent
  BY StreamImplies
<1> QED
  BY <1>1, <1>2, <1>3, PTL DEF Spec

\* packet_analyze_completed answers packets that were sent, in order, each at most
\* once, and acknowledges every heartbeat.
THEOREM RepliesMatchPackets == Spec => []RepliesMatch
<1>1. Init => StreamInv
  BY StreamBegins
<1>2. StreamInv /\ [Next]_vars => StreamInv'
  BY StreamKept
<1>3. StreamInv => RepliesMatch
  BY StreamImplies
<1> QED
  BY <1>1, <1>2, <1>3, PTL DEF Spec
=============================================================================
