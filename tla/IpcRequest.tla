----------------------------- MODULE IpcRequest -----------------------------
(***************************************************************************)
(* The client's calls of ipc_server.c over a connection that answers late: *)
(* send_request, send_oneway and send_heartbeat number their packets with  *)
(* a sequence number that wraps, and match the packets that come back by   *)
(* it.  A call that gave up leaves its answer to the calls after it.       *)
(***************************************************************************)
EXTENDS Naturals, Sequences

CONSTANTS SeqLimit,                    \* sequence numbers (256)
          TOLERANCE_TO_DIFF_SEQUENCE,  \* 3
          MaxCalls                     \* bound: calls, the constructor's included

VARIABLES call,     \* the calls made so far; the last one has that number
          waiting,  \* the call that waits for an answer: "none", "request", "heartbeat"
          inbox,    \* what the server has not handled yet
          wire,     \* the answers on their way, and what is left of broken ones
          result    \* how the last call ended: why, and which call's answer it took

vars == <<call, waiting, inbox, wire, result>>

\* ACCUMULATE_SEQUENCE_NUMBER
seqn(n) == n % SeqLimit

Junk == [cmd |-> "junk", call |-> 0]
Ended(r, p) == result' = [why |-> r, call |-> p.call] /\ waiting' = "none"
NoPacket == Junk

\* cplus_ipc_client_new has made a heartbeat, which was answered.
Init ==
  /\ call = 1 /\ waiting = "none"
  /\ inbox = <<>> /\ wire = <<>>
  /\ result = [why |-> "success", call |-> 1]

----------------------------------------------------------------------------
(* The calls.                                                              *)

Send(cmd) ==
  /\ waiting = "none" /\ call < MaxCalls
  /\ call' = call + 1
  /\ inbox' = Append(inbox, [cmd |-> cmd, call |-> call + 1])

\* Heartbeats, and requests with data, wait for their answer.
send(cmd) ==
  /\ Send(cmd)
  /\ waiting' = cmd
  /\ UNCHANGED <<wire, result>>

\* A one-way packet is not answered.  An empty request is, but ipc_send_packet
\* returns the 0 bytes of its data and the call ends with CPLUS_SUCCESS.
send_and_return(cmd) ==
  /\ Send(cmd)
  /\ result' = [why |-> "sent", call |-> 0]
  /\ UNCHANGED <<waiting, wire>>

\* A request whose packet cannot be sent ends with CPLUS_SUCCESS too.
send_fails ==
  /\ waiting = "none" /\ call < MaxCalls
  /\ call' = call + 1
  /\ result' = [why |-> "sent", call |-> 0]
  /\ UNCHANGED <<waiting, inbox, wire>>

\* The server (packet_analyze_completed) answers in order; not at all when the
\* callback fails, nor a one-way packet.
serve(answered) ==
  /\ inbox # <<>>
  /\ inbox' = Tail(inbox)
  /\ wire' = IF Head(inbox).cmd = "heartbeat" THEN Append(wire, [Head(inbox) EXCEPT !.cmd = "ACK"])
             ELSE IF Head(inbox).cmd = "request" /\ answered
                  THEN Append(wire, [Head(inbox) EXCEPT !.cmd = "RESPONSE"]) ELSE wire
  /\ UNCHANGED <<call, waiting, result>>

----------------------------------------------------------------------------
(* cplus_ipc_client_send_request: the loop around ipc_conn_proc.           *)

\* One receive may bring several packets: the last is the one that is looked at.
Whole(k) == {i \in 1..k : wire[i].cmd # "junk"}
Looked(k) == wire[CHOOSE i \in Whole(k) : \A j \in Whole(k) : j <= i]
Received(k) == wire' = SubSeq(wire, k + 1, Len(wire))

\* How far a packet's number s is from the request's r, as the code has it: behind
\* a wrap it is not (SeqLimit - s) + r.  The mutant is off by one.
Diff_inclusive(r, s) == IF r > s THEN r - s + 1 ELSE (SeqLimit - 1 - r) + s
Diff(r, s) == IF r > s THEN r - s ELSE (SeqLimit - 1 - r) + s

\* Mutant: a packet within the tolerance is as good as the right one.
Matches_near(p) ==
  \/ seqn(call) = seqn(p.call)
  \/ Diff(seqn(call), seqn(p.call)) < TOLERANCE_TO_DIFF_SEQUENCE
Matches(p) == seqn(call) = seqn(p.call)

\* Nothing that completes a packet has come yet.
request_partial(k) ==
  /\ waiting = "request" /\ k \in 1..Len(wire) /\ Whole(k) = {}
  /\ Received(k)
  /\ UNCHANGED <<call, waiting, inbox, result>>

request_answered(k) ==
  /\ waiting = "request" /\ k \in 1..Len(wire) /\ Whole(k) # {}
  /\ Matches(Looked(k))
  /\ Received(k)
  /\ Ended("success", Looked(k))
  /\ UNCHANGED <<call, inbox>>

\* A packet just behind is dropped, one further off ends the call (EILSEQ).
request_dropped(k) ==
  /\ waiting = "request" /\ k \in 1..Len(wire) /\ Whole(k) # {}
  /\ ~Matches(Looked(k))
  /\ Diff(seqn(call), seqn(Looked(k).call)) < TOLERANCE_TO_DIFF_SEQUENCE
  /\ Received(k)
  /\ UNCHANGED <<call, waiting, inbox, result>>

request_refused(k) ==
  /\ waiting = "request" /\ k \in 1..Len(wire) /\ Whole(k) # {}
  /\ ~Matches(Looked(k))
  /\ Diff(seqn(call), seqn(Looked(k).call)) >= TOLERANCE_TO_DIFF_SEQUENCE
  /\ Received(k)
  /\ Ended("EILSEQ", Looked(k))
  /\ UNCHANGED <<call, inbox>>

\* The time is over, before a receive (k = 0) or just after one, which is lost.
request_timeout(k) ==
  /\ waiting = "request" /\ k \in 0..Len(wire)
  /\ Received(k)
  /\ Ended("ETIMEDOUT", NoPacket)
  /\ UNCHANGED <<call, inbox>>

----------------------------------------------------------------------------
(* cplus_ipc_client_send_heartbeat: ipc_recv_packet reads one packet.      *)

heartbeat_answered ==
  /\ waiting = "heartbeat" /\ wire # <<>>
  /\ Head(wire).cmd = "ACK"
  /\ wire' = Tail(wire)
  /\ IF Matches(Head(wire)) THEN Ended("success", Head(wire)) ELSE Ended("fail", NoPacket)
  /\ UNCHANGED <<call, inbox>>

\* A response that comes late: without a buffer its data are not read, what
\* follows is not the end tag, and the rest of the packet stays in the stream.
heartbeat_garbled(rest) ==
  /\ waiting = "heartbeat" /\ wire # <<>> /\ Head(wire).cmd = "RESPONSE"
  /\ wire' = rest \o Tail(wire)
  /\ Ended("fail", NoPacket)
  /\ UNCHANGED <<call, inbox>>

\* The head of a packet is looked for in that rest: three bytes of it go, with
\* or without its end, or with the beginning of the packet behind it.
heartbeat_junk(rest, d) ==
  /\ waiting = "heartbeat" /\ d <= Len(wire) /\ Head(wire).cmd = "junk"
  /\ wire' = rest \o SubSeq(wire, d + 1, Len(wire))
  /\ Ended("fail", NoPacket)
  /\ UNCHANGED <<call, inbox>>

heartbeat_timeout ==
  /\ waiting = "heartbeat"
  /\ Ended("ETIMEDOUT", NoPacket)
  /\ UNCHANGED <<call, inbox, wire>>

Next ==
  \/ \E cmd \in {"request", "heartbeat"} : send(cmd)
  \/ \E cmd \in {"request", "oneway"} : send_and_return(cmd)
  \/ send_fails
  \/ \E answered \in BOOLEAN : serve(answered)
  \/ \E k \in 0..MaxCalls :
       \/ request_partial(k) \/ request_answered(k) \/ request_dropped(k)
       \/ request_refused(k) \/ request_timeout(k)
  \/ \E rest \in {<<>>, <<Junk>>} :
       heartbeat_garbled(rest) \/ \E d \in {1, 2} : heartbeat_junk(rest, d)
  \/ heartbeat_answered \/ heartbeat_timeout

Spec == Init /\ [][Next]_vars

----------------------------------------------------------------------------
(* Properties.                                                             *)

\* A call that succeeds took the answer to itself, however many answers to
\* earlier calls came in between and in however few receives, as long as none
\* comes a whole turn of the sequence numbers late.
OwnReply ==
  waiting = "none" /\ result.why = "success" =>
    result.call = call \/ call - result.call >= SeqLimit

\* A request is refused with EILSEQ only for an answer that is
\* TOLERANCE_TO_DIFF_SEQUENCE calls old, or for one from before the wrap.
RefusalExplained ==
  waiting = "none" /\ result.why = "EILSEQ" =>
    \/ call - result.call >= TOLERANCE_TO_DIFF_SEQUENCE
    \/ seqn(result.call) > seqn(call)
=============================================================================
