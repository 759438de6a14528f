----------------------------- MODULE IpcStream -----------------------------
(***************************************************************************)
(* The receiving end of a connection of ipc_server.c: ipc_conn_proc reads  *)
(* what the stream socket has, up to the end of recv_bufs, and             *)
(* ipc_packet_analyze works through it, one action per iteration of its    *)
(* loop.  The peer sends whole packets with ipc_send_packet; the stream    *)
(* may deliver any prefix of what was sent.                                *)
(*                                                                         *)
(* Bytes are naturals; LenSize and Radix scale the four bytes and the 256  *)
(* of the data_len field.                                                  *)
(***************************************************************************)
EXTENDS Naturals, Sequences, SequencesExt

CONSTANTS recv_bufs_size,   \* 512 in the code
          LenSize, Radix,   \* data_len is LenSize digits of base Radix
          Lengths,          \* payload lengths the peer uses
          Commands,         \* commands the peer uses
          MaxPackets        \* bound: packets the peer sends

\* The weight of a digit with k digits behind it.
Weight[k \in 0..LenSize] == IF k = 0 THEN 1 ELSE Radix * Weight[k - 1]

ASSUME StreamAssumption ==
  /\ recv_bufs_size \in Nat \ {0}
  /\ LenSize \in Nat \ {0} /\ Radix \in Nat \ {0, 1} /\ MaxPackets \in Nat
  /\ Lengths \subseteq 0..Weight[LenSize] - 1
  /\ Commands \subseteq {"HEARTBEAT", "ONEWAY", "REQUEST", "RESPONSE", "ACK"}

\* The characters of "STX" and "ETX".
BeginTag == <<5, 6, 7>>
EndTag == <<4, 6, 7>>
TagSize == 3
Command == <<"HEARTBEAT", "ONEWAY", "REQUEST", "RESPONSE", "ACK">>

VARIABLES wire,              \* bytes sent and not yet received
          closed,            \* the peer has closed the connection
          recv_bufs, recv_bufs_offset,
          walker_count,      \* the end of the bytes received last
          recv_stage, sub_offset,
          seqn, cmd, data_len,                     \* packet
          packet_databufs, packet_databufs_offset, \* as long as data_len, or Absent
          status,
          sent,              \* ghost: packets sent
          handled,           \* ghost: packets passed to packet_analyze_completed
          replies,           \* replies it sent: <<command, seqn>>
          disturbed          \* ghost: a payload was copied beyond the bytes
                             \* received, or could not be stored

Absent == <<>>

received == <<recv_bufs, walker_count>>
packet == <<seqn, cmd, data_len>>
payload == <<packet_databufs, packet_databufs_offset>>
ends == <<sent, handled, replies, disturbed>>
vars == <<wire, closed, received, recv_bufs_offset, recv_stage, sub_offset, packet,
          payload, status, ends>>

Init ==
  /\ wire = <<>> /\ closed = FALSE
  /\ recv_bufs = [i \in 0..recv_bufs_size - 1 |-> 0]
  /\ recv_bufs_offset = 0 /\ walker_count = 0
  /\ recv_stage = "HEAD" /\ sub_offset = 0
  /\ seqn = 0 /\ cmd = 0 /\ data_len = 0
  /\ packet_databufs = Absent /\ packet_databufs_offset = 0
  /\ status = "CONNECTED"
  /\ sent = <<>> /\ handled = <<>> /\ replies = <<>> /\ disturbed = FALSE

----------------------------------------------------------------------------
(* The peer.                                                               *)

\* htonl: the most significant digit first.
Digits(l) == [i \in 1..LenSize |-> (l \div Weight[LenSize - i]) % Radix]

CommandByte(c) == CHOOSE i \in 0..Len(Command) - 1 : Command[i + 1] = c

\* The n-th packet, with a payload of l bytes, all of them characters of the tags.
Packet(n, c, l) ==
  [seqn |-> n, cmd |-> c, data |-> [i \in 1..l |-> 4 + ((n + i) % 4)]]

\* ipc_send_packet
Encode(p) ==
  BeginTag \o <<p.seqn, CommandByte(p.cmd)>> \o Digits(Len(p.data)) \o p.data \o EndTag

send(c, l) ==
  LET p == Packet(Len(sent) + 1, c, l) IN
  /\ ~closed /\ Len(sent) < MaxPackets
  /\ sent' = Append(sent, p)
  /\ wire' = wire \o Encode(p)
  /\ UNCHANGED <<closed, received, recv_bufs_offset, recv_stage, sub_offset, packet,
                 payload, status, handled, replies, disturbed>>

close ==
  /\ ~closed
  /\ closed' = TRUE
  /\ UNCHANGED <<wire, received, recv_bufs_offset, recv_stage, sub_offset, packet,
                 payload, status, ends>>

----------------------------------------------------------------------------
(* ipc_conn_proc.                                                          *)

Parsing == recv_bufs_offset < walker_count

Start == IF recv_bufs_offset >= recv_bufs_size THEN 0 ELSE recv_bufs_offset

Receiving == ~Parsing /\ status # "NOT_CONNECTED"

recv(n) ==
  /\ Receiving
  /\ n \in 1..Len(wire) /\ n <= recv_bufs_size - Start
  /\ recv_bufs' = [i \in 0..recv_bufs_size - 1 |->
                     IF i \in Start..Start + n - 1 THEN wire[i - Start + 1] ELSE recv_bufs[i]]
  /\ recv_bufs_offset' = Start /\ walker_count' = Start + n
  /\ wire' = SubSeq(wire, n + 1, Len(wire))
  /\ status' = "CONNECTED"
  /\ UNCHANGED <<closed, recv_stage, sub_offset, packet, payload, ends>>

\* recv returns 0.
disconnected ==
  /\ Receiving /\ closed /\ wire = <<>>
  /\ recv_bufs_offset' = Start /\ walker_count' = Start
  /\ status' = "NOT_CONNECTED"
  /\ UNCHANGED <<wire, closed, recv_bufs, recv_stage, sub_offset, packet, payload, ends>>

\* recv fails: a timeout, a fault, ENOTCONN, or EINTR, which changes no status.
recv_fails(s) ==
  /\ Receiving
  /\ recv_bufs_offset' = Start /\ walker_count' = Start
  /\ status' = s
  /\ UNCHANGED <<wire, closed, recv_bufs, recv_stage, sub_offset, packet, payload, ends>>

----------------------------------------------------------------------------
(* ipc_packet_analyze: the iterations of its loop.                         *)

Byte == recv_bufs[recv_bufs_offset]
Consume == recv_bufs_offset' = recv_bufs_offset + 1

recv_head ==
  /\ Parsing /\ recv_stage = "HEAD"
  /\ Consume
  /\ \/ /\ Byte = BeginTag[sub_offset + 1]
        /\ recv_stage' = IF sub_offset + 1 >= TagSize THEN "SEQN" ELSE "HEAD"
        /\ sub_offset' = IF sub_offset + 1 >= TagSize THEN 0 ELSE sub_offset + 1
     \/ /\ Byte # BeginTag[sub_offset + 1]
        /\ sub_offset' = 0
        /\ UNCHANGED recv_stage
  /\ UNCHANGED <<wire, closed, received, packet, payload, status, ends>>

recv_seqn ==
  /\ Parsing /\ recv_stage = "SEQN"
  /\ Consume
  /\ seqn' = Byte
  /\ recv_stage' = "CMD"
  /\ UNCHANGED <<wire, closed, received, sub_offset, cmd, data_len, payload, status, ends>>

recv_cmd ==
  /\ Parsing /\ recv_stage = "CMD"
  /\ Consume
  /\ cmd' = Byte
  /\ recv_stage' = "DATA_LEN"
  /\ UNCHANGED <<wire, closed, received, sub_offset, seqn, data_len, payload, status, ends>>

MutDataLen ==
  /\ Parsing /\ recv_stage = "DATA_LEN" /\ sub_offset < LenSize
  /\ Consume
  /\ data_len' = data_len * Radix + Byte
  /\ sub_offset' = sub_offset + 1
  /\ UNCHANGED <<wire, closed, received, recv_stage, seqn, cmd, payload, status, ends>>
\* A digit of the length (data_len <<= 8; data_len += byte).
recv_data_len ==
  /\ Parsing /\ recv_stage = "DATA_LEN" /\ sub_offset < LenSize
  /\ Consume
  /\ data_len' = (IF sub_offset = 0 THEN 0 ELSE data_len * Radix) + Byte
  /\ sub_offset' = sub_offset + 1
  /\ UNCHANGED <<wire, closed, received, recv_stage, seqn, cmd, payload, status, ends>>

\* The length is complete.  For a length above MAX_PACKET_DATA_SIZE the stage is
\* set to HEAD and then, like that of any other, to DATA: there is no limit.
length_done ==
  /\ Parsing /\ recv_stage = "DATA_LEN" /\ sub_offset >= LenSize
  /\ sub_offset' = 0
  /\ recv_stage' = IF data_len > 0 THEN "DATA" ELSE "TAIL"
  /\ UNCHANGED <<wire, closed, received, recv_bufs_offset, packet, payload, status, ends>>

\* How much is copied: what the payload lacks or what lies before the END OF THE
\* BUFFER, which may be more than was received.
Diff ==
  LET needed == data_len - packet_databufs_offset
      there == recv_bufs_size - recv_bufs_offset
  IN IF needed < there THEN needed ELSE there

MutDatabufs == [i \in 1..data_len |-> 0]
\* The buffer the payload goes to; it is cleared when it is enlarged.
Databufs ==
  IF Len(packet_databufs) >= data_len THEN packet_databufs
  ELSE [i \in 1..data_len |-> 0]

recv_data ==
  /\ Parsing /\ recv_stage = "DATA"
  /\ packet_databufs' =
       [i \in 1..Len(Databufs) |->
          IF i \in packet_databufs_offset + 1..packet_databufs_offset + Diff
          THEN recv_bufs[recv_bufs_offset + i - packet_databufs_offset - 1]
          ELSE Databufs[i]]
  /\ recv_bufs_offset' = recv_bufs_offset + Diff
  /\ disturbed' = (disturbed \/ recv_bufs_offset + Diff > walker_count)
  /\ IF packet_databufs_offset + Diff >= data_len
     THEN recv_stage' = "TAIL" /\ packet_databufs_offset' = 0
     ELSE recv_stage' = "DATA" /\ packet_databufs_offset' = packet_databufs_offset + Diff
  /\ UNCHANGED <<wire, closed, received, sub_offset, packet, status, sent, handled, replies>>

\* malloc or realloc returns NULL: the payload will be parsed as a head.
data_no_memory ==
  /\ Parsing /\ recv_stage = "DATA"
  /\ Len(packet_databufs) < data_len
  /\ packet_databufs' = Absent
  /\ recv_stage' = "HEAD" /\ sub_offset' = 0
  /\ disturbed' = TRUE
  /\ UNCHANGED <<wire, closed, received, recv_bufs_offset, packet, packet_databufs_offset,
                 status, sent, handled, replies>>

\* packet_analyze_completed: the reply to a completed packet of command c when
\* there is a callback and it succeeds.
MutReply(c) ==
  CASE c = "HEARTBEAT" -> {<<"ACK", seqn>>}
    [] c \in {"REQUEST", "RESPONSE"} -> {<<"RESPONSE", seqn>>}
    [] OTHER -> {}
Reply(c) ==
  CASE c = "HEARTBEAT" -> {<<"ACK", seqn>>}
    [] c = "REQUEST"   -> {<<"RESPONSE", seqn>>}
    [] c = "RESPONSE"  -> {<<"ACK", seqn>>}
    [] OTHER           -> {}

\* A byte of the end tag; the last one completes the packet.  A command outside
\* the enumeration is ignored, and a failing callback suppresses the reply.
recv_tail ==
  /\ Parsing /\ recv_stage = "TAIL"
  /\ Byte = EndTag[sub_offset + 1] /\ sub_offset + 1 < TagSize
  /\ Consume
  /\ sub_offset' = sub_offset + 1
  /\ UNCHANGED <<wire, closed, received, recv_stage, packet, payload, status, ends>>

completed(callback) ==
  LET c == IF cmd < Len(Command) THEN Command[cmd + 1] ELSE "none" IN
  /\ Parsing /\ recv_stage = "TAIL"
  /\ Byte = EndTag[sub_offset + 1] /\ sub_offset + 1 = TagSize
  /\ Consume
  /\ recv_stage' = "HEAD" /\ sub_offset' = 0
  /\ handled' = Append(handled, [seqn |-> seqn, cmd |-> c,
                                 data |-> SubSeq(packet_databufs, 1, data_len)])
  /\ replies' = IF callback \/ c = "HEARTBEAT" THEN replies \o SetToSeq(Reply(c)) ELSE replies
  /\ UNCHANGED <<wire, closed, received, packet, payload, status, sent, disturbed>>

tail_dropped ==
  /\ Parsing /\ recv_stage = "TAIL"
  /\ Byte # EndTag[sub_offset + 1]
  /\ Consume
  /\ recv_stage' = "HEAD" /\ sub_offset' = 0
  /\ UNCHANGED <<wire, closed, received, packet, payload, status, ends>>

Analyze ==
  \/ recv_head \/ recv_seqn \/ recv_cmd \/ recv_data_len \/ length_done
  \/ recv_data \/ data_no_memory \/ recv_tail \/ tail_dropped
  \/ \E callback \in BOOLEAN : completed(callback)

Next ==
  \/ \E c \in Commands, l \in Lengths : send(c, l)
  \/ close
  \/ \E n \in 1..recv_bufs_size : recv(n)
  \/ \E s \in {"TIMEOUT", "FAULT", "NOT_CONNECTED", status} : recv_fails(s)
  \/ disconnected
  \/ Analyze

\* The connection's thread keeps running and the stream delivers.
Spec ==
  /\ Init /\ [][Next]_vars
  /\ WF_vars(Analyze)
  /\ WF_vars(\E n \in 1..recv_bufs_size : recv(n))

----------------------------------------------------------------------------
(* Properties.                                                             *)

\* However the stream cuts what was sent, packets are completed whole, unchanged
\* and in order, provided no receive ends inside a payload short of the end of
\* recv_bufs.
ReceivedAsSent == ~disturbed => IsPrefix(handled, sent)

\* Replies go to packets that were sent, in their order, at most one to each, and
\* every completed heartbeat is acknowledged.
RepliesMatch ==
  ~disturbed =>
    /\ \A i \in 1..Len(replies) :
         \E k \in 1..Len(handled) :
           /\ replies[i][2] = sent[k].seqn
           /\ replies[i][1] = IF sent[k].cmd = "REQUEST" THEN "RESPONSE" ELSE "ACK"
           /\ sent[k].cmd \in {"HEARTBEAT", "REQUEST", "RESPONSE"}
    /\ \A i, j \in 1..Len(replies) : i < j => replies[i][2] < replies[j][2]
    /\ \A k \in 1..Len(handled) :
         handled[k].cmd = "HEARTBEAT" =>
           \E i \in 1..Len(replies) : replies[i] = <<"ACK", handled[k].seqn>>

\* Everything sent is completed in the end, unless the connection is lost or a
\* payload disturbed.
AllReceived ==
  \A k \in 1..MaxPackets :
    [](Len(sent) >= k => <>(disturbed \/ status = "NOT_CONNECTED" \/ Len(handled) >= k))
=============================================================================
