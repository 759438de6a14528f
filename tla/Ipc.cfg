\* Packets of 10 to 13 bytes through a buffer of 5; two connections for three
\* peers; seven calls over five sequence numbers.  A lost connection stops.
CONSTANTS
  recv_bufs_size = 5
  LenSize = 2
  Radix = 2
  Lengths = {0, 2, 3}
  Commands = {"HEARTBEAT", "ONEWAY", "REQUEST", "RESPONSE", "ACK"}
  MaxPackets = 2
  MaxConn = 2
  MaxPeers = 3
  MaxErrors = 2
  SeqLimit = 5
  Tolerance = 3
  MaxCalls = 7
SPECIFICATION MCSpec
INVARIANTS ReceivedAsSent RepliesMatch SlotsExact TasksUndisturbed OwnReply RefusalExplained
PROPERTIES AllReceived EventuallyAccepted
CHECK_DEADLOCK FALSE
