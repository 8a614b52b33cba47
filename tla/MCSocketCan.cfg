\* Two threads that send one-shots and the control loop on one socket.
CONSTANTS
  Sender = {"main", "config", "loop"}
  Loop = {"loop"}
  TxQueueSize = 3
  MaxCalls = 2
SPECIFICATION SocketSpec
INVARIANT NoWriteAfterClose
PROPERTY FramesLeave
CHECK_DEADLOCK FALSE
