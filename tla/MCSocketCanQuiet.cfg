\* No motor has a command to repeat: only one-shots are sent.
CONSTANTS
  Sender = {"main"}
  Loop = {}
  TxQueueSize = 3
  MaxCalls = 2
SPECIFICATION SocketSpec
PROPERTY OneShotLeaves
CHECK_DEADLOCK FALSE
