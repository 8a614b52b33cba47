\* A clamped and the unclamped screen; one event queued at a time by the operator.
CONSTANTS
  MaxQueue = 1
  NumJoints = 7
  MaxScroll = 16
  Menu <- MCMenu
SPECIFICATION Spec
INVARIANTS BarInTrack DarkAfterShutdown
PROPERTY ShutdownReturns
CHECK_DEADLOCK FALSE
