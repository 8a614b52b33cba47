\* The process may end by a crash, and a commanded shutdown ends it: it stops.
CONSTANTS
  ModelJoints <- MCModelJoints
  CmdJoints <- MCCmdJoints
SPECIFICATION Spec
INVARIANT NoUseAfterFree
PROPERTY StartReturns
CHECK_DEADLOCK FALSE
