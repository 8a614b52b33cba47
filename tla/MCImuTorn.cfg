\* A read that finds the same odd version twice.
CONSTANTS
  MaxTick = 3
  MaxLoss = 0
SPECIFICATION Spec
PROPERTY NoTornRead
CHECK_DEADLOCK FALSE
