\* The operator moves while fewer than two events wait.
CONSTANT MaxWaiting = 2
SPECIFICATION GpioSpec
PROPERTIES OnePushPerPress DirectionRight HeldPressAnswered ImplementsKeySource
CHECK_DEADLOCK FALSE
