\* Two joints, a ring of two rows, three messages, two switches.
CONSTANTS
  cap = 2
  MaxPush = 3
  Prompt = TRUE
  DriverOrder <- MCDriverOrder
  ControlOrder <- MCControlOrder
  Controllers <- MCControllers
  Policy = "rl"
  Modes <- MCModes
  MaxFeedback <- MCMaxFeedback
  MaxImu = 1
  MaxSwitch = 2
SPECIFICATION FeedSpec
INVARIANTS SampleOrdered JointsKept OneMessagePerEstimate EstimateIsFresh NewestInOrder
CHECK_DEADLOCK FALSE
