\* Two ticks, up to two lost frames, any interleaving with the publish thread
\* and with a shutdown.
CONSTANTS
  MaxTick = 2
  MaxLoss = 2
SPECIFICATION ModuleSpec
INVARIANTS SkewNeedsLosses OnlyCaughtIterationCrashes FrameFixAgrees
PROPERTIES ReadsAreFresh LatestIsPublished
CHECK_DEADLOCK FALSE
