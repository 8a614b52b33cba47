\* Two motors on a bus that loses frames, or on one that loses nothing and
\* keeps up.
CONSTANTS
  Actuator = {"hip", "knee"}
  User = {"main"}
  MaxCmd = 1
  QueueSize = 2
  Periodic <- MCPeriodic
  OneShot <- MCOneShot
  None <- MCNone
  EnableOrder <- MCForward
  DisableOrder <- MCBackward
  CallbackOrder <- MCForward
  MaxId = 4
  Joints = {"hip_joint", "knee_joint"}
  Networks <- MCNetworks
  Bindings <- MCBindings
  Steps = 65535
  Limits <- MCLimits
  Commands <- MCCommands
SPECIFICATION Spec
INVARIANTS OwnAnswers ReadyMeansEnabled DisableAckTrue FollowersReportCommand
PROPERTY ShutdownStopsMotors
CHECK_DEADLOCK FALSE
