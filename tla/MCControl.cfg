\* The shipped mode graph and controllers, one joint; idle keeps its pose.
CONSTANTS
  Mode = {"idle", "zero", "stand", "walk"}
  Topic = {"idle", "zero", "stand", "walk"}
  Controller = {"pd_idle", "pd_zero", "pd_stand", "rl_walk"}
  FirstMode = "idle"
  PD = {"pd_idle", "pd_zero", "pd_stand"}
  Keep = {"pd_idle"}
  Joint = {"hip"}
  Interval = 2
  RampSteps = 2
  Decimation = 3
  MaxLag = 1
  StatesOf <- MCStatesOf
  PreStates <- MCPreStates
  ControllersOf <- MCControllersOf
  JointsOf <- MCJointsOf
SPECIFICATION Spec
INVARIANTS TypeOK OneAuthority StartLatched CleanEntry RecoversWithinDecimation
PROPERTIES AppliedFollowsGraph ImplementsModeSwitch SwitchReachesRobot
