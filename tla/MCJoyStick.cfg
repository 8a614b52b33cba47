\* Two pads plugged in at most, six inputs.
CONSTANTS
  Button = {"stand", "walk", "deadman"}
  Raw <- MCRaw
  MaxRaw = 3
  DeadZone = 1
  Hat <- MCHat
  MaxPlug = 2
  MaxEvents = 2
  MaxInput = 6
  Mode = {"stand", "walk"}
  Topic = {"stand", "walk"}
  Controller = {"pd_zero", "pd_stand", "rl_walk"}
  FirstMode = "stand"
  StatesOf <- MCStatesOf
  PreStates <- MCPreStates
  ControllersOf <- MCControllersOf
  FloatPubs <- MCFloatPubs
  ButtonOf <- MCButtonOf
  DeadMan = "deadman"
  Limit = 1
  Interval = 2
  Walker = {"rl_walk"}
SPECIFICATION Spec
INVARIANT InStepWithPad
PROPERTIES SmoothCommands HeldTriggerTaken SteeringTakesEffect
CHECK_DEADLOCK FALSE
