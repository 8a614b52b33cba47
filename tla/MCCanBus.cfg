\* Two motors, two user threads, a queue of two frames.
CONSTANTS
  Actuator = {"hip", "knee"}
  User = {u1, u2}
  Periodic = {m1, m2}
  OneShot = {stop}
  None = none
  QueueSize = 2
SPECIFICATION Spec
INVARIANT WholeFrames
PROPERTY ImplementsCommandPort

