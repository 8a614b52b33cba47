# Verification of the biped control software

TLA+ models of the control, driver and sensor code of this repository, TLC
configurations that check them on small instances, and TLAPS proofs of what
holds for every instance. Paths below are relative to `src/module/` unless they
start elsewhere.

    tlc -workers 2 -config MCCanBus.cfg CanBus      # check one run
    tlapm CanBus_proofs.tla                         # check one module's proofs

`PROJECT.json` lists the runs, the source lines every definition stands for, a
mutant of the code that breaks each property, the hazards, and the theorems.

## 1. The system

The program is an AimRT process. Its modules exchange messages on channels with
the `local` backend, so **a subscriber's callback runs inline, in the thread that
publishes**. `src/pkg/pkg1/pkg_main.cc` registers the joint driver, the joystick,
the control and the IMU module; `x1_cfg.yaml` initialises and starts them in the
order joystick, control, IMU, joint driver. The main thread calls `Initialize`,
`Start` and `Shutdown`. The display and the simulation module are built but not
registered.

| Component | State | Operations | Threads | Model |
|---|---|---|---|---|
| Control module (`control_module/src/control_module.cc`, `state_machine.h`) | mode, controller list, throttle, `cmd_msg`, `run_flag_` | trigger callback, `MainLoop`, `Shutdown` | control thread (1 kHz); callbacks in the joystick thread | `StateMachine`, `ControlModule`, abstract `ModeSwitch` |
| Controllers (`pd_controller.cc`, `rl_controller.cc`) | start angles, ramp, first-frame flag, loop counter, actions, filters; sensor data behind a mutex | `RestartController`, `Update`, `GetJointCmdData`, sensor callbacks | restart in the joystick thread, update in the control thread, sensors in two more | `ControlModule`, `JointFeed` |
| Joint driver (`joint_driver_module/src`) | actuator and joint data, `is_running_` | `Initialize` (reads the wiring, enables motors), `Start`, `Shutdown` (disables), `JointCmdCallback`, `PublishLoop` | main, publish thread, callback in the control thread | `JointDriver`, `Wiring`, `JointFeed` |
| Transmission (`transmission.h`) | direction of each motor | joint to actuator and back | as its caller | `MotorUnits` |
| CAN device, CAN bus (`robstride_api/src`) | send and receive buffers, their mutexes | setters, one-shots through `SendOnce`, `TransmitAll`, receive callback | device loop (1.5 ms), callers, CAN receive thread | `CanBus`, abstract `CommandPort`, `Wiring` |
| SocketCAN (`robstride_controller/protocol`) | bounded lock-free queue, condition variable, socket | `open`, `transmit`, `close` | sender and receiver threads | `SocketCan` |
| IMU driver and module (`imu_module`) | pending tick, seqlocked observation, `is_running_` | `parseFrame`, `commitTick`, `getObs`, `PublishLoop`, frame fix | serial reader, publish thread | `ImuDriver`, `ImuModule`, `ImuFrame` |
| Debug recorder (`debug_recorder.h`) | ring, `head_`, `frozen_` | `Push`, `Dump` | one writer, one dumper | `RingTrace` |
| Joystick (`joy_stick_module`) | open pad, `joy_msg_`, limiter | event handlers, `MainLoop` (20 Hz), life cycle | executor, SDL event thread | `Joy`, `JoyStick` |
| OLED (`oled_module`) | event queue, menu, panel | GPIO polling, `MainLoop`, stats, life cycle | three | `Gpio`, abstract `KeySource`, `Oled` |
| Simulation (`sim_module`) | MuJoCo model and data, load handshake | `Start`, `Shutdown`, `CmdCallback`, render loop | main, render thread, callback in the control thread | `SimModule` |

Two paths cross the system. Commands: joystick → trigger callback → mode machine
→ `MainLoop` → `/joint_cmd` → `JointCmdCallback` → send slots → `TransmitAll` →
transmit queue → bus. State: bus → receive callback → `PublishLoop` →
`/joint_states` and serial line → tick → `/imu/data` → the controllers' data.

**What is hard here.** `RestartController` resets plain fields that `Update`
reads and writes in another thread. A command is written to a slot a loop
repeats for ever, one-shots included for a moment. A callback that was let in
goes on while `Shutdown` disables the motors. `Initialize` and `Shutdown` wait for
an answer on a bus that loses frames, and any feedback counts as an answer.
Notification happens without the mutex. The observation is published by a
hand-written seqlock, and its driver is destroyed under a thread nobody joins.
Position, velocity and effort of a sample are read under separate locks. Pads
are unplugged while a button is down. Contacts chatter while the thread that
reads them sleeps. Shutdown of the simulator frees what two other threads read.

**What makes each part correct.** Control: one controller decides each
published command, a mode entry starts from the captured pose, the robot never
skips a mode. Bus: a frame is whole, a periodic command is repeated and a
one-shot is not. Joint driver: no wiring is used in which a motor's answers are stored for
another, success means what it says, `Shutdown` stops the motors it can. SocketCAN: frames leave, and none after
`close`. IMU: a read is fresh, its values belong together, the latest one is
published. Feed: a value is held for the joint it was measured at, an estimate
is fresh and of one message. Recorder: the newest rows, whole, in order.
Joystick: what is published is what the pad shows, velocities change slowly.
Display: each press is answered once, the panel goes dark. Simulator: nobody
touches a freed model.

## 2. The modules

| Module | Models | Kind |
|---|---|---|
| `ModeSwitch` | what mode switching promises | abstract |
| `StateMachine` | `state_machine.h` | component |
| `ControlModule` | trigger callback, `MainLoop` and both kinds of controllers | composes `StateMachine`, implements `ModeSwitch` |
| `CommandPort` | the command routing of `can_bus.h` | abstract |
| `CanBus` | slots, mutex, `SendOnce`, `TransmitAll`, queue | implements `CommandPort` |
| `Wiring` | `driver_network` and `transmission` turned into maps | pure operators |
| `MotorUnits` | directions, 16-bit encoding and decoding | pure operators |
| `JointDriver` | life cycle, callback, device loop, motors | composes `CommandPort` and `Wiring` with driver, sender threads and motors |
| `SocketCan` | `transmit`, sender thread, `close` | component |
| `RingTrace` | `Push` and `Dump` | component |
| `JointFeed` | feedback frames to estimates | composes `RingTrace` with the publish, sensor and control threads |
| `ImuDriver` | `parseFrame`, `commitTick`, `getObs` | component |
| `ImuFrame` | `ImuFrameFix` | pure operators |
| `ImuModule` | life cycle and `PublishLoop` | composes `ImuDriver` and `ImuFrame` |
| `Joy` | SDL events to `joy_msg_` | component |
| `JoyStick` | `MainLoop`, limiter, life cycle | composes `Joy` and `StateMachine` |
| `KeySource` | what the GPIO thread is to the display | abstract |
| `Gpio` | contacts, encoder and the polling thread | implements `KeySource` |
| `Oled` | UI loop, stats thread, life cycle | built on `KeySource` |
| `SimModule` | simulator module and render loop | component |
| `ControlModule_proofs`, `CanBus_proofs` (with `SocketCan`), `JointDriver_proofs` (with `Wiring`, `MotorUnits`), `JointFeed_proofs` (with `RingTrace`), `ImuModule_proofs` (with `ImuDriver`, `ImuFrame`), `JoyStick_proofs` (with `Joy`), `Oled_proofs` (with `Gpio`), `SimModule_proofs` | theorems | proofs |
| `MCControlModule`, `MCJointDriver`, `MCJointFeed`, `MCJoyStick`, `MCOled`, `MCSimModule` | values of constants | model checking |

Operators named "Mutant of X" precede X. They stand for a plausible bug in X and are used
only to see that a property notices it; no specification refers to them. The
type invariants are all proved, so that most runs do not repeat them. Where one proof
module extends two components, the definitions they would both call `Init`, `Next`, `Spec`
and `TypeOK` carry the component's name (`SocketSpec`, `GpioSpec`, `ModuleSpec`).

**ControlModule.** One action per access to shared state. The callback is
`TriggerAccepted` or `TriggerRejected` (the throttle; `OnEvent` writes the mode),
`Swap` (the list, under the mutex), then one action per field
`RestartController` resets. `MainLoop` is `Check`, `Snapshot` (the copy of the
names), and for each controller `Update`, split at its reads and writes, then
`GetJoint` for each joint, and `Publish`. `x += d` is a read step and a write
step. Angles are abstracted to their age relative to the latest accepted
trigger, the ramp to its number of steps, the policy to the age of the
observation it used. `Tick` is time; `OnTime` states the two scheduling facts the
deployment relies on: a callback ends within a tick, and the loop (1 kHz)
copies the names at least every `MaxLag` ticks, more often than the throttle lets
triggers through (1 s). Two assumptions on the lists say what the shipped ones
are like: a list names its last controller once (`LastRunsOnce`), and a policy
that decides the messages of a mode is not in the list of a mode it is entered from
(`PolicyEntersFresh`); without them a mode entry is no fresh start.

**CanBus.** A command is written to its slot in two steps, because the id of a
MIT frame carries its torque and the data its position. `SendOnce` is `Lock`,
`WriteId`, `WriteData`, `Capture` (copy and zero, unlock) and `TransmitOnce`, after
the unlock. `TransmitAll` is `LoopLock` and one `LoopVisit` per actuator. The
refinement mapping takes a call's effect to be the moment its id is written.
can_bus.cpp:200 says "fire exactly once"; a full queue drops the frame without
a word, so "at most once" is what `CommandPort` promises.

**JointDriver.** Uses `CommandPort` in place of the bus. `Main` is the main
thread from `InitDriver` to the join of the device loop. The configuration is
one of `Networks` and `Bindings`, right or wrong; it is read device by device and
motor by motor as in `InitDriver` (`ReadDevice`, `ReadMotor`, `DeviceRead`; `Refuse` ends
it), `InitTransmission` then binds joints to what was attached, and `stored` says where
the answers of each motor end up, `shares` which motors are behind the same socket. `CallbackBegin` tests `is_running_` once and `CallbackWrite` sets
one actuator per step, so a callback let in before `Shutdown` overlaps all of
it. `TransmitAll` is one step: the loop holds the send mutex for all of it, so
no slot changes meanwhile, and the only frame another thread can offer to the
queue within it is for an actuator whose slot is zero. An interface's sender waits as in
`SocketCan`: `FindEmpty` is its test, `Block` the wait, and a notification (`Notify`) in between
wakes nobody. A frame that waits behind such a sender goes out with the next transmission to
the interface, if there is one (`Stuck` says that there is none). The motors (`Obey`,
`Deliver`) and the loss of frames are external. The orders in which motors are
enabled, disabled and commanded differ in the code (a list, two maps), so they
are constants.
A binding of an unknown joint or actuator is passed over with a warning, as in the
code, and its motor keeps the command without gains it was given (`Bound`). One id on two buses of
the same interface passes registration, which looks at the own bus only, and the callback
registered later replaces the earlier one. Both motors then obey what is sent to either, and both answers are stored
in one slot (`AtAddress`, `StoredFor`); such configurations are among those checked, and the
proofs make no assumption about ids.

**MotorUnits.** Commands and limits are whole numbers of some unit and what
comes back is counted in 65535ths of it, so that the truncation of `FloatToUint16` is
exact. A NaN makes the cast in the code undefined and is left out.

**SocketCan.** Separates push from notification, and the sender's test of its
predicate from its wait. Only the sender ever takes `tx_mutex_`, so everything
else can fall in between.

**JointFeed.** A measured value is the number of the feedback frame it was
decoded from; what a controller holds is the number of the message it came in.
`Sample` is one locked getter, so the three values of a motor can come from
three frames; `PublishState` takes the order of names from the first message, as
the callback does; `Lock`, `CopyJoint` and `Unlock` are `SetJointStateData` of one
controller after the other. The IMU callback sets the controllers of the mode,
one at a time, and the control thread reads one joint at a time under the same
mutex. The recorder of joint states is `RingTrace`, pushed in the same thread.
The trace of observations (`obs_trace_`) is left out: controller_base.h:31 says
that `DumpTrace` of a controller is called once at exit, but
`ControlModule::DumpTrace` calls none, so it is never written.

**RingTrace.** The row's values are the number of its push. `Prompt` says whether
a push may outlast the 20 ms `Dump` sleeps.

**ImuDriver.** A value is the number of the tick it was measured in. Store and
copy touch a word at a time in any order, and memory has the order of x86: both
increments of the version stay where they are written. On ARM64 the first,
relaxed increment could also become visible late, which would add behaviours.
The clearing of `buf_` beyond 4096 bytes is left out: what stays after
`processBuffer` is less than a frame. imu_driver.h:52 speaks of one tick; a lost
quaternion frame leaves the other flags set and two ticks mix, which
`SkewNeedsLosses` bounds.

**ImuModule.** `CloseFlag`, `JoinAndReset` are `Shutdown`: the reader is joined, the
publish thread is not, so the driver can vanish under it (`crashed`). What the process does after that, and the destruction of the joinable thread, which
would terminate it, are not followed further.

**ImuFrame.** Quaternions without their norm (the code divides it out), so that
the frame fix is exact integer arithmetic.

**Joy.** SDL is external: a queue of events, pads numbered by instance. The
handlers of joy.cc are one step each. A hat has its two axes written only in the
branches of `handleJoyHatMotion`, which is why an axis can keep a direction the
hat has left; the property says so. SDL's hats have nine positions
(`HatAssumption`), and each pad that is plugged in gets an instance id of its
own; `MaxPlug`, `MaxEvents` and `MaxInput` bound the model.

**JoyStick.** An iteration of `MainLoop` after its test is one step. The
quadratic program of the limiter is modelled by its solution: the last velocity
moved towards the target by at most `Limit`. joy_mybipedal.yaml calls the
parameter a limit of the twist velocity; the code bounds its change. Buttons are
indexed unchecked, so that the process dies (`alive`) when there is no pad.
joy_stick_module.cc:123 gives the target an entry for every axis of the pad, the limiter has three:
in the Release build (build.sh:11) Eigen then reads beyond `state_` into entries the solver
never looks at, which changes no velocity, and that is what `update` models; a Debug build would stop at the
first velocity.

**KeySource, Gpio, Oled.** `Gpio` polls each line with a step of its own, in the
order of the code, and sleeps in `confirm` and `settle`; contacts chatter for less than
50 ms, everything else takes any time. A contact that chattered when the thread fell asleep has
settled by the second read, one pressed or released during the sleep may still chatter
then (`began`). Lines that cannot be requested are modelled, a later read that fails (-1) is not. gpio_input.h:32 speaks of a degraded GPIO
thread; oled_module.cc:303 ends the module, and so does `KeySource`. `Oled` takes
any events such a source gives. A frame is the page it shows; a write may
fail and nobody looks.

**SimModule.** Only what decides life and death of the model: the load
handshake, the window, `running_`, `is_render_thread_running`, the viewer's mutex,
and the joint order `CmdCallback` learns from the first message. A joint missing
from the command reads index 0; loading a model that does not exist dereferences
null in `Start` (`crashed`); a window closed while the model loads leaves
`Start` waiting for ever, which `StartReturns` states as the exception it is.

## 3. Runs

Twelve runs, ten of which pass, each within about two and a half minutes on two
workers. Every property has a mutant of the code that breaks it.

| Run | Shows | Bounds, and why they are enough |
|---|---|---|
| `control` | mode switching: who decides a message, what a mode entry starts from, how a lost reset heals, the refinement of `ModeSwitch`, and that an accepted trigger reaches a message | the shipped modes, lists and graph; idle keeps its pose, the branch the other controllers leave out; a ramp of 2 steps and a decimation of 3, so that an iteration can overlap a callback before, in and after the ramp and a lost reset lasts several iterations; throttle of 2 ticks with lag 1, the tightest `OnTime` allows; one joint, because joints are commanded one after the other by the same controller (the safety properties are proved for any number) |
| `can_bus` | frames stay whole, and the refinement of `CommandPort` | two callers, two actuators, a queue of two frames: both contention on one slot and a full queue happen |
| `joint_driver` | what success and failure of `Initialize` and `Shutdown` mean, on buses that lose any frame or none, with senders that miss notifications; whose answers are stored for whom; units | two motors enabled and disabled in opposite orders, on one interface or two, one message besides the first command without gains: a callback can overlap `Shutdown` and motors can carry different commands; a queue of two frames, so that one-shots meet a full one on a lossy bus; configurations with a wrong device, bus, id or binding, one id under two buses of an interface included; limits 4 and 7, commands from -8 to 8, so that clipping and every rounding case occur at the real 65535 steps |
| `socket_can` | frames leave, nothing is written after `close` | two callers of one-shots, a loop, a queue of three |
| `imu_driver` | skew of ticks, freshness of reads, what `Shutdown` can break, the latest observation is published, the frame fix | two ticks and two losses: a commit during a read, a skew of one tick; every configuration of the frame fix on the turns of a cube |
| `feed` | what a controller holds and estimates, and the recorder | two joints that driver and control list in different orders, three messages (one after the first order is learnt, one to overlap a read, one more for the ring of two to go round), two switches so that the policy's mode is left and entered again, one IMU message |
| `joystick` | `joy_msg_` follows the pad; velocities change slowly; a held trigger and a held stick take effect | two pads plugged in at most, two events queued, six inputs: a button can be down when its pad goes, and pressed on the next one |
| `oled_input` | each press is answered once, directions, the refinement of `KeySource` | the operator waits while two events are queued; any number of moves between two reads |
| `oled` | the scroll bar, the dark panel, `Shutdown` returns | one clamped and the unclamped screen, content that grows from nothing to seven joints (more than fits), one event queued by the operator besides the wake-up |
| `simulator` | nobody reads a freed model, `Start` returns | three joints of the model, two of them commanded, in another order |

Runs that find a violation of something the repository states:

| Run | Property | Statement | What the code does |
|---|---|---|---|
| `socket_can_quiet` | `OneShotLeaves` | can_bus.cpp:200 | a notification without the mutex is lost and the frame waits for the next transmit |
| `imu_torn` | `NoTornRead` | imu_driver.cpp:176 | `continue` in a do-while tests `v0 != v1` with last round's odd `v1` |

`socket_can` and `socket_can_quiet` belong together: as long as some slot is repeated
(the robot is commanded) the next cycle delivers the frame, so the lost wakeup
matters only when nothing is repeated on an interface: while motors are being
enabled, and in `Shutdown` when the last motor of an interface is being disabled, because its slot was
zeroed too (can_bus.cpp:166, 197). `joint_driver` has both in it. An ENABLE that is stuck fails
`Initialize`; a STOP that is stuck leaves the motor on, see `ShutdownStopsMotors` below.

`feed` assumes `Prompt`. With `Prompt = FALSE` in `MCJointFeed.cfg` TLC violates
`NewestInOrder`: the sleep of debug_recorder.h:56 does not synchronise, it
only makes the torn row unlikely.

README.md:96 of the repository says that inference runs every 4th control cycle;
the shipped `decimation` is 20 (rl_mybipedal.yaml:93). The model has the
decimation as a constant.

What the passing runs show is also what they do not:

* `CleanEntry` holds for entries that no iteration overlaps. With an overlap
  `+=` or `++` in `MainLoop` can undo a reset, and the ramp is skipped. Nothing in
  the repository promises otherwise; `RecoversWithinDecimation` bounds the effect
  for the policy.
* `EstimateIsFresh` counts only IMU messages that found the policy in the mode:
  right after a walk entry the sample is whatever was held when the policy last ran.
* `SmoothCommands` excepts the first velocity after one was missed: after a
  walk entry the controller uses the velocity of the walk before, because
  releasing the dead-man button publishes no zero and the limiter is never reset.
* `HeldTriggerTaken` is about a button held alone: of two, the topic that comes
  first takes the throttle's window even when the mode machine rejects it.
* `HeldPressAnswered` excepts a press made while a release is being confirmed, and
  one held when the lines are first read: either may never be answered. The back
  button is not confirmed, so the chatter of its release can count as a press,
  although oled_module.cc:289 calls it debounced.
* `OnlyCaughtIterationCrashes` does not say that there is no crash: the iteration
  under way when `Shutdown` clears `is_running_` uses a driver that is being destroyed.
* `ShutdownStopsMotors` is about buses that lose nothing; on a lossy one
  `DisableAckTrue` says what a reported success means. It does not say that all motors are off:
  when the notification of the STOP for the motor visited last on an interface is missed,
  nothing wakes the sender, the poll times out, `DisableAll` returns (can_bus.cpp:214) and the module, which ignores
  the result, goes down with this motor and those after it on. The property says that this is
  the only way, that success is then not reported, and that every motor before that one is off.
* `OwnAnswers` does not say that a configuration with one id under two buses of an interface is refused:
  `InitDriver` accepts it. It says that `Initialize` then fails, because the motor whose callback was replaced is never seen enabled.

**Deadlock** is checked in `control` and `can_bus`. In the other
runs it is off because the modelled life really ends: `Shutdown` has returned, no
more frames or events arrive, or the process has died.

**Fairness.** Weak fairness of each thread's next step: an OS thread that can run
does. What people and the outside do is never owed, nor is `Shutdown` or an
exception.

* `ControlModule`: a callback under way, `MainLoop` and its start. `CanBus`,
  `CommandPort`, `RingTrace` and `JointFeed` state safety only.
* `JointDriver`: the main thread's steps, the loops, delivery and reception (which
  says nothing on a lossy bus, where `Lose` may take any frame), a callback
  under way; not `ShutdownBegin` or messages. A sender is owed its steps while it does not wait,
  and a notification it missed is never made up for. Buses that lose nothing send a cycle's frames, but for those behind a
  missed notification, before the next cycle (`BusKeepsUp`); `FireOnce` is strongly fair
  because room in the queue, which the real one always has on such a bus, comes and goes in one of two frames.
* `SocketCan`: notifications, the sender, the control loop's next transmit and
  `close` once begun.
* `ImuModule`: the reader finishes a commit it has begun and ends when told, the steps of `Shutdown`,
  `PublishLoop`. No frame is owed.
* `JoyStick`: the event thread, `MainLoop`, the end of `Shutdown`. `Gpio`: the polling
  thread, and that a contact settles. `Oled`: the GPIO thread opens its lines
  and ends, the UI loop, the stats thread, the sleep timeout expires, `Shutdown`.
* `SimModule`: `Prepare`, the render loop, the main thread, a callback under way; not the
  window's closing, not commands.

## 4. Proofs

All theorems hold for every value of the constants that satisfies the ASSUMEs of
the modules; TLC evaluates these in each run.

Every invariant and every action property that a passing run checks is proved, and
the three refinements; what TLC adds is that the statements say something on
the shipped values, the mutants, and liveness.

**ControlModule** (`ControlModule_proofs`). `Base` joins `TypeOK`, `LoopInv` (inside
an iteration the names are non-empty and `k` is one of their positions) and
`RestartInv` (during a restart `todo` is not empty and its head is of the kind of
controller the callback is at); it is inductive, and `TypeCorrect`
follows. Each further theorem adds the part it needs: `SettledInv` for
`SettledMode`; `AuthorityInv` (the joints of the running controller already computed
are commanded by it) for `OneAuthority`; `LatchInv`
(every PD controller of the mode is restarted or still in `todo`) for
`StartLatched`; `LateInv` for `AtMostOneLateCommand`. `GraphInv` relates the list
the loop runs to the list of the mode: they are equal, or one edge apart and no more
time has passed since the trigger than since the loop last copied the names. It needs `LoopOutrunsThrottle` and gives
`AppliedFollowsGraph` and, with `AbstractStep`, `Refinement`: every step of the two
threads is a step or a stutter of `ModeSwitch`.

*`CleanEntry`* counts messages in one thread against resets in another, so the proof
follows both. `Epoch`: an iteration that began after the callback runs the controllers
of the mode with an observation from after the trigger, and one that goes on while the
entry counts as clean is such an iteration. `Ramp`: the ramp of the controller that
decides the messages is rewound, or its reset is still to come, and then has one step for
every iteration; between the read and the write of `+=` it has the value the iteration
read. `RampGiven`: what the joints have been told is one step more than was published.
`PolicyEntry` and `PolicyGiven` say the same of a policy, up to and from its first inference.
`LastRunsOnce` keeps a second run of the controller out of an iteration.

*`RecoversWithinDecimation`* is about the entries `CleanEntry` leaves out, where the loop's
`++` or its clearing of the flag can undo a reset. `Stale`: a loop that is still at the list
of the mode before does not run this policy (`PolicyEntersFresh`), so what can be undone is undone
by the same mode's policy only. `Held`: between restarting the filters and clearing
the flag they are new. `Raised`: the filters restart at the next inference, or have
restarted since the trigger, or the flag is still to be raised. `Turn`: the `n`-th
iteration after the callback finds the counter at 0 or beyond `n`, so the inference has
not been missed; with `n` below the decimation it comes in time.

**CanBus, SocketCan** (`CanBus_proofs`). `TypeOK` and `WholeFrames` are not inductive: that the
loop copies a whole frame depends on who is writing. `Held` says who holds the
mutex, `Calls` that a call under way has an actuator and a frame of its kind,
`Slots` that only the slot being written holds a half-written or one-shot
frame. `WholeFrames` and `LoopNeverRepeatsOneShot` follow. `Refinement` shows each step
to be one of `CommandPort`: `WriteId` is `Set` or `Request`, `TransmitOnce` is `Fire`,
`LoopVisit` is `Repeat` or nothing, the others are invisible; the lemmas
`SeenAppend` and `SeenTail` say that the mapping of the queue commutes with its
operations. For the socket, `Closing` orders the steps of `close`: the
running flag is cleared first, the descriptor is closed only after the sender thread has
ended, and an ended sender does not come back. `NoWriteAfterClose` follows.

**JointDriver, Wiring, MotorUnits** (`JointDriver_proofs`). `Driven` is inductive for any set of motors,
any configurations, bus and number of messages. `Attached`, `Readable` and
`Stored` follow the configuration: the callback of an attached actuator's address is that of an actuator
there, an id is one actuator's within a bus, and answers are stored in the slot of that callback; they give the first
half of `OwnAnswers`. The other half is that a motor whose answers go elsewhere stays unseen:
`Clean` says that the answers of every attached motor are stored for it, `Seen` that an answer shows only in
a slot that is its own motor's, so that the polls of `Initialize` let no other wiring through. `EnableOnce`
and `Answered` are proved under `Clean`, which holds from there on.
`Sent` says which frames and answers can be on their way in which phase, the kinds the
callback still sends during `Shutdown` included; `EnableOnce` that a motor is asked once and is off until it has
obeyed; `Answered` what an answer tells: a polled status was true when it was sent, and after it nothing is
on its way that would change it. `ReadyMeansEnabled` and `DisableAckTrue` are `Answered` at the
end of the polls. From facts about integer division, a command
comes back from an obedient motor as its clipped self, less than one step away,
for every limit, resolution and direction (`CommandComesBack`);
`FollowersReportCommand` is the instance a run evaluates.

**JointFeed, RingTrace** (`JointFeed_proofs`). `Ring` says of the recorder that the rows of
the last `cap` pushes are whole, but for the one being written (`Recorded`), and that the
file holds the oldest rows of the count it announces (`Filed`, under `Prompt`); it gives
`NewestInOrder` for any capacity, and `FeedKeepsRing` carries it to the feed, whose
threads use the ring as `RingTrace` says. `Feed` is the invariant of the data path: `Sampled`
(the fields of a motor are of frames in order, but for the motor being read), `Mapped` (the
index map is the permutation of the first message's names), `Placed`, `Locked` (a
controller's data are of one message unless the callback holds its mutex), `Read` (what an
estimate has read is what is held), `Given` and `Served` (who has got the newest message),
`SinceThen` (what was complete when the estimate began has been delivered since). The four
properties are conclusions of parts of it.

**ImuDriver, ImuFrame, ImuModule** (`ImuModule_proofs`). `Counted` ties the version to the number of
commits, `Skewed` bounds the age of pending values by the frames lost so far, separately
for each flag (a tick that is over without a commit has lost a frame, and so has
each later tick that did not refresh the value). `Fresh` says that values only get
newer from the wire to the copy, `Copied` what the words copied so far have in common
with the stored ones as long as the version is the one the copy began at.
`SkewNeedsLosses`, `ReadsAreFresh` and `TornOnlyWhileCommitting` follow.
`ModuleKeepsDriver` shows that the module, with its
life cycle and a `Shutdown` at any moment, implements `ImuDriver`'s `Spec` (the actions on
the driver's variables are the driver's, all others leave them alone), so that the
driver's theorems hold for `ModuleSpec`, the specification the run checks. `Lives`
(the driver exists until `Shutdown` lets go of it; an iteration that was not caught is
over) is inductive and gives `OnlyCaughtIterationCrashes`. The frame fix: the corrected vector,
seen through the corrected orientation, is the original one in the world, up to the turn of the
world that the configuration asks for, for all integer quaternions and vectors
(`FrameFixKeepsWorld`); `FrameFixAgrees` is the instance a run evaluates.

**Joy, JoyStick** (`JoyStick_proofs`). That `joy_msg_` shows the pad when no event waits
depends on what the waiting events will do. `Told` is about SDL's queue: the last event
about an input tells where it is, and while an event that opens a pad waits, no input of
the pads that are plugged in has been handled or is before it. `Known`: the message of a pad that is
gone has a removal in the queue. `Cleared`: a pad about to be opened finds the message
cleared by then. `Shows`: an input of the open pad of which no event waits is in the
message. Their conjunction `JoyInv` is inductive, and `InStepWithPad` is `Shows` with the queue
empty. `Caught` (a walk controller that has missed nothing uses the limiter's velocity) gives
`SmoothCommands`, for any limit.

**Oled, Gpio** (`Oled_proofs`). `Life` (from `Shutdown` on `run_flag_` stays cleared) and
`Darkened` (once the panel was blanked in time, `MainLoop` is before its second test or over,
and writes nothing more) give `DarkAfterShutdown`; `BarInTrack` needs a lemma on quotients
(`Quotient`), that clamping leaves an offset within the content (`Clamped`), and that the content only grows.
For the controls, `Contacts` says where a settled line stands, `Unanswered` that a
held push contact the thread takes for open is unanswered, and one that moved during the sleep too (`InSleep`), `Edge` what one phase of the
encoder can have done since CLK was last read high; `OnePushPerPress` and `DirectionRight`
follow for any queue. `SourceRefinement` needs no invariant: each step of the thread is one of
`KeySource` or none.

**SimModule** (`SimModule_proofs`). `Ended` (the render thread has ended when it
says so), `Holding` (who is inside a step holds the mutex), `Loading` (what the
handshake has reached) and `Freeing` (the model is freed only after both) make
`NoUseAfterFree` inductive. `StepsWholeModel`, `OwnCommand` and
`GivesUpOnlyOnRender` are consequences of the same invariant.

Theorems about properties no run repeats, because the proof is the stronger
statement: `SettledMode`, `AtMostOneLateCommand`, `LoopNeverRepeatsOneShot`, `CommandComesBack`,
`TornOnlyWhileCommitting`, `FrameFixKeepsWorld`, `StepsWholeModel`, `OwnCommand`,
`GivesUpOnlyOnRender`, and the type invariants.

Only model-checked: liveness (`SwitchReachesRobot`, `ShutdownStopsMotors`, `FramesLeave`,
`LatestIsPublished`, `HeldTriggerTaken`, `SteeringTakesEffect`, `HeldPressAnswered`, `ShutdownReturns`,
`StartReturns`), which needs fairness and ENABLED and so is beyond TLAPS. `NewestInOrder` is proved
under `Prompt`, which it needs. Nothing is proved about mutants, nor about the two
runs that end in a violation.

## 5. Not modelled, and the plan

Not modelled, and why:

* the numbers of the policy (`ComputeObservation`, its history, the gait phase, ONNX):
  floating point without a statement to check them against;
* the layout of CAN frames, the parameters that configure a motor, the bytes and
  checksum of an IMU frame, its configuration commands: encodings that tests cover
  better, apart from the 16-bit one and the frame fix;
* the debug topics of `actuator_debug`, `enable_actuator: false`, setters nobody calls;
* SDL's haptic device and the service clients of the joystick (none is shipped);
* what a page of the display draws (in it, oled_module's `renderSBC` subtracts
  without a guard, and `pushLog` has no caller), and `SetThreadLowestPriority`,
  which renices its caller;
* physics and the viewer's other controls;
* module registration, messages, build files, third-party code.

The plan, done except for items 10 and 12.

1. `StateMachine`, `ControlModule`, `ModeSwitch`, with proofs.
2. `CommandPort`, `CanBus`, with proofs.
3. `JointDriver`: life cycle against callbacks and a lossy bus; `Wiring`; `MotorUnits`
   with a proof.
4. `SocketCan`: lost wakeups, closing, with a proof.
5. `ImuDriver`, `ImuFrame`, `ImuModule` with proofs.
6. `RingTrace`, `JointFeed`: from feedback to estimates.
7. `Joy`, `JoyStick`: hot-plugging, dead-man button, limiter.
8. `KeySource`, `Gpio`, `Oled`.
9. `SimModule` with proofs.
10. Composition of `ControlModule` and `JointDriver`: what the motors do after an
    exception ends `MainLoop` (today: the loop repeats the last command).
11. Proofs of every safety property the runs check.
12. `JointDriver` on the real `CanBus` in place of `CommandPort`, as a theorem: its
    properties hold for any bus that implements the port.
