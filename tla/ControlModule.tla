--------------------------- MODULE ControlModule ---------------------------
(***************************************************************************)
(* Mode switching against the control loop.                                *)
(*                                                                         *)
(* Two threads share the mode machine and the controllers' state:          *)
(*   - the joystick thread runs the trigger callbacks of ControlModule     *)
(*     inline: throttle, OnEvent, then RestartController of each           *)
(*     controller of the new mode;                                         *)
(*   - the control thread runs MainLoop: copy the controller names, then   *)
(*     Update and GetJointCmdData of each, merged into one JointCommand,   *)
(*     which is published.                                                 *)
(* Only controllers_ is behind a mutex.  The fields RestartController      *)
(* resets are plain, so each read and each write of them is a step here,   *)
(* and x += d or x++ is a read step followed by a write step.              *)
(*                                                                         *)
(* Angles are abstracted to their age: "new" when captured since the       *)
(* latest accepted trigger, "old" before that.  Time is counted in ticks   *)
(* that divide the throttle's interval; only the ticks since the last      *)
(* trigger that passed the throttle are observable, and they saturate.     *)
(***************************************************************************)
EXTENDS StateMachine, FiniteSets

CONSTANTS
  Joint,        \* joint_list
  PD,           \* the controllers named pd_*; all others are rl_*
  Keep,         \* the PD controllers with is_keep_controller
  JointsOf,     \* controller -> its joint_list
  Interval,     \* ticks in the throttle's 1000 ms
  RampSteps,    \* Update calls until trans_mode_percent_ is 1 (2000 in the code)
  Decimation,   \* walk_step_conf.decimation
  MaxLag        \* ticks a MainLoop period may last (see OnTime)

ASSUME ControlAssumption ==
  /\ PD \subseteq Controller
  /\ Keep \subseteq PD
  /\ JointsOf \in [Controller -> SUBSET Joint]
  /\ Interval \in Nat \ {0}
  /\ RampSteps \in Nat \ {0}
  /\ Decimation \in Nat \ {0}
  /\ MaxLag \in Nat

(* The shipped configuration: the controller that runs last in a mode      *)
(* commands every joint.                                                   *)
ASSUME LastCoversJoints ==
  \A m \in Mode : JointsOf[ControllersOf[m][Len(ControllersOf[m])]] = Joint

(* The shipped configuration: the controller that runs last in a mode runs *)
(* once in it, ...                                                         *)
ASSUME LastRunsOnce ==
  \A m \in Mode : \A i \in 1 .. Len(ControllersOf[m]) - 1 :
    ControllersOf[m][i] # ControllersOf[m][Len(ControllersOf[m])]

(* ... and a mode that a policy decides is not entered from one that runs  *)
(* this policy: no iteration is in its Update when the mode is entered.    *)
ASSUME PolicyEntersFresh ==
  \A m, n \in Mode :
    LET last == ControllersOf[n][Len(ControllersOf[n])]
    IN  m \in PreStates[n] /\ last \notin PD =>
          \A i \in DOMAIN ControllersOf[m] : ControllersOf[m][i] # last

(* The control loop outruns the throttle. *)
ASSUME LoopOutrunsThrottle == MaxLag < Interval

VARIABLES
  \* the joystick thread, in a trigger callback
  elapsed,         \* ticks since last_trigger_time_, saturated at Interval
  tpc,             \* where the callback is
  todo,            \* the controllers still to restart
  \* the control thread, in MainLoop
  pc,              \* where the loop is
  names,           \* controller_names
  k,               \* the position in names
  jleft,           \* the joints GetJointCmdData has still to compute
  reg,             \* the value read by an unfinished += or ++
  obs,             \* age of the observation the next action is computed from
  cmd_msg,         \* cmd_msg, kept from one iteration to the next
  lag,             \* ticks since the latest copy of the names
  \* the module and its controllers
  run_flag,
  start,           \* start_joint_angles_ of a PD controller
  percent,         \* trans_mode_percent_, counted in Update calls
  is_first_frame,
  loop_count,      \* loop_count_ % Decimation, the only way it is used
  actions,         \* actions_
  lpf,             \* the history of low_pass_filters_
  \* history, read by the properties only
  entered,         \* a trigger has been accepted
  clean,           \* no iteration overlapped the latest accepted callback
  post,            \* this iteration began after that callback ended
  since,           \* such iterations published so far, saturated
  late             \* messages published after Shutdown, saturated

modeVars == <<current_state_name, controllers, elapsed, tpc, todo>>
loopVars == <<pc, names, k, jleft, reg, obs, cmd_msg, lag>>
pdVars   == <<start, percent>>
rlVars   == <<is_first_frame, loop_count, actions, lpf>>
history  == <<entered, clean, post, since, late>>
vars     == <<modeVars, loopVars, run_flag, pdVars, rlVars, history>>

RL      == Controller \ PD
Age     == {"old", "new"}
Action  == {"none", "zero", "old", "new"}
SinceCap == RampSteps + Decimation

LoopIdle == {"init", "check", "sleep", "stopped"}
TriggerPC == {"idle", "swap", "restart", "percent", "count", "zero"}
LoopPC == LoopIdle \cup {"update", "pdwrite", "observe", "clear", "act",
                         "count", "countwr", "get"}

(* What one joint is told: by which controller, from where its trajectory  *)
(* starts (start_joint_angles_, or the filter's history), how far along    *)
(* the ramp it is, and the age of the policy's action.                     *)
Command == [by : Controller \cup {"none"}, from : Age, at : 0 .. RampSteps, act : Action]
NoCommand == [by |-> "none", from |-> "old", at |-> 0, act |-> "none"]

AtMost(bound, n) == IF n < bound THEN n ELSE bound

Init ==
  /\ SMInit
  /\ elapsed = 0 /\ tpc = "idle" /\ todo = <<>>
  /\ pc = "init" /\ names = <<>> /\ k = 1 /\ jleft = {} /\ reg = 0
  /\ obs = "old" /\ lag = 0
  /\ cmd_msg = [j \in Joint |-> NoCommand]
  /\ run_flag = TRUE
  /\ start = [c \in PD |-> "old"]
  /\ percent = [c \in PD |-> 0]
  /\ is_first_frame = [c \in RL |-> TRUE]
  /\ loop_count = [c \in RL |-> 0]
  /\ actions = [c \in RL |-> "zero"]
  /\ lpf = [c \in RL |-> "old"]
  /\ entered = FALSE /\ clean = FALSE /\ post = FALSE /\ since = 0 /\ late = 0
-----------------------------------------------------------------------------
(* The joystick thread *)

(* An accepted trigger starts a new epoch: what was captured is now old. *)
Aged(x) == IF x = "new" THEN "old" ELSE x
AgedAll(f) == [c \in DOMAIN f |-> Aged(f[c])]

(* Mutant of TriggerAccepted: the throttle is not consulted. *)
TriggerUnthrottled(topic) ==
  /\ tpc = "idle"
  /\ elapsed' = 0
  /\ \E m \in Mode : OnEvent(topic, m) /\ current_state_name' = m
  /\ tpc' = "swap"
  /\ start' = AgedAll(start) /\ actions' = AgedAll(actions)
  /\ lpf' = AgedAll(lpf) /\ obs' = Aged(obs)
  /\ entered' = TRUE /\ clean' = (pc \in LoopIdle) /\ post' = FALSE /\ since' = 0
  /\ UNCHANGED <<controllers, todo, pc, names, k, jleft, reg, cmd_msg, lag,
                 run_flag, percent, is_first_frame, loop_count, late>>

(* Throttler: once the interval has passed the trigger takes the window,   *)
(* whether or not OnEvent then accepts it.  OnEvent writes the mode first, *)
(* outside the mutex.                                                      *)
TriggerAccepted(topic) ==
  /\ tpc = "idle"
  /\ elapsed = Interval
  /\ elapsed' = 0
  /\ \E m \in Mode : OnEvent(topic, m) /\ current_state_name' = m
  /\ tpc' = "swap"
  /\ start' = AgedAll(start)
  /\ actions' = AgedAll(actions)
  /\ lpf' = AgedAll(lpf)
  /\ obs' = Aged(obs)
  /\ entered' = TRUE
  /\ clean' = (pc \in LoopIdle)
  /\ post' = FALSE
  /\ since' = 0
  /\ UNCHANGED <<controllers, todo, pc, names, k, jleft, reg, cmd_msg, lag,
                 run_flag, percent, is_first_frame, loop_count, late>>

TriggerRejected(topic) ==
  /\ tpc = "idle"
  /\ elapsed = Interval
  /\ ~ Accepts(topic)
  /\ elapsed' = 0
  /\ UNCHANGED <<current_state_name, controllers, tpc, todo, loopVars,
                 run_flag, pdVars, rlVars, history>>

(* Mutant of Swap: OnEvent changes the mode and not the controllers. *)
SwapNameOnly ==
  /\ tpc = "swap"
  /\ todo' = controllers
  /\ tpc' = "restart"
  /\ UNCHANGED <<current_state_name, controllers, elapsed, loopVars, run_flag, pdVars, rlVars, history>>

(* OnEvent, under the mutex; the callback then copies the names back. *)
Swap ==
  /\ tpc = "swap"
  /\ controllers' = ControllersOf[current_state_name]
  /\ todo' = ControllersOf[current_state_name]
  /\ tpc' = "restart"
  /\ UNCHANGED <<current_state_name, elapsed, loopVars, run_flag, pdVars, rlVars, history>>

(* Mutant of RestartNext: only the first controller is restarted. *)
RestartOnlyFirst == todo' = <<>> /\ tpc' = "idle"

(* The callback's loop goes on to the next controller, or returns. *)
RestartNext ==
  /\ todo' = Tail(todo)
  /\ tpc' = IF Len(todo) = 1 THEN "idle" ELSE "restart"

(* PDController::RestartController: the angles under the mutex, then the   *)
(* ramp without it.                                                        *)
RestartStart ==
  /\ tpc = "restart" /\ Head(todo) \in PD
  /\ start' = [start EXCEPT ![Head(todo)] = "new"]
  /\ tpc' = "percent"
  /\ UNCHANGED <<current_state_name, controllers, elapsed, todo, loopVars,
                 run_flag, percent, rlVars, history>>

(* Mutant of RestartPercent: the ramp is not rewound. *)
RestartKeepsPercent ==
  /\ tpc = "percent"
  /\ RestartNext
  /\ UNCHANGED <<current_state_name, controllers, elapsed, loopVars,
                 run_flag, pdVars, rlVars, history>>

RestartPercent ==
  /\ tpc = "percent"
  /\ percent' = [percent EXCEPT ![Head(todo)] = 0]
  /\ RestartNext
  /\ UNCHANGED <<current_state_name, controllers, elapsed, loopVars,
                 run_flag, start, rlVars, history>>

(* Mutant of RestartFirstFrame: the flag is not raised again. *)
RestartKeepsFrame ==
  /\ tpc = "restart" /\ Head(todo) \in RL
  /\ tpc' = "count"
  /\ UNCHANGED <<current_state_name, controllers, elapsed, todo, loopVars,
                 run_flag, pdVars, rlVars, history>>

(* RLController::RestartController, field by field. *)
RestartFirstFrame ==
  /\ tpc = "restart" /\ Head(todo) \in RL
  /\ is_first_frame' = [is_first_frame EXCEPT ![Head(todo)] = TRUE]
  /\ tpc' = "count"
  /\ UNCHANGED <<current_state_name, controllers, elapsed, todo, loopVars,
                 run_flag, pdVars, loop_count, actions, lpf, history>>

RestartCount ==
  /\ tpc = "count"
  /\ loop_count' = [loop_count EXCEPT ![Head(todo)] = 0]
  /\ tpc' = "zero"
  /\ UNCHANGED <<current_state_name, controllers, elapsed, todo, loopVars,
                 run_flag, pdVars, is_first_frame, actions, lpf, history>>

RestartActions ==
  /\ tpc = "zero"
  /\ actions' = [actions EXCEPT ![Head(todo)] = "zero"]
  /\ RestartNext
  /\ UNCHANGED <<current_state_name, controllers, elapsed, loopVars,
                 run_flag, pdVars, is_first_frame, loop_count, lpf, history>>

Callback == Swap \/ RestartStart \/ RestartPercent \/ RestartFirstFrame
              \/ RestartCount \/ RestartActions
-----------------------------------------------------------------------------
(* The control thread *)

running == names[k]   \* the controller the loop is at

Start ==
  /\ pc = "init"
  /\ pc' = "check"
  /\ lag' = 0
  /\ UNCHANGED <<modeVars, names, k, jleft, reg, obs, cmd_msg, run_flag,
                 pdVars, rlVars, history>>

(* while (run_flag_) *)
Check ==
  /\ pc = "check"
  /\ pc' = IF run_flag THEN "sleep" ELSE "stopped"
  /\ UNCHANGED <<modeVars, names, k, jleft, reg, obs, cmd_msg, lag, run_flag,
                 pdVars, rlVars, history>>

(* The period's sleep ends and the names are copied, under the mutex. *)
Snapshot ==
  /\ pc = "sleep"
  /\ names' = controllers
  /\ k' = 1
  /\ pc' = "update"
  /\ lag' = 0
  /\ clean' = (clean /\ tpc = "idle")
  /\ post' = (tpc = "idle")
  /\ UNCHANGED <<modeVars, jleft, reg, obs, cmd_msg, run_flag, pdVars, rlVars,
                 entered, since, late>>

ToGet ==
  /\ pc' = "get"
  /\ jleft' = JointsOf[running]

(* PDController::Update *)
UpdateKeep ==
  /\ pc = "update" /\ running \in Keep
  /\ ToGet
  /\ UNCHANGED <<modeVars, names, k, reg, obs, cmd_msg, lag, run_flag,
                 pdVars, rlVars, history>>

UpdateRead ==
  /\ pc = "update" /\ running \in PD \ Keep
  /\ reg' = percent[running]
  /\ pc' = "pdwrite"
  /\ UNCHANGED <<modeVars, names, k, jleft, obs, cmd_msg, lag, run_flag,
                 pdVars, rlVars, history>>

(* Mutant of UpdateWrite: the ramp is not capped at 1. *)
UpdateUncapped ==
  /\ pc = "pdwrite"
  /\ percent' = [percent EXCEPT ![running] = reg + 1]
  /\ ToGet
  /\ UNCHANGED <<modeVars, names, k, reg, obs, cmd_msg, lag, run_flag, start,
                 rlVars, history>>

UpdateWrite ==
  /\ pc = "pdwrite"
  /\ percent' = [percent EXCEPT ![running] = AtMost(RampSteps, reg + 1)]
  /\ ToGet
  /\ UNCHANGED <<modeVars, names, k, reg, obs, cmd_msg, lag, run_flag, start,
                 rlVars, history>>

(* RLController::Update: the policy runs every Decimation-th call. *)
UpdatePolicy ==
  /\ pc = "update" /\ running \in RL
  /\ pc' = IF loop_count[running] = 0 THEN "observe" ELSE "count"
  /\ UNCHANGED <<modeVars, names, k, jleft, reg, obs, cmd_msg, lag, run_flag,
                 pdVars, rlVars, history>>

(* ComputeObservation: on the first frame the filters restart at the       *)
(* measured pose, and then the flag is cleared.                            *)
Observe ==
  /\ pc = "observe"
  /\ obs' = "new"
  /\ \/ /\ is_first_frame[running]
        /\ lpf' = [lpf EXCEPT ![running] = "new"]
        /\ pc' = "clear"
     \/ /\ ~ is_first_frame[running]
        /\ UNCHANGED lpf
        /\ pc' = "act"
  /\ UNCHANGED <<modeVars, names, k, jleft, reg, cmd_msg, lag, run_flag,
                 pdVars, is_first_frame, loop_count, actions, history>>

ClearFirstFrame ==
  /\ pc = "clear"
  /\ is_first_frame' = [is_first_frame EXCEPT ![running] = FALSE]
  /\ pc' = "act"
  /\ UNCHANGED <<modeVars, names, k, jleft, reg, obs, cmd_msg, lag, run_flag,
                 pdVars, loop_count, actions, lpf, history>>

(* ComputeActions; the inference session may throw, which ends MainLoop. *)
ComputeActions ==
  /\ pc = "act"
  /\ actions' = [actions EXCEPT ![running] = obs]
  /\ pc' = "count"
  /\ UNCHANGED <<modeVars, names, k, jleft, reg, obs, cmd_msg, lag, run_flag,
                 pdVars, is_first_frame, loop_count, lpf, history>>

InferenceThrows ==
  /\ pc = "act"
  /\ pc' = "stopped"
  /\ UNCHANGED <<modeVars, names, k, jleft, reg, obs, cmd_msg, lag, run_flag,
                 pdVars, rlVars, history>>

(* loop_count_++ *)
CountRead ==
  /\ pc = "count"
  /\ reg' = loop_count[running]
  /\ pc' = "countwr"
  /\ UNCHANGED <<modeVars, names, k, jleft, obs, cmd_msg, lag, run_flag,
                 pdVars, rlVars, history>>

CountWrite ==
  /\ pc = "countwr"
  /\ loop_count' = [loop_count EXCEPT ![running] = (reg + 1) % Decimation]
  /\ ToGet
  /\ UNCHANGED <<modeVars, names, k, reg, obs, cmd_msg, lag, run_flag, pdVars,
                 is_first_frame, actions, lpf, history>>

(* GetJointCmdData of one joint, merged into the message: the ramp from    *)
(* start_joint_angles_, or the action through the filter.                  *)
JointCommand ==
  IF running \in PD
  THEN [by |-> running, from |-> start[running], act |-> "none",
        at |-> IF running \in Keep THEN 0 ELSE percent[running]]
  ELSE [by |-> running, from |-> lpf[running], act |-> actions[running], at |-> 0]

(* Mutant of GetJoint: the first controller of the list wins. *)
GetJointFirstWins(j) ==
  /\ pc = "get" /\ j \in jleft
  /\ cmd_msg' = IF k = 1 THEN [cmd_msg EXCEPT ![j] = JointCommand] ELSE cmd_msg
  /\ jleft' = jleft \ {j}
  /\ UNCHANGED <<modeVars, pc, names, k, reg, obs, lag, run_flag, pdVars,
                 rlVars, history>>

GetJoint(j) ==
  /\ pc = "get" /\ j \in jleft
  /\ cmd_msg' = [cmd_msg EXCEPT ![j] = JointCommand]
  /\ jleft' = jleft \ {j}
  /\ UNCHANGED <<modeVars, pc, names, k, reg, obs, lag, run_flag, pdVars,
                 rlVars, history>>

NextController ==
  /\ pc = "get" /\ jleft = {} /\ k < Len(names)
  /\ k' = k + 1
  /\ pc' = "update"
  /\ UNCHANGED <<modeVars, names, jleft, reg, obs, cmd_msg, lag, run_flag,
                 pdVars, rlVars, history>>

(* The message is complete and is about to be published. *)
AtPublish == pc = "get" /\ jleft = {} /\ k = Len(names)

Publish ==
  /\ AtPublish
  /\ pc' = "check"
  /\ since' = IF post THEN AtMost(SinceCap, since + 1) ELSE since
  /\ late' = IF run_flag THEN late ELSE AtMost(2, late + 1)
  /\ UNCHANGED <<modeVars, names, k, jleft, reg, obs, cmd_msg, lag, run_flag,
                 pdVars, rlVars, entered, clean, post>>

LoopStep ==
  \/ Check \/ Snapshot \/ UpdateKeep \/ UpdateRead \/ UpdateWrite
  \/ UpdatePolicy \/ Observe \/ ClearFirstFrame \/ ComputeActions
  \/ InferenceThrows \/ CountRead \/ CountWrite
  \/ (\E j \in Joint : GetJoint(j)) \/ NextController \/ Publish
-----------------------------------------------------------------------------
(* The framework's main thread, and time *)

Shutdown ==
  /\ pc # "init" /\ run_flag
  /\ run_flag' = FALSE
  /\ UNCHANGED <<modeVars, loopVars, pdVars, rlVars, history>>

(* The scheduling the deployment counts on: a callback (microseconds) ends *)
(* before the next tick, and the loop copies the names at least every      *)
(* MaxLag ticks (it runs at 1 kHz, the throttle lets one trigger through   *)
(* per second).                                                            *)
OnTime ==
  /\ tpc = "idle"
  /\ pc \in {"init", "stopped"} \/ lag < MaxLag

Tick ==
  /\ OnTime
  /\ elapsed' = AtMost(Interval, elapsed + 1)
  /\ lag' = AtMost(MaxLag, lag + 1)
  /\ <<elapsed', lag'>> # <<elapsed, lag>>
  /\ UNCHANGED <<current_state_name, controllers, tpc, todo, pc, names, k,
                 jleft, reg, obs, cmd_msg, run_flag, pdVars, rlVars, history>>

Next ==
  \/ \E topic \in Topic : TriggerAccepted(topic) \/ TriggerRejected(topic)
  \/ Callback
  \/ Start
  \/ LoopStep
  \/ Shutdown
  \/ Tick

(* The threads run: the callback finishes what it began, the executor      *)
(* starts MainLoop, and MainLoop goes on while it has a step.  Triggers,   *)
(* Shutdown and an exception are never owed.                               *)
Fairness ==
  /\ WF_vars(Callback)
  /\ WF_vars(Start)
  /\ WF_vars(LoopStep)

Spec == Init /\ [][Next]_vars /\ Fairness
-----------------------------------------------------------------------------
(* Types. *)
TypeOK ==
  /\ current_state_name \in Mode
  /\ controllers \in Seq(Controller)
  /\ elapsed \in 0 .. Interval
  /\ tpc \in TriggerPC
  /\ todo \in Seq(Controller)
  /\ pc \in LoopPC
  /\ names \in Seq(Controller)
  /\ k \in Nat \ {0}
  /\ jleft \in SUBSET Joint
  /\ reg \in Nat
  /\ obs \in Age
  /\ cmd_msg \in [Joint -> Command]
  /\ lag \in 0 .. MaxLag
  /\ run_flag \in BOOLEAN
  /\ start \in [PD -> Age]
  /\ percent \in [PD -> 0 .. RampSteps]
  /\ is_first_frame \in [RL -> BOOLEAN]
  /\ loop_count \in [RL -> 0 .. Decimation - 1]
  /\ actions \in [RL -> Action]
  /\ lpf \in [RL -> Age]
  /\ entered \in BOOLEAN /\ clean \in BOOLEAN /\ post \in BOOLEAN
  /\ since \in 0 .. SinceCap
  /\ late \in 0 .. 2

(* Between callbacks the controllers that run are those of the mode: no    *)
(* interleaving of OnEvent's two writes leaves one without the other.      *)
SettledMode == tpc = "idle" => controllers = ControllersOf[current_state_name]

Decider == names[Len(names)]   \* the controller that runs last

(* Every joint of a published message is commanded by one controller, the  *)
(* last of one mode's list, although the message object is reused from     *)
(* iteration to iteration and the mode may change while it is filled.      *)
OneAuthority ==
  AtPublish => /\ \E m \in Mode : names = ControllersOf[m]
               /\ \A j \in Joint : cmd_msg[j].by = Decider

(* When a callback has returned, every PD controller of the mode ramps     *)
(* from an angle captured after the trigger, whatever MainLoop was doing.  *)
StartLatched ==
  entered /\ tpc = "idle" =>
    \A i \in DOMAIN controllers : controllers[i] \in PD => start[controllers[i]] = "new"

(* The first message computed after a callback, if no iteration overlapped *)
(* the callback, is a fresh start: a PD controller is one ramp step from    *)
(* the captured pose on every joint (the n-th message is n steps from it), *)
(* and the policy's comes from an inference made after the trigger,        *)
(* through filters restarted at the measured pose.  (When an iteration     *)
(* overlaps, += and ++ can undo the resets: the code has no defence.)      *)
CleanEntry ==
  AtPublish /\ clean /\ post =>
    \A j \in Joint :
      /\ Decider \in PD \ Keep => /\ cmd_msg[j].from = "new"
                                  /\ cmd_msg[j].at = AtMost(RampSteps, since + 1)
      /\ Decider \in RL => cmd_msg[j].from = "new" /\ cmd_msg[j].act = "new"

(* Even when an iteration overlapped the callback, and ++ undid the reset  *)
(* of loop_count_ or the flag was cleared under it, the policy has         *)
(* restarted by the Decimation-th message after the callback.              *)
RecoversWithinDecimation ==
  AtPublish /\ post /\ since + 1 >= Decimation /\ Decider \in RL =>
    \A j \in Joint : cmd_msg[j].from = "new" /\ cmd_msg[j].act = "new"

(* Shutdown lets at most the message in progress out. *)
AtMostOneLateCommand == late <= 1

(* The controllers MainLoop runs follow the edges of the mode graph: the   *)
(* throttle never lets two switches fall between two copies of the names.  *)
AppliedFollowsGraph ==
  [][names # <<>> /\ names' # names => ModeEdge(names, names')]_names

(* ModeSwitch, with what the two threads share: the whole interleaving of  *)
(* callbacks and iterations implements the abstract machine.               *)
Abstract == INSTANCE ModeSwitch WITH
  First   <- ControllersOf[FirstMode],
  Edges   <- {e \in ModeLists \X ModeLists : ModeEdge(e[1], e[2])},
  chosen  <- controllers,
  applied <- names,
  phase   <- CASE pc = "init" -> "before" [] pc = "stopped" -> "ended" [] OTHER -> "on"

ImplementsModeSwitch == Abstract!Spec

(* An accepted trigger reaches the robot: a message of the mode's own      *)
(* controllers is completed, unless MainLoop has ended or never began.     *)
SwitchReachesRobot ==
  \A m \in Mode :
    (tpc = "swap" /\ current_state_name = m /\ pc # "init") ~>
      \/ AtPublish /\ names = ControllersOf[m]
      \/ pc = "stopped"
=============================================================================
