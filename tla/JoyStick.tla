------------------------------ MODULE JoyStick ------------------------------
(***************************************************************************)
(* From the operator's hand to the mode machine and the walk controller:   *)
(* Joy, the 20 Hz MainLoop of JoyStickModule with its velocity limiter,    *)
(* and, inline in the same thread, the subscriptions of ControlModule to   *)
(* the trigger topics and to /cmd_vel_limiter.                             *)
(*                                                                         *)
(* An iteration after its test of run_flag_ is one step: it copies         *)
(* joy_msg_ under the mutex once, and what it does then is shared with no  *)
(* other thread of this module.                                            *)
(***************************************************************************)
EXTENDS Joy, StateMachine

CONSTANTS
  FloatPubs,   \* the topics of float_pubs, in file order
  ButtonOf,    \* topic -> its button
  DeadMan,     \* the button of twist_pubs
  Limit,       \* velocity_limit_ub / freq, what an iteration may add
  Interval,    \* iterations in the throttle's 1000 ms
  Walker       \* the controllers that read joy_data_ (rl_*)

ASSUME JoyStickAssumption ==
  /\ FloatPubs \in Seq(Topic) /\ ButtonOf \in [Topic -> Button] /\ DeadMan \in Button
  /\ Limit \in Nat \ {0} /\ Interval \in Nat \ {0} /\ Walker \subseteq Controller

VARIABLES
  mpc,        \* the main thread
  jpc,        \* MainLoop: "init", "check", "copy", "stopped"
  alive,      \* the process has not died
  run_flag,
  velocity,   \* state_ of the limiter
  elapsed,    \* iterations since last_trigger_time_, saturated
  joy_data,   \* walker -> the velocity it uses
  missed      \* walker -> a velocity was published while it was not current

loopVars == <<jpc, alive, velocity, elapsed, current_state_name, controllers, joy_data, missed>>
vars == <<joyVars, mpc, run_flag, loopVars>>

Init ==
  /\ JoyInit /\ SMInit
  /\ mpc = "init" /\ jpc = "init" /\ alive = TRUE /\ run_flag = TRUE
  /\ velocity = 0 /\ elapsed = Interval
  /\ joy_data = [c \in Walker |-> 0]
  /\ missed = [c \in Walker |-> FALSE]
-----------------------------------------------------------------------------
(* MainLoop *)
Clip(lb, x, ub) == IF x < lb THEN lb ELSE IF x > ub THEN ub ELSE x

(* Mutant of update: no lower bound is given to the program. *)
updateOneSided(target) == velocity + Clip(0, target - velocity, Limit)

(* The minimum of the limiter's quadratic program with diagonal Hessian is *)
(* the step to the target, cut off at the bounds.  The target vector has   *)
(* an entry for every axis of the pad, the limiter one for every axis of   *)
(* twist_pubs: in the Release build the difference with state_ reads       *)
(* beyond its end into entries the solver does not use, and the entries of *)
(* the twist are what they should be (a Debug build stops here).           *)
update(target) == velocity + Clip(-Limit, target - velocity, Limit)

(* Mutant of Trigger: a trigger inside the interval restarts it. *)
TriggerRestarts ==
  LET requests == SelectSeq(FloatPubs, LAMBDA t : buttons[ButtonOf[t]])
  IN  /\ elapsed' = IF requests # <<>> THEN 1
                    ELSE IF elapsed < Interval THEN elapsed + 1 ELSE elapsed
      /\ \/ /\ requests # <<>> /\ elapsed = Interval
            /\ \E m \in Mode : /\ OnEvent(Head(requests), m)
                               /\ current_state_name' = m
                               /\ controllers' = ControllersOf[m]
         \/ /\ ~ (requests # <<>> /\ elapsed = Interval /\ Accepts(Head(requests)))
            /\ UNCHANGED smVars

(* The pressed buttons' topics are published in order, and the first one   *)
(* takes the throttle's window, accepted or not.  The sleep follows.       *)
Trigger ==
  LET requests == SelectSeq(FloatPubs, LAMBDA t : buttons[ButtonOf[t]])
      passes   == requests # <<>> /\ elapsed = Interval
  IN  /\ elapsed' = IF passes THEN 1 ELSE IF elapsed < Interval THEN elapsed + 1 ELSE elapsed
      /\ \/ /\ passes
            /\ \E m \in Mode : /\ OnEvent(Head(requests), m)
                               /\ current_state_name' = m
                               /\ controllers' = ControllersOf[m]
         \/ /\ ~ (passes /\ Accepts(Head(requests)))
            /\ UNCHANGED smVars

(* Mutant of SetCmdData: the twist as it was before the limiter. *)
SetCmdDataRaw ==
  joy_data' = [c \in Walker |-> IF c \in Range(controllers') THEN axis.stick ELSE joy_data[c]]

(* The callback of /cmd_vel_limiter hands the velocity to the controllers  *)
(* of the current mode only.                                               *)
SetCmdData ==
  joy_data' = [c \in Walker |-> IF c \in Range(controllers') THEN velocity' ELSE joy_data[c]]

(* With the dead-man button released nothing is published, no zero either, *)
(* and the limiter keeps its state.                                        *)
Twist ==
  \/ /\ buttons[DeadMan]
     /\ velocity' = update(axis.stick)
     /\ SetCmdData
     /\ missed' = [c \in Walker |-> c \notin Range(controllers')]
  \/ /\ ~ buttons[DeadMan]
     /\ UNCHANGED <<velocity, joy_data, missed>>

(* while (run_flag_.load()); the promise is set when the loop ends. *)
Check ==
  /\ alive /\ jpc = "check"
  /\ jpc' = IF run_flag THEN "copy" ELSE "stopped"
  /\ UNCHANGED <<joyVars, mpc, run_flag, alive, velocity, elapsed, smVars, joy_data, missed>>

(* The buttons are indexed without a look at the vector's size: when no    *)
(* pad is open the copy is empty, its data() is null, and the read faults. *)
Iterate ==
  /\ alive /\ jpc = "copy"
  /\ \/ /\ buttons = NoMsg
        /\ alive' = FALSE
        /\ UNCHANGED <<jpc, velocity, elapsed, smVars, joy_data, missed>>
     \/ /\ buttons # NoMsg
        /\ Trigger
        /\ Twist
        /\ jpc' = "check"
        /\ UNCHANGED alive
  /\ UNCHANGED <<joyVars, mpc, run_flag>>
-----------------------------------------------------------------------------
(* The main thread *)
Start ==
  /\ alive /\ mpc = "init"
  /\ mpc' = "started" /\ jpc' = "check"
  /\ UNCHANGED <<joyVars, run_flag, alive, velocity, elapsed, smVars, joy_data, missed>>

ShutdownBegin ==
  /\ alive /\ mpc = "started"
  /\ mpc' = "wait" /\ run_flag' = FALSE
  /\ UNCHANGED <<joyVars, loopVars>>

(* stop_sig_.get_future().wait() *)
ShutdownEnds ==
  /\ alive /\ mpc = "wait" /\ jpc = "stopped"
  /\ mpc' = "returned"
  /\ UNCHANGED <<joyVars, run_flag, loopVars>>

EventThread == alive /\ mpc # "returned" /\ eventThread /\ UNCHANGED <<mpc, run_flag, loopVars>>
(* The framework ends the process when Shutdown has returned. *)
Environment ==
  /\ alive /\ mpc # "returned"
  /\ Operator
  /\ UNCHANGED <<mpc, run_flag, loopVars>>

Next ==
  \/ Environment \/ EventThread
  \/ Check \/ Iterate
  \/ Start \/ ShutdownBegin \/ ShutdownEnds

(* The loop sleeps for a period and then runs, events are handled as they  *)
(* come, and Shutdown goes on when the promise is set.  Nothing obliges    *)
(* the operator, nor the framework to begin or to end.                     *)
Spec ==
  /\ Init /\ [][Next]_vars
  /\ WF_vars(EventThread) /\ WF_vars(Check) /\ WF_vars(Iterate) /\ WF_vars(ShutdownEnds)
-----------------------------------------------------------------------------
(* Types. *)
TypeOK ==
  /\ JoyTypeOK
  /\ mpc \in {"init", "started", "wait", "returned"}
  /\ jpc \in {"init", "check", "copy", "stopped"}
  /\ alive \in BOOLEAN /\ run_flag \in BOOLEAN
  /\ current_state_name \in Mode /\ controllers \in ModeLists
  /\ velocity \in -Full .. Full /\ elapsed \in 0 .. Interval
  /\ joy_data \in [Walker -> -Full .. Full] /\ missed \in [Walker -> BOOLEAN]

(* joy_vel_limiter.cc limits what an iteration may add, and ControlModule  *)
(* hands velocities to current controllers only.  A walk controller sees   *)
(* a jump beyond the limit only with the first message after it missed     *)
(* one, that is after a walk entry, when it has walked on the velocity of  *)
(* the walk before.  While it walks the changes are limited, through any   *)
(* release of the dead-man button, replugging and pressing.                *)
SmoothCommands ==
  [][\A c \in Walker :
       ~ missed[c] => joy_data'[c] - joy_data[c] \in -Limit .. Limit]_vars

Operating == alive /\ run_flag /\ mpc = "started"

(* A button held alone is obeyed although the throttle rejects most of its *)
(* messages: in the end the machine is in a mode its topic does not leave. *)
(* (Held with another button whose topic comes first and is rejected, it   *)
(* may never be: the other takes every window, control_module.cc:36.)      *)
HeldTriggerTaken ==
  \A t \in Topic :
    <>[](Operating /\ buttons # NoMsg /\ buttons[ButtonOf[t]]
           /\ \A s \in Topic \ {t} : ~ buttons[ButtonOf[s]])
      => <>[](~ Accepts(t))

(* Steering takes effect: while a mode is kept, the dead-man button held   *)
(* and the stick still, the walk controller of the mode ends up with the   *)
(* stick's velocity, although the limiter starts from whatever it was left *)
(* at and the controller from whatever it received last.                   *)
SteeringTakesEffect ==
  \A c \in Walker : \A v \in {convertRawAxisValueToROS(raw) : raw \in Raw} :
    <>[](Operating /\ c \in Range(controllers) /\ buttons # NoMsg
           /\ buttons[DeadMan] /\ axis.stick = v)
      => <>[](joy_data[c] = v)
=============================================================================
