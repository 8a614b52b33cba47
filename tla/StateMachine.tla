--------------------------- MODULE StateMachine ---------------------------
(***************************************************************************)
(* The robot's mode machine, state_machine.h: the modes of the robot       *)
(* (idle, zero, stand, walk in the shipped configuration), the topic that  *)
(* requests each of them, the modes each may be entered from, and the      *)
(* controllers each runs.  The two variables are its two fields; they are  *)
(* changed by the module that owns the machine, because OnEvent writes     *)
(* them one after the other and another thread reads between.              *)
(***************************************************************************)
EXTENDS Integers, Sequences

CONSTANTS
  Mode,           \* the keys of robot_states
  Topic,          \* the trigger topics
  Controller,     \* the keys of controllers
  FirstMode,      \* the first key of robot_states
  StatesOf,       \* trigger_state_map_: topic -> its modes, in file order
  PreStates,      \* mode -> the modes it may be entered from
  ControllersOf   \* mode -> its controllers, in the order they run

ASSUME StateMachineAssumption ==
  /\ FirstMode \in Mode
  /\ StatesOf \in [Topic -> Seq(Mode)]
  /\ PreStates \in [Mode -> SUBSET Mode]
  /\ ControllersOf \in [Mode -> Seq(Controller) \ {<<>>}]

VARIABLES
  current_state_name,   \* current_state_name_
  controllers           \* controllers_

smVars == <<current_state_name, controllers>>

(* StateMachine::Init: the first mode of the file, with its controllers. *)
SMInit ==
  /\ current_state_name = FirstMode
  /\ controllers = ControllersOf[FirstMode]

(* Mutant of OnEvent: pre_states are not looked at. *)
OnEventAnywhere(topic, m) == \E i \in DOMAIN StatesOf[topic] : m = StatesOf[topic][i]

(* OnEvent(topic) accepts, and m is the mode it enters: the first mode of  *)
(* the topic whose pre_states hold the current mode.                       *)
OnEvent(topic, m) ==
  \E i \in DOMAIN StatesOf[topic] :
    /\ m = StatesOf[topic][i]
    /\ current_state_name \in PreStates[m]
    /\ \A h \in 1 .. (i - 1) :
         current_state_name \notin PreStates[StatesOf[topic][h]]

(* Some mode of the topic may be entered from the current one. *)
Accepts(topic) == \E m \in Mode : OnEvent(topic, m)

ModeLists == {ControllersOf[m] : m \in Mode}

(* Two lists name consecutive modes of the graph the file draws. *)
ModeEdge(from, to) ==
  \E m, n \in Mode :
    /\ from = ControllersOf[m]
    /\ to = ControllersOf[n]
    /\ m \in PreStates[n]
=============================================================================
