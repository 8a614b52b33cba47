-------------------------------- MODULE Joy --------------------------------
(***************************************************************************)
(* The joystick as the event thread of joy.cc sees it: SDL queues what     *)
(* happens to the pads, and the thread keeps joy_msg_ in step with the pad *)
(* of device index 0, which may be unplugged and plugged in again.         *)
(*                                                                         *)
(* SDL is external: it gives each pad an instance id when it is plugged    *)
(* in, reports the inputs of open pads only, and numbers the pads of its   *)
(* list from 0.  A pad has all the configured buttons and one stick axis,  *)
(* followed by the two axes of its hat.  The flags publish_soon_ and       *)
(* is_update_ are left out: they decide how long the thread waits for the  *)
(* next event, and nothing else reads them.                                *)
(***************************************************************************)
EXTENDS Integers, Sequences, SequencesExt

CONSTANTS
  Button,      \* the buttons of a pad
  Raw,         \* the stick positions SDL reports
  MaxRaw,      \* 32767
  DeadZone,    \* unscaled_deadzone_
  Hat,         \* the hat positions: sets of directions
  MaxPlug,     \* pads plugged in
  MaxEvents,   \* events queued at a time
  MaxInput     \* what the operator does; the last three bound the model

ASSUME JoyAssumption ==
  /\ MaxRaw \in Nat /\ DeadZone \in 0 .. MaxRaw
  /\ Raw \subseteq -MaxRaw - 1 .. MaxRaw /\ 0 \in Raw
  /\ Hat \subseteq SUBSET {"left", "right", "up", "down"} /\ {} \in Hat
  /\ MaxPlug \in Nat \ {0} /\ MaxEvents \in Nat /\ MaxInput \in Nat

(* SDL's hats have nine positions: none points two opposite ways.          *)
ASSUME HatAssumption ==
  \A h \in Hat : ~ {"left", "right"} \subseteq h /\ ~ {"up", "down"} \subseteq h

VARIABLES
  \* SDL
  plugged,   \* the instance ids of the pads, by device index
  opened,    \* the pads with an open handle
  plugs,     \* pads plugged in so far: the next instance id
  inputs,    \* pads plugged in and out and inputs reported so far
  down, stick, hat,   \* instance id -> what SDL reported last
  events,    \* SDL's queue
  \* Joy
  joystick,              \* joystick_: the instance it is a handle of, or NoPad
  joystick_instance_id,
  buttons, axis          \* joy_msg_

sdlVars == <<plugged, opened, plugs, inputs, down, stick, hat, events>>
padVars == <<joystick, joystick_instance_id, buttons, axis>>
joyVars == <<sdlVars, padVars>>

Pad   == 0 .. MaxPlug - 1
NoPad == -1
NoMsg == <<>>    \* a vector of size 0
Axes  == {"stick", "x", "y"}
Full  == MaxRaw - DeadZone   \* 1.0

(* Forward and left are negative for SDL and positive here; a value is a   *)
(* multiple of 1 / Full.                                                   *)
convertRawAxisValueToROS(raw) ==
  LET val == IF raw = -MaxRaw - 1 THEN -MaxRaw ELSE raw
  IN  IF val > DeadZone THEN DeadZone - val
      ELSE IF val < -DeadZone THEN -(val + DeadZone) ELSE 0

JoyInit ==
  /\ plugged = <<>> /\ opened = {} /\ plugs = 0 /\ inputs = 0 /\ events = <<>>
  /\ down = [i \in Pad |-> {}]
  /\ stick = [i \in Pad |-> 0]
  /\ hat = [i \in Pad |-> {}]
  /\ joystick = NoPad /\ joystick_instance_id = 0
  /\ buttons = NoMsg /\ axis = NoMsg
-----------------------------------------------------------------------------
(* SDL *)
Queue(e) == Len(events) < MaxEvents /\ events' = Append(events, e)

PlugIn ==
  /\ plugs < MaxPlug
  /\ plugged' = Append(plugged, plugs)
  /\ plugs' = plugs + 1
  /\ Queue([type |-> "added", which |-> Len(plugged)])
  /\ UNCHANGED <<opened, down, stick, hat, padVars>>

Unplug ==
  \E i \in DOMAIN plugged :
    /\ plugged' = RemoveAt(plugged, i)
    /\ Queue([type |-> "removed", which |-> plugged[i]])
    /\ UNCHANGED <<opened, plugs, down, stick, hat, padVars>>

(* One change of an open pad is reported. *)
Report ==
  /\ \E p \in Range(plugged) \cap opened :
       \/ \E b \in Button :
            /\ down' = [down EXCEPT ![p] = IF b \in @ THEN @ \ {b} ELSE @ \cup {b}]
            /\ Queue([type |-> "button", which |-> p, button |-> b, down |-> b \notin down[p]])
            /\ UNCHANGED <<stick, hat>>
       \/ \E raw \in Raw \ {stick[p]} :
            /\ stick' = [stick EXCEPT ![p] = raw]
            /\ Queue([type |-> "axis", which |-> p, value |-> raw])
            /\ UNCHANGED <<down, hat>>
       \/ \E h \in Hat \ {hat[p]} :
            /\ hat' = [hat EXCEPT ![p] = h]
            /\ Queue([type |-> "hat", which |-> p, value |-> h])
            /\ UNCHANGED <<down, stick>>
  /\ UNCHANGED <<plugged, opened, plugs, padVars>>

Operator ==
  /\ inputs < MaxInput /\ inputs' = inputs + 1
  /\ PlugIn \/ Unplug \/ Report
-----------------------------------------------------------------------------
(* The event thread: one event under joy_msg_mutex_.  The first conjuncts  *)
(* of a handler are its early returns, with nothing changed.               *)
Ours(e) == e.which = joystick_instance_id /\ buttons # NoMsg

handleJoyAxis(e) ==
  /\ axis' = IF Ours(e) THEN [axis EXCEPT !.stick = convertRawAxisValueToROS(e.value)] ELSE axis
  /\ UNCHANGED <<opened, joystick, joystick_instance_id, buttons>>

(* sticky_buttons_ is FALSE. *)
handleJoyButton(e) ==
  /\ buttons' = IF Ours(e) THEN [buttons EXCEPT ![e.button] = e.down] ELSE buttons
  /\ UNCHANGED <<opened, joystick, joystick_instance_id, axis>>

(* Only a centred hat sets an axis back to 0. *)
Along(h, positive, negative, now) ==
  IF negative \in h THEN -Full
  ELSE IF positive \in h THEN Full
  ELSE IF h = {} THEN 0 ELSE now

handleJoyHatMotion(e) ==
  /\ axis' = IF Ours(e) /\ joystick # NoPad
             THEN [axis EXCEPT !.x = Along(e.value, "left", "right", @),
                               !.y = Along(e.value, "up", "down", @)]
             ELSE axis
  /\ UNCHANGED <<opened, joystick, joystick_instance_id, buttons>>

(* dev_id_ is 0 and dev_name_ is empty.  Opening may fail; the pad that    *)
(* has index 0 by now is the one that is opened.  resize keeps what a      *)
(* vector of the same size holds; the stick starts at its initial state.   *)
handleJoyDeviceAdded(e) ==
  \/ /\ e.which # 0
     /\ UNCHANGED <<opened, padVars>>
  \/ /\ e.which = 0
     /\ joystick' = NoPad
     /\ UNCHANGED <<opened, joystick_instance_id, buttons, axis>>
  \/ /\ e.which = 0 /\ plugged # <<>>
     /\ joystick' = plugged[1]
     /\ joystick_instance_id' = plugged[1]
     /\ opened' = opened \cup {plugged[1]}
     /\ buttons' = IF buttons = NoMsg THEN [b \in Button |-> FALSE] ELSE buttons
     /\ axis' = IF axis = NoMsg THEN [a \in Axes |-> 0] ELSE [axis EXCEPT !.stick = 0]

(* Mutant of handleJoyDeviceRemoved: the vectors are left as they are. *)
handleRemovedKeeps(e) ==
  /\ joystick' = IF e.which = joystick_instance_id THEN NoPad ELSE joystick
  /\ opened' = IF e.which = joystick_instance_id THEN opened \ {joystick} ELSE opened
  /\ UNCHANGED <<joystick_instance_id, buttons, axis>>

handleJoyDeviceRemoved(e) ==
  \/ /\ e.which # joystick_instance_id
     /\ UNCHANGED <<opened, padVars>>
  \/ /\ e.which = joystick_instance_id
     /\ buttons' = NoMsg /\ axis' = NoMsg
     /\ joystick' = NoPad
     /\ opened' = opened \ {joystick}
     /\ UNCHANGED joystick_instance_id

eventThread ==
  /\ events # <<>>
  /\ events' = Tail(events)
  /\ LET e == Head(events) IN
       CASE e.type = "axis"    -> handleJoyAxis(e)
         [] e.type = "button"  -> handleJoyButton(e)
         [] e.type = "hat"     -> handleJoyHatMotion(e)
         [] e.type = "added"   -> handleJoyDeviceAdded(e)
         [] e.type = "removed" -> handleJoyDeviceRemoved(e)
  /\ UNCHANGED <<plugged, plugs, inputs, down, stick, hat>>
-----------------------------------------------------------------------------
(* Types; "between -1.0 and 1.0" (joy.cc) is the range of the axes. *)
JoyTypeOK ==
  /\ plugged \in Seq(Pad) /\ opened \subseteq Pad
  /\ plugs \in 0 .. MaxPlug /\ inputs \in 0 .. MaxInput
  /\ down \in [Pad -> SUBSET Button] /\ stick \in [Pad -> Raw] /\ hat \in [Pad -> Hat]
  /\ Len(events) <= MaxEvents
  /\ joystick \in Pad \cup {NoPad} /\ joystick_instance_id \in Pad
  /\ buttons = NoMsg \/ buttons \in [Button -> BOOLEAN]
  /\ axis = NoMsg \/ axis \in [Axes -> -Full .. Full]

(* Once every event is handled, joy_msg_ shows the inputs of the pad that  *)
(* is open, whatever was unplugged, plugged in and pressed before: no      *)
(* button of an earlier pad stays down.  A hat axis shows its direction    *)
(* while the hat points there and 0 while it is centred; in between, from  *)
(* left-up to up for one, it keeps a direction the hat has left.           *)
InStepWithPad ==
  (events = <<>> /\ joystick # NoPad) =>
    /\ buttons = [b \in Button |-> b \in down[joystick]]
    /\ axis.stick = convertRawAxisValueToROS(stick[joystick])
    /\ "left" \in hat[joystick] => axis.x = Full
    /\ "up" \in hat[joystick] => axis.y = Full
    /\ hat[joystick] = {} => axis.x = 0 /\ axis.y = 0
=============================================================================
