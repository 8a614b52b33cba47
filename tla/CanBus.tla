------------------------------- MODULE CanBus -------------------------------
(***************************************************************************)
(* One CAN bus object: user threads write actuator commands into the send  *)
(* slots, the control loop's TransmitAll copies the slots to the transmit  *)
(* queue every cycle, and the sender thread empties the queue.             *)
(*                                                                         *)
(* A frame is written in two steps, first its id, which carries the torque *)
(* of a MIT command, then its data, which carries the position.  All but   *)
(* a one-shot's call of transmit happens under send_mtx_.  Frames are      *)
(* model values.                                                           *)
(***************************************************************************)
EXTENDS Integers, Sequences

CONSTANTS Actuator, User, Periodic, OneShot, None, QueueSize

ASSUME CanBusAssumption ==
  /\ Actuator # {} /\ "nobody" \notin Actuator
  /\ Periodic \cap OneShot = {}
  /\ None \notin Periodic \cup OneShot
  /\ QueueSize \in Nat \ {0}
  /\ User \cap {"free", "loop"} = {}

VARIABLES
  send_mtx,   \* "free", "loop" or the user that holds send_mtx_
  slot,       \* send_buf_: actuator -> the id and the data of its frame
  upc,        \* user -> where it is in a call
  arg,        \* user -> the actuator and the frame of the call
  frame,      \* user -> SendOnce's local copy
  round,      \* the actuators TransmitAll has still to visit
  tx_queue    \* tx_queue_

vars == <<send_mtx, slot, upc, arg, frame, round, tx_queue>>

Once == OneShot \cup {None}   \* None is SaveConfig's zeroed frame
Frame == Periodic \cup Once
Slot == [id : Frame, data : Frame]
Zeroed == [id |-> None, data |-> None]
NoCall == [to |-> "nobody", frame |-> None]

Init ==
  /\ send_mtx = "free"
  /\ slot = [a \in Actuator |-> Zeroed]
  /\ upc = [u \in User |-> "idle"]
  /\ arg = [u \in User |-> NoCall]
  /\ frame = [u \in User |-> Zeroed]
  /\ round = {}
  /\ tx_queue = <<>>

(* SocketCAN::transmit: bounded_push, whose result nobody looks at. *)
Transmit(a, s) ==
  tx_queue' = IF Len(tx_queue) < QueueSize
              THEN Append(tx_queue, [to |-> a, id |-> s.id, data |-> s.data])
              ELSE tx_queue

(* A user calls a setter, or an operation that goes through SendOnce. *)
Lock(u, a, f) ==
  /\ upc[u] = "idle"
  /\ send_mtx = "free"
  /\ send_mtx' = u
  /\ arg' = [arg EXCEPT ![u] = [to |-> a, frame |-> f]]
  /\ upc' = [upc EXCEPT ![u] = "id"]
  /\ UNCHANGED <<slot, frame, round, tx_queue>>

(* RobstrideMotor::WriteFrame. *)
WriteId(u) ==
  /\ upc[u] = "id"
  /\ slot' = [slot EXCEPT ![arg[u].to].id = arg[u].frame]
  /\ upc' = [upc EXCEPT ![u] = "data"]
  /\ UNCHANGED <<send_mtx, arg, frame, round, tx_queue>>

WriteData(u) ==
  /\ upc[u] = "data"
  /\ slot' = [slot EXCEPT ![arg[u].to].data = arg[u].frame]
  /\ \/ /\ arg[u].frame \in Periodic
        /\ upc' = [upc EXCEPT ![u] = "idle"]
        /\ arg' = [arg EXCEPT ![u] = NoCall]
        /\ send_mtx' = "free"
     \/ /\ arg[u].frame \in Once
        /\ upc' = [upc EXCEPT ![u] = "copy"]
        /\ UNCHANGED <<arg, send_mtx>>
  /\ UNCHANGED <<frame, round, tx_queue>>

(* SendOnce, steps 2 and 3: copy the slot, zero it, unlock. *)
Capture(u) ==
  /\ upc[u] = "copy"
  /\ frame' = [frame EXCEPT ![u] = slot[arg[u].to]]
  /\ slot' = [slot EXCEPT ![arg[u].to] = Zeroed]
  /\ send_mtx' = "free"
  /\ upc' = [upc EXCEPT ![u] = "transmit"]
  /\ UNCHANGED <<arg, round, tx_queue>>

(* SendOnce, step 4, after the unlock. *)
TransmitOnce(u) ==
  /\ upc[u] = "transmit"
  /\ Transmit(arg[u].to, frame[u])
  /\ upc' = [upc EXCEPT ![u] = "idle"]
  /\ arg' = [arg EXCEPT ![u] = NoCall]
  /\ frame' = [frame EXCEPT ![u] = Zeroed]
  /\ UNCHANGED <<send_mtx, slot, round>>

(* Mutant of LoopLock: TransmitAll reads the slots without the mutex. *)
LoopUnlocked ==
  /\ round = {}
  /\ round' = Actuator
  /\ UNCHANGED <<send_mtx, slot, upc, arg, frame, tx_queue>>

(* TransmitAll *)
LoopLock ==
  /\ round = {} /\ send_mtx = "free"
  /\ send_mtx' = "loop"
  /\ round' = Actuator
  /\ UNCHANGED <<slot, upc, arg, frame, tx_queue>>

(* Mutant of LoopVisit: a repeated frame is also taken out of the slot. *)
LoopConsumes(a) ==
  /\ a \in round
  /\ round' = round \ {a}
  /\ send_mtx' = IF round = {a} THEN "free" ELSE send_mtx
  /\ IF slot[a].id = None THEN UNCHANGED tx_queue ELSE Transmit(a, slot[a])
  /\ slot' = [slot EXCEPT ![a] = Zeroed]
  /\ UNCHANGED <<upc, arg, frame>>

LoopVisit(a) ==
  /\ a \in round
  /\ round' = round \ {a}
  /\ send_mtx' = IF round = {a} THEN "free" ELSE send_mtx
  /\ IF slot[a].id = None THEN UNCHANGED tx_queue ELSE Transmit(a, slot[a])
  /\ UNCHANGED <<slot, upc, arg, frame>>

(* The sender thread takes a frame; the kernel may refuse it for good.     *)
Take ==
  /\ tx_queue # <<>>
  /\ tx_queue' = Tail(tx_queue)
  /\ UNCHANGED <<send_mtx, slot, upc, arg, frame, round>>

Next ==
  \/ \E u \in User :
       \/ \E a \in Actuator, f \in Frame : Lock(u, a, f)
       \/ WriteId(u) \/ WriteData(u) \/ Capture(u) \/ TransmitOnce(u)
  \/ LoopLock \/ (\E a \in Actuator : LoopVisit(a))
  \/ Take

Spec == Init /\ [][Next]_vars
-----------------------------------------------------------------------------
(* Types. *)
Call == [to : Actuator \cup {"nobody"}, frame : Frame]
TypeOK ==
  /\ send_mtx \in {"free", "loop"} \cup User
  /\ slot \in [Actuator -> Slot]
  /\ upc \in [User -> {"idle", "id", "data", "copy", "transmit"}]
  /\ arg \in [User -> Call]
  /\ frame \in [User -> Slot]
  /\ round \in SUBSET Actuator
  /\ tx_queue \in Seq([to : Actuator, id : Frame, data : Frame])
  /\ Len(tx_queue) <= QueueSize

(* No frame that reaches the queue has the id of one command and the data  *)
(* of another, which would join one command's torque to another's position. *)
WholeFrames == \A i \in DOMAIN tx_queue : tx_queue[i].id = tx_queue[i].data

(* "TransmitAll() NEVER re-broadcasts the one-shot command" (can_bus.h):   *)
(* whatever users do, what the loop adds to the queue is periodic.         *)
LoopNeverRepeatsOneShot ==
  [][\A a \in Actuator :
       a \in round \ round' /\ tx_queue' # tx_queue
         => tx_queue'[Len(tx_queue')].id \in Periodic]_vars

(* The command routing of can_bus.h, whatever the users' calls do to each  *)
(* other and to the loop: a call takes effect when its id is written.      *)
Port == INSTANCE CommandPort WITH
  reg     <- [a \in Actuator |-> IF slot[a].id \in Periodic THEN slot[a].id ELSE None],
  pending <- [u \in User |-> IF upc[u] \in {"data", "copy", "transmit"} /\ arg[u].frame \in Once
                             THEN arg[u] ELSE NoCall],
  queue   <- [i \in DOMAIN tx_queue |-> [to |-> tx_queue[i].to, frame |-> tx_queue[i].id]]

ImplementsCommandPort == Port!PortSpec
=============================================================================
