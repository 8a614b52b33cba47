---------------------------- MODULE CommandPort ----------------------------
(***************************************************************************)
(* What a CAN bus object promises its users (the command routing of        *)
(* can_bus.h): a periodic command is repeated until it is replaced; a      *)
(* one-shot command is offered to the transmit queue once, is never        *)
(* repeated, and ends the repetition of the periodic command before it.    *)
(* The queue is bounded and forgets what does not fit.                     *)
(***************************************************************************)
EXTENDS Integers, Sequences

CONSTANTS
  Actuator,
  User,        \* threads that call the actuator API
  Periodic,    \* frames of SetMitCmd, SetEffort, SetVelocity, SetPosition
  OneShot,     \* frames of Enable, Disable, ClearError, SetMode, SetHoming
  None,        \* the zeroed frame: nothing to send, and what SaveConfig sends
  QueueSize

ASSUME PortAssumption ==
  /\ Periodic \cap OneShot = {}
  /\ None \notin Periodic \cup OneShot
  /\ QueueSize \in Nat \ {0}

Once == OneShot \cup {None}
NoRequest == [to |-> "nobody", frame |-> None]

VARIABLES
  reg,       \* actuator -> the periodic frame being repeated, or None
  pending,   \* user -> its one-shot that is not yet offered to the queue
  queue      \* frames on their way to the bus, with their actuators

portVars == <<reg, pending, queue>>

Offered(q, x) == IF Len(q) < QueueSize THEN Append(q, x) ELSE q

PortInit ==
  /\ reg = [a \in Actuator |-> None]
  /\ pending = [u \in User |-> NoRequest]
  /\ queue = <<>>

Set(a, f) ==
  /\ reg' = [reg EXCEPT ![a] = f]
  /\ UNCHANGED <<pending, queue>>

Request(u, a, f) ==
  /\ pending[u] = NoRequest
  /\ pending' = [pending EXCEPT ![u] = [to |-> a, frame |-> f]]
  /\ reg' = [reg EXCEPT ![a] = None]
  /\ UNCHANGED queue

Fire(u) ==
  /\ pending[u] # NoRequest
  /\ queue' = Offered(queue, pending[u])
  /\ pending' = [pending EXCEPT ![u] = NoRequest]
  /\ UNCHANGED reg

Repeat(a) ==
  /\ reg[a] # None
  /\ queue' = Offered(queue, [to |-> a, frame |-> reg[a]])
  /\ UNCHANGED <<reg, pending>>

(* The sender thread takes the oldest frame. *)
Take ==
  /\ queue # <<>>
  /\ queue' = Tail(queue)
  /\ UNCHANGED <<reg, pending>>

PortNext ==
  \/ \E a \in Actuator : Repeat(a) \/ \E f \in Periodic : Set(a, f)
  \/ \E u \in User : Fire(u) \/ \E a \in Actuator, f \in Once : Request(u, a, f)
  \/ Take

PortSpec == PortInit /\ [][PortNext]_portVars
=============================================================================
