------------------------------- MODULE Wiring -------------------------------
(***************************************************************************)
(* How InitDriver and InitTransmission turn a configuration into wiring:   *)
(* controller, device and bus each look at their own map before they       *)
(* attach an actuator, and every actuator registers a callback for its id  *)
(* with the socket of its interface, which all buses of that interface     *)
(* share.                                                                  *)
(*                                                                         *)
(* A device is [name, enable, interfaces, motors], one of its motors       *)
(* [name, bus, id]; an interface that is not used is "".  The maps of the  *)
(* three layers are fields of one record: devices (name -> interfaces),    *)
(* bus and id (actuator -> where it is attached), and hears (interface and *)
(* id -> the actuator whose callback it is).                               *)
(***************************************************************************)
LOCAL INSTANCE Integers
LOCAL INSTANCE Sequences

CONSTANTS
  MaxId,      \* MAX_ACTUATORS_PER_BUS
  Joints,     \* joint_name_list_
  Networks,   \* configurations of driver_network: sequences of devices
  Bindings    \* configurations of transmission: sequences of [joint, actuator]

Device == UNION {{network[x] : x \in DOMAIN network} : network \in Networks}
Entry == UNION {{d.motors[k] : k \in DOMAIN d.motors} : d \in Device}

HasBus(d, m) == m.bus \in DOMAIN d.interfaces /\ d.interfaces[m.bus] # ""

ASSUME WiringAssumption ==
  \A network \in Networks :
    /\ network \in Seq(Device)
    /\ \A x \in DOMAIN network : network[x].motors \in Seq(Entry)

Put(f, x, v) == [y \in DOMAIN f \cup {x} |-> IF y = x THEN v ELSE f[y]]
Empty == [x \in {} |-> x]

NoWiring == [devices |-> Empty, bus |-> Empty, id |-> Empty, hears |-> Empty]

(* XyberController: a name is a device, and an actuator attached, once. *)
MayCreate(w, d) == d.name \notin DOMAIN w.devices

CreateDevice(w, d) ==
  [devices |-> Put(w.devices, d.name, d.interfaces), bus |-> w.bus, id |-> w.id, hears |-> w.hears]

Interface(w, bus) == w.devices[bus[1]][bus[2]]

(* Mutant of MayRegister: whether the id is occupied is not looked at. *)
MayRegisterAnyId(w, bus, m) == m.id \in 1 .. MaxId

(* CanBus::RegisterActuator: the id is one of a bus, and free there.  That *)
(* another bus of the interface has it is not looked at.                   *)
MayRegister(w, bus, m) ==
  /\ m.id \in 1 .. MaxId
  /\ ~ \E a \in DOMAIN w.bus : w.bus[a] = bus /\ w.id[a] = m.id

(* Controller, device and bus in turn. *)
MayAttach(w, d, m) ==
  /\ m.name \notin DOMAIN w.bus
  /\ HasBus(d, m)
  /\ MayRegister(w, <<d.name, m.bus>>, m)

(* add_can_callback: the last to register for an id of an interface has it. *)
AttachActuator(w, d, m) ==
  LET bus == <<d.name, m.bus>>
  IN  [devices |-> w.devices,
       bus     |-> Put(w.bus, m.name, bus),
       id      |-> Put(w.id, m.name, m.id),
       hears   |-> Put(w.hears, <<Interface(w, bus), m.id>>, m.name)]

FindBus(w, a) == a \in DOMAIN w.bus

(* XyberController::Start refuses to start without a device. *)
Starts(w) == DOMAIN w.devices # {}

Address(w, a) == <<Interface(w, w.bus[a]), w.id[a]>>

(* The actuator in whose slot the answers of a's motor are stored. *)
StoredFor(w, a) == w.hears[Address(w, a)]

(* The actuators behind the socket that a's bus has (SocketCAN::get). *)
SharesSocket(w, a) == {b \in DOMAIN w.bus : Interface(w, w.bus[b]) = Interface(w, w.bus[a])}

(* The actuators that get a joint's command; a binding of an unknown joint *)
(* or actuator is passed over with a warning.                              *)
Bound(transmission, names) ==
  {transmission[n].actuator :
     n \in {k \in DOMAIN transmission : transmission[k].joint \in Joints
                                        /\ transmission[k].actuator \in names}}
=============================================================================
