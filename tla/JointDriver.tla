---------------------------- MODULE JointDriver ----------------------------
(***************************************************************************)
(* The joint driver's life, from Initialize to Shutdown, with its motors.  *)
(*                                                                         *)
(* Four threads meet: the framework's main thread (Initialize enables the  *)
(* motors one by one, Start, Shutdown disables them one by one), the       *)
(* control thread, which runs JointCmdCallback inline, the CAN control     *)
(* loop, which repeats the latest command of every motor, and the sender   *)
(* threads, one for each interface.  What the driver asks of the buses is  *)
(* CommandPort, which CanBus implements; the frames of all interfaces are  *)
(* in one sequence, and an interface sends its own in their order.         *)
(* How a sender waits is SocketCan: it misses a notification that falls    *)
(* between its test of the queue and its wait.                             *)
(*                                                                         *)
(* The motors are external: a motor obeys MIT commands only between ENABLE *)
(* and STOP, and answers each frame with its state; motors that have one   *)
(* id on one interface both do.  What the names stand for is read from a   *)
(* configuration (Wiring), which may be a wrong one.                       *)
(***************************************************************************)
EXTENDS CommandPort, Wiring, MotorUnits, FiniteSets, SequencesExt

CONSTANTS
  EnableOrder,    \* actuator_name_list_
  DisableOrder,   \* the order in which DisableAllActuator visits the motors
  CallbackOrder,  \* the order of actuator_data_space_
  MaxCmd          \* JointCommand messages published, a bound of the model

ASSUME DriverAssumption ==
  /\ \A order \in {EnableOrder, DisableOrder, CallbackOrder} :
       /\ order \in Seq(Actuator) \ {<<>>}
       /\ \A m, n \in DOMAIN order : order[m] = order[n] => m = n
       /\ \A a \in Actuator : \E n \in DOMAIN order : order[n] = a
  /\ IsFiniteSet(Actuator) /\ "nobody" \notin Actuator
  /\ "main" \in User
  /\ MaxCmd \in Nat

Mit(n) == <<"mit", n>>
Enable == <<"enable", 0>>
Stop   == <<"stop", 0>>
Zero   == <<"zeroed", 0>>

ASSUME DriverFrames ==
  /\ Periodic = {Mit(n) : n \in 0 .. MaxCmd}
  /\ OneShot = {Enable, Stop}
  /\ None = Zero

VARIABLES
  mpc,          \* the main thread
  i,            \* the actuator it is at
  result,       \* every operation so far succeeded
  is_running,   \* is_running_ of the module
  publishing,   \* PublishLoop runs
  loop_on,      \* is_running_ of the CAN device
  lpc,          \* the control loop: "off", "check", "send", "ended"
  cpc,          \* the callback: the actuator it writes next, 0 when idle
  msg,          \* messages published so far; the latest is being handled
  motor,        \* actuator -> [on, cmd]: enabled, and the command it follows
  reply,        \* actuator -> its answer on the way back, or "none"
  recv,         \* actuator -> the latest answer received, or "none"
  config,       \* driver_network, the devices InitDriver is not done with
  motors,       \* the motors of the first it has yet to look at
  wiring,       \* the maps of controller, devices and buses until they start
  stored,       \* actuator -> the actuator in whose slot its answers are stored
  shares,       \* actuator -> the actuators on its interface
  bound,        \* actuators that a transmission binds to a joint
  sender,       \* actuator -> its interface's sender: "loop", "blocking", "waiting"
  lossy         \* frames may be lost: failed writes, noise, a full queue

main == "main"   \* the only user thread of the one-shot operations

moduleVars == <<mpc, i, result, is_running, publishing>>
deviceVars == <<loop_on, lpc>>
callbackVars == <<cpc, msg>>
motorVars == <<motor, reply, recv, lossy>>
wiringVars == <<config, motors, wiring, stored, shares, bound>>
vars == <<portVars, moduleVars, deviceVars, callbackVars, motorVars, sender, wiringVars>>

Init ==
  /\ PortInit
  /\ mpc = "device" /\ i = 1 /\ result = TRUE
  /\ is_running = FALSE /\ publishing = FALSE
  /\ loop_on = FALSE /\ lpc = "off"
  /\ cpc = 0 /\ msg = 0
  /\ motor = [a \in Actuator |-> [on |-> FALSE, cmd |-> 0]]
  /\ reply = [a \in Actuator |-> "none"]
  /\ recv = [a \in Actuator |-> "none"]
  /\ lossy \in BOOLEAN
  /\ config \in Networks
  /\ motors = <<>> /\ wiring = NoWiring
  /\ stored = Empty /\ shares = Empty /\ bound = {}
  /\ sender = [a \in Actuator |-> "loop"]
-----------------------------------------------------------------------------
(* The main thread *)

(* CanDevice::Start *)
StartLoop == loop_on' = TRUE /\ lpc' = "check"

(* InitDriver: a refusal throws, and Initialize fails. *)
Refuse == mpc' = "failed" /\ config' = <<>> /\ motors' = <<>> /\ wiring' = NoWiring

ReadDevice ==
  /\ mpc = "device" /\ config # <<>>
  /\ LET d == Head(config) IN
       \/ ~ d.enable /\ config' = Tail(config) /\ UNCHANGED <<mpc, motors, wiring>>
       \/ /\ d.enable /\ MayCreate(wiring, d)
          /\ mpc' = "attach" /\ motors' = d.motors /\ wiring' = CreateDevice(wiring, d)
          /\ UNCHANGED config
       \/ d.enable /\ ~ MayCreate(wiring, d) /\ Refuse
  /\ UNCHANGED <<portVars, i, result, is_running, publishing, deviceVars, callbackVars, motorVars,
                 sender, stored, shares, bound>>

(* A motor that is not in actuator_list is passed over with a warning. *)
ReadMotor ==
  /\ mpc = "attach" /\ motors # <<>>
  /\ LET m == Head(motors)
         listed == m.name \in Actuator
         allowed == MayAttach(wiring, Head(config), m)
     IN  \/ listed /\ ~ allowed /\ Refuse
         \/ /\ listed => allowed
            /\ wiring' = IF listed THEN AttachActuator(wiring, Head(config), m) ELSE wiring
            /\ motors' = Tail(motors)
            /\ UNCHANGED <<mpc, config>>
  /\ UNCHANGED <<portVars, i, result, is_running, publishing, deviceVars, callbackVars, motorVars,
                 sender, stored, shares, bound>>

DeviceRead ==
  /\ mpc = "attach" /\ motors = <<>>
  /\ mpc' = "device" /\ config' = Tail(config)
  /\ UNCHANGED <<portVars, i, result, is_running, publishing, deviceVars, callbackVars, motorVars,
                 sender, motors, wiring, stored, shares, bound>>

(* The control loop runs before motors are enabled. *)
StartDevice ==
  /\ mpc = "device" /\ config = <<>>
  /\ IF Starts(wiring)
     THEN /\ StartLoop
          /\ stored' = [a \in {b \in Actuator : FindBus(wiring, b)} |-> StoredFor(wiring, a)]
          /\ shares' = [a \in {b \in Actuator : FindBus(wiring, b)} |-> SharesSocket(wiring, a)]
          /\ mpc' = "enable"
     ELSE /\ mpc' = "failed"
          /\ UNCHANGED <<deviceVars, stored, shares>>
  /\ wiring' = NoWiring
  /\ UNCHANGED <<portVars, i, result, is_running, publishing, callbackVars, motorVars, sender,
                 config, motors, bound>>

InitDriver == ReadDevice \/ ReadMotor \/ DeviceRead \/ StartDevice

(* EnableActuator of a name on no bus is false without a frame. *)
EnableMissing ==
  /\ mpc = "enable"
  /\ EnableOrder[i] \notin DOMAIN stored
  /\ result' = FALSE
  /\ IF i < Len(EnableOrder) THEN i' = i + 1 /\ UNCHANGED mpc ELSE i' = 1 /\ mpc' = "failed"
  /\ UNCHANGED <<portVars, is_running, publishing, deviceVars, callbackVars, motorVars, sender, wiringVars>>

(* EnableActuator and DisableActuator: SendOnce. *)
SendOnce(from, order, f, to) ==
  /\ mpc = from
  /\ order[i] \in DOMAIN stored
  /\ Request(main, order[i], f)
  /\ mpc' = to
  /\ UNCHANGED <<i, result, is_running, publishing, deviceVars, callbackVars, motorVars, sender, wiringVars>>

RequestEnable == SendOnce("enable", EnableOrder, Enable, "enabling")
RequestStop   == SendOnce("disable", DisableOrder, Stop, "disabling")

(* notify_one wakes a sender that waits already. *)
Notify(as) ==
  sender' = [a \in Actuator |->
    IF sender[a] = "waiting" /\ a \in DOMAIN shares /\ shares[a] \cap as # {} THEN "loop" ELSE sender[a]]

FireOnce ==
  /\ lossy \/ Len(queue) < QueueSize
  /\ Fire(main)
  /\ Notify({pending[main].to})
  /\ UNCHANGED <<moduleVars, deviceVars, callbackVars, motorVars, wiringVars>>

(* A frame waits behind a sender that missed its notification, and the     *)
(* control loop has nothing to send that would wake the sender.            *)
Stuck(x) ==
  /\ x \in Range(queue)
  /\ sender[x.to] = "waiting"
  /\ lpc = "ended" \/ \A a \in shares[x.to] : reg[a] = None

(* The poll gives up after a second: without the state it waits for, at    *)
(* any time when frames get lost, else only when no answer will come.      *)
Unanswered(a, f, state) ==
  LET x == [to |-> a, frame |-> f]
  IN  /\ pending[main] = NoRequest
      /\ recv[a] # state
      /\ lossy \/ Stuck(x) \/ (x \notin Range(queue) /\ reply[a] # state)

(* Mutant of PollEnable: a motor that gives up is only logged. *)
PollEnableLogs ==
  /\ mpc = "enabling"
  /\ pending[main] = NoRequest
  /\ LET a == EnableOrder[i] IN recv[a] = "enabled" \/ Unanswered(a, Enable, "enabled")
  /\ IF i < Len(EnableOrder) THEN i' = i + 1 /\ mpc' = "enable" ELSE i' = 1 /\ mpc' = "limp"
  /\ UNCHANGED <<portVars, result, is_running, publishing, deviceVars, callbackVars, motorVars, sender, wiringVars>>

(* The poll sees the state it waits for, or gives up.  All motors are      *)
(* tried; one failure fails Initialize, and nothing is disabled again.     *)
PollEnable ==
  /\ mpc = "enabling"
  /\ pending[main] = NoRequest
  /\ LET a == EnableOrder[i] IN
       \/ recv[a] = "enabled" /\ UNCHANGED result
       \/ Unanswered(a, Enable, "enabled") /\ result' = FALSE
  /\ IF i < Len(EnableOrder)
     THEN i' = i + 1 /\ mpc' = "enable"
     ELSE i' = 1 /\ mpc' = IF result' THEN "limp" ELSE "failed"
  /\ UNCHANGED <<portVars, is_running, publishing, deviceVars, callbackVars, motorVars, sender, wiringVars>>

SetMitCmd(a, f) == IF a \in DOMAIN stored THEN Set(a, f) ELSE UNCHANGED portVars

(* "update actuator cmd cache": a command without gains for each motor. *)
SetLimp ==
  /\ mpc = "limp"
  /\ SetMitCmd(EnableOrder[i], Mit(0))
  /\ IF i < Len(EnableOrder) THEN i' = i + 1 /\ UNCHANGED mpc ELSE i' = 1 /\ mpc' = "bind"
  /\ UNCHANGED <<result, is_running, publishing, deviceVars, callbackVars, motorVars, sender, wiringVars>>

(* InitTransmission *)
Bind ==
  /\ mpc = "bind"
  /\ \E transmission \in Bindings : bound' = Bound(transmission, Actuator)
  /\ mpc' = "ready"
  /\ UNCHANGED <<portVars, i, result, is_running, publishing, deviceVars, callbackVars, motorVars,
                 sender, config, motors, wiring, stored, shares>>

Start ==
  /\ mpc = "ready"
  /\ is_running' = TRUE /\ publishing' = TRUE
  /\ mpc' = "up"
  /\ UNCHANGED <<portVars, i, result, deviceVars, callbackVars, motorVars, sender, wiringVars>>

(* Shutdown *)
ShutdownBegin ==
  /\ mpc = "up"
  /\ is_running' = FALSE
  /\ mpc' = "join"
  /\ UNCHANGED <<portVars, i, result, publishing, deviceVars, callbackVars, motorVars, sender, wiringVars>>

PublishLoopEnds ==
  /\ publishing /\ ~ is_running
  /\ publishing' = FALSE
  /\ UNCHANGED <<portVars, mpc, i, result, is_running, deviceVars, callbackVars, motorVars, sender, wiringVars>>

(* Mutant of JoinPublish: the control loop is told to stop first. *)
JoinPublishStops ==
  /\ mpc = "join" /\ ~ publishing
  /\ loop_on' = FALSE
  /\ mpc' = "disable"
  /\ UNCHANGED <<portVars, i, result, is_running, publishing, lpc, callbackVars, motorVars, sender, wiringVars>>

JoinPublish ==
  /\ mpc = "join" /\ ~ publishing
  /\ mpc' = "disable"
  /\ UNCHANGED <<portVars, i, result, is_running, publishing, deviceVars, callbackVars, motorVars, sender, wiringVars>>

(* Mutant of PollDisable: the answer is not waited for. *)
PollNothing ==
  /\ mpc = "disabling"
  /\ pending[main] = NoRequest
  /\ IF i < Len(DisableOrder)
     THEN i' = i + 1 /\ mpc' = "disable"
     ELSE i' = 1 /\ mpc' = "stop"
  /\ UNCHANGED <<portVars, result, is_running, publishing, deviceVars, callbackVars, motorVars, sender, wiringVars>>

(* DisableAll returns at the first motor that does not answer. *)
PollDisable ==
  /\ mpc = "disabling"
  /\ pending[main] = NoRequest
  /\ LET a == DisableOrder[i] IN
       \/ /\ recv[a] = "disabled"
          /\ IF i < Len(DisableOrder)
             THEN i' = i + 1 /\ mpc' = "disable"
             ELSE i' = 1 /\ mpc' = "stop"
          /\ UNCHANGED result
       \/ /\ Unanswered(a, Stop, "disabled")
          /\ result' = FALSE /\ i' = 1 /\ mpc' = "stop"
  /\ UNCHANGED <<portVars, is_running, publishing, deviceVars, callbackVars, motorVars, sender, wiringVars>>

(* XyberController::Stop, and the join of the control loop. *)
StopDevice ==
  /\ mpc = "stop"
  /\ loop_on' = FALSE
  /\ mpc' = "joinloop"
  /\ UNCHANGED <<portVars, i, result, is_running, publishing, lpc, callbackVars, motorVars, sender, wiringVars>>

JoinLoop ==
  /\ mpc = "joinloop" /\ lpc = "ended"
  /\ mpc' = "down"
  /\ UNCHANGED <<portVars, i, result, is_running, publishing, deviceVars, callbackVars, motorVars, sender, wiringVars>>

Main == EnableMissing \/ RequestEnable \/ RequestStop \/ FireOnce \/ PollEnable \/ SetLimp
          \/ Bind \/ JoinPublish \/ PollDisable \/ StopDevice \/ JoinLoop
-----------------------------------------------------------------------------
(* The CAN control loop, the sender threads and the motors *)

LoopCheck ==
  /\ lpc = "check"
  /\ lpc' = IF loop_on THEN "send" ELSE "ended"
  /\ UNCHANGED <<portVars, moduleVars, loop_on, callbackVars, motorVars, sender, wiringVars>>

(* The actuators with a periodic command, in the order of the table. *)
Repeating == {a \in Actuator : reg[a] # None}
InOrder(as) ==
  \A m, n \in DOMAIN as :
    m < n => \E k, l \in DOMAIN CallbackOrder :
               k < l /\ CallbackOrder[k] = as[m] /\ CallbackOrder[l] = as[n]

Repeated(as) == [n \in DOMAIN as |-> [to |-> as[n], frame |-> reg[as[n]]]]

Smaller(m, n) == IF m < n THEN m ELSE n

(* A bus that loses nothing sends a cycle's frames within the cycle, but   *)
(* for those behind a missed notification, and has room in its queues.     *)
BusKeepsUp == lossy \/ \A n \in DOMAIN queue : sender[queue[n].to] = "waiting"

(* TransmitAll: what does not fit into the queue is forgotten. *)
TransmitAll ==
  /\ lpc = "send"
  /\ BusKeepsUp
  /\ \E as \in [1 .. Cardinality(Repeating) -> Repeating] :
       LET all == queue \o Repeated(as)
       IN  InOrder(as) /\ queue' = SubSeq(all, 1, Smaller(QueueSize, Len(all)))
  /\ Notify(Repeating)
  /\ lpc' = "check"
  /\ UNCHANGED <<reg, pending, moduleVars, loop_on, callbackVars, motorVars, wiringVars>>

Switch(a, state) == [b \in Actuator |-> IF b \in shares[a] THEN state ELSE sender[b]]

(* The sender of a's interface finds its queue empty, and later waits. *)
FindEmpty(a) ==
  /\ a \in DOMAIN shares /\ sender[a] = "loop"
  /\ \A n \in DOMAIN queue : queue[n].to \notin shares[a]
  /\ sender' = Switch(a, "blocking")
  /\ UNCHANGED <<portVars, moduleVars, deviceVars, callbackVars, motorVars, wiringVars>>

Block(a) ==
  /\ sender[a] = "blocking"
  /\ sender' = Switch(a, "waiting")
  /\ UNCHANGED <<portVars, moduleVars, deviceVars, callbackVars, motorVars, wiringVars>>

(* The oldest frame of a's interface, one for a, is taken from the queue. *)
Pop(a, n) ==
  /\ queue[n].to = a /\ sender[a] = "loop"
  /\ \A m \in 1 .. n - 1 : queue[m].to \notin shares[a]
  /\ queue' = RemoveAt(queue, n)
  /\ UNCHANGED <<reg, pending>>

(* What a motor does with a frame. *)
Obey(state, f) ==
  [on  |-> f = Enable \/ (state.on /\ f # Stop),
   cmd |-> IF f \in Periodic /\ state.on THEN f[2] ELSE state.cmd]

(* The motors at a's address: their answers are stored in one slot. *)
AtAddress(a) == {b \in DOMAIN stored : stored[b] = stored[a]}

Deliver(a) ==
  \E n \in DOMAIN queue :
    /\ Pop(a, n)
    /\ motor' = [b \in Actuator |->
         IF b \in AtAddress(a) THEN Obey(motor[b], queue[n].frame) ELSE motor[b]]
    /\ reply' = [b \in Actuator |->
         IF b \notin AtAddress(a) THEN reply[b] ELSE IF motor'[b].on THEN "enabled" ELSE "disabled"]
    /\ UNCHANGED <<recv, lossy, moduleVars, deviceVars, callbackVars, sender, wiringVars>>

Lose(a) ==
  /\ lossy
  /\ \E n \in DOMAIN queue : Pop(a, n)
  /\ UNCHANGED <<motorVars, moduleVars, deviceVars, callbackVars, sender, wiringVars>>

SenderThread(a) == FindEmpty(a) \/ Block(a) \/ Deliver(a)

(* The receive callback of the motor's id stores the answer in its slot. *)
Receive(a) ==
  /\ reply[a] # "none"
  /\ recv' = [recv EXCEPT ![stored[a]] = reply[a]]
  /\ reply' = [reply EXCEPT ![a] = "none"]
  /\ UNCHANGED <<motor, lossy, sender, portVars, moduleVars, deviceVars, callbackVars, wiringVars>>
-----------------------------------------------------------------------------
(* The control thread: JointCmdCallback *)

CallbackBegin ==
  /\ cpc = 0 /\ msg < MaxCmd
  /\ msg' = msg + 1
  /\ cpc' = IF is_running THEN 1 ELSE 0
  /\ UNCHANGED <<portVars, moduleVars, deviceVars, motorVars, sender, wiringVars>>

(* A motor that no transmission binds is sent zeroes: it stays limp. *)
CallbackWrite ==
  /\ cpc # 0
  /\ LET a == CallbackOrder[cpc] IN SetMitCmd(a, Mit(IF a \in bound THEN msg ELSE 0))
  /\ cpc' = IF cpc < Len(CallbackOrder) THEN cpc + 1 ELSE 0
  /\ UNCHANGED <<msg, moduleVars, deviceVars, motorVars, sender, wiringVars>>

Next ==
  \/ InitDriver \/ Start \/ ShutdownBegin \/ PublishLoopEnds \/ Main
  \/ LoopCheck \/ TransmitAll \/ (\E a \in Actuator : SenderThread(a) \/ Lose(a) \/ Receive(a))
  \/ CallbackBegin \/ CallbackWrite

(* The threads run: a sender that does not wait sends what it has, one     *)
(* that waits is owed nothing but what notifies it.  FireOnce is strongly  *)
(* fair because a bus that loses nothing always has room in its queue, and *)
(* here only now and again.  The framework need not shut the module down,  *)
(* and nobody owes a message.                                              *)
Fairness ==
  /\ WF_vars(InitDriver) /\ WF_vars(Main) /\ WF_vars(Start) /\ SF_vars(FireOnce)
  /\ WF_vars(PublishLoopEnds)
  /\ WF_vars(LoopCheck \/ TransmitAll)
  /\ \A a \in Actuator : WF_vars(SenderThread(a)) /\ WF_vars(Receive(a))
  /\ WF_vars(CallbackWrite)

Spec == Init /\ [][Next]_vars /\ Fairness
-----------------------------------------------------------------------------
(* Types. *)
TypeOK ==
  /\ mpc \in {"device", "attach", "enable", "enabling", "limp", "bind", "ready", "failed", "up",
              "join", "disable", "disabling", "stop", "joinloop", "down"}
  /\ i \in 1 .. IF mpc \in {"disable", "disabling"} THEN Len(DisableOrder) ELSE Len(EnableOrder)
  /\ result \in BOOLEAN /\ is_running \in BOOLEAN /\ publishing \in BOOLEAN
  /\ loop_on \in BOOLEAN /\ lpc \in {"off", "check", "send", "ended"}
  /\ cpc \in 0 .. Len(CallbackOrder) /\ msg \in 0 .. MaxCmd
  /\ motor \in [Actuator -> [on : BOOLEAN, cmd : 0 .. MaxCmd]]
  /\ reply \in [Actuator -> {"none", "enabled", "disabled"}]
  /\ recv \in [Actuator -> {"none", "enabled", "disabled"}]
  /\ lossy \in BOOLEAN
  /\ config \in Seq(Device) /\ motors \in Seq(Entry)
  /\ \E as \in SUBSET Actuator : stored \in [as -> Actuator] /\ shares \in [as -> SUBSET Actuator]
  /\ sender \in [Actuator -> {"loop", "blocking", "waiting"}]
  /\ bound \subseteq Actuator
  /\ reg \in [Actuator -> Periodic \cup {None}]
  /\ pending \in [User -> [to : Actuator \cup {"nobody"}, frame : Once]]
  /\ queue \in Seq([to : Actuator, frame : Periodic \cup Once])
  /\ Len(queue) <= QueueSize

(* No motor loses its answers to another of its bus.  To one of another    *)
(* bus on the same interface it may, which registration lets pass (only    *)
(* the own bus is looked at, and the later callback replaces the earlier); *)
(* but Initialize does not go on with such a wiring, nor with one that     *)
(* leaves out a motor of actuator_list: from there on the answers of every *)
(* motor are stored for it and no other.                                   *)
OwnAnswers ==
  /\ \A a \in DOMAIN wiring.bus :
       LET b == StoredFor(wiring, a)
       IN  wiring.bus[b] = wiring.bus[a] => b = a
  /\ mpc \notin {"device", "attach", "enable", "enabling", "failed"} =>
       stored = [a \in Actuator |-> a]

(* Initialize succeeds only when every motor is really enabled. *)
ReadyMeansEnabled == mpc \in {"limp", "bind", "ready", "up"} => \A a \in Actuator : motor[a].on

(* When DisableAllActuator has reported success, every motor is really off *)
(* and stays off, whatever a callback that passed its test of is_running_  *)
(* still writes and the loop still repeats.                                *)
DisableAckTrue ==
  mpc \in {"stop", "joinloop", "down"} /\ result => \A a \in Actuator : ~ motor[a].on

(* A motor that follows a message reports what was asked of it, whatever   *)
(* that was (FloatToUint16 and the transmission there, Uint16ToFloat back). *)
FollowersReportCommand == (\E a \in Actuator : motor[a].cmd # 0) => CommandComesBack

LastVisited(n) ==
  \A l \in DOMAIN DisableOrder : l > n => DisableOrder[l] \notin shares[DisableOrder[n]]

(* Shutdown comes to its end.  On buses that lose nothing it leaves motors *)
(* on only when it has given up, because of a missed notification, and     *)
(* only the motor visited last on an interface can be hit by one: behind   *)
(* every other the loop goes on sending.  That motor stays on with all     *)
(* that would have been visited after it; the ones before are off.         *)
ShutdownStopsMotors ==
  mpc = "join" /\ ~ lossy ~>
    /\ mpc = "down"
    /\ \A k \in DOMAIN DisableOrder :
         motor[DisableOrder[k]].on => ~ result /\ \E n \in 1 .. k : LastVisited(n)
=============================================================================
