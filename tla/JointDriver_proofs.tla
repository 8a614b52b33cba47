------------------------- MODULE JointDriver_proofs -------------------------
(***************************************************************************)
(* The joint driver for any number of motors, orders and configurations,   *)
(* and the units of what it sends and reports.                             *)
(***************************************************************************)
EXTENDS JointDriver, FiniteSetTheorems, SequenceTheorems, TLAPS

(* Initialize before the motors are ready, the module in use, Shutdown. *)
Early == mpc \in {"device", "attach", "enable", "enabling", "failed"}
Live == mpc \in {"limp", "bind", "ready", "up", "join"}
Stopping == mpc \in {"disable", "disabling", "stop", "joinloop", "down"}
-----------------------------------------------------------------------------
(* What has been attached: every address has the callback of an actuator   *)
(* that is there, and an id of a bus is one actuator's.                    *)
Attached ==
  /\ DOMAIN wiring.bus \subseteq Actuator
  /\ \A a \in DOMAIN wiring.bus :
       /\ a \in DOMAIN wiring.id /\ wiring.bus[a][1] \in DOMAIN wiring.devices
       /\ Address(wiring, a) \in DOMAIN wiring.hears
       /\ StoredFor(wiring, a) \in DOMAIN wiring.bus
       /\ Address(wiring, StoredFor(wiring, a)) = Address(wiring, a)
  /\ \A a, b \in DOMAIN wiring.bus :
       wiring.bus[a] = wiring.bus[b] /\ wiring.id[a] = wiring.id[b] => a = b

Readable == mpc = "attach" => config # <<>> /\ config[1].name \in DOMAIN wiring.devices

(* Answers are stored for an actuator of the address, whose own are stored *)
(* for it too.                                                             *)
Stored ==
  /\ \A a \in DOMAIN stored : stored[a] \in DOMAIN stored /\ stored[stored[a]] = stored[a]
  /\ mpc \in {"device", "attach"} => stored = Empty

(* Nobody's answers are stored for another. *)
Clean == \A a \in DOMAIN stored : stored[a] = a

(* An answer can be seen only in a slot that answers are stored in, so the *)
(* polls of Initialize let no other wiring than a clean one through.       *)
Seen ==
  /\ \A a \in Actuator : recv[a] # "none" => a \in DOMAIN stored /\ stored[a] = a
  /\ mpc \in {"enable", "enabling"} /\ result =>
       \A k \in 1 .. i - 1 :
         EnableOrder[k] \in DOMAIN stored /\ stored[EnableOrder[k]] = EnableOrder[k]
  /\ mpc = "enabling" => EnableOrder[i] \in DOMAIN stored
  /\ Live \/ Stopping => DOMAIN stored = Actuator /\ Clean
  /\ mpc \in {"device", "attach", "bind", "ready", "up", "join"} => i = 1

(* What is on its way to the motors, and back, goes to and comes from      *)
(* motors that are attached, and is of the kind the phase allows.          *)
Sent ==
  /\ \A u \in User \ {main} : pending[u] = NoRequest
  /\ \/ pending[main] = NoRequest
     \/ /\ mpc = "enabling" /\ EnableOrder[i] \in DOMAIN stored
        /\ pending[main] = [to |-> EnableOrder[i], frame |-> Enable]
     \/ /\ mpc = "disabling" /\ DisableOrder[i] \in DOMAIN stored
        /\ pending[main] = [to |-> DisableOrder[i], frame |-> Stop]
  /\ \A n \in DOMAIN queue :
       /\ queue[n].to \in DOMAIN stored
       /\ Early => queue[n].frame = Enable
       /\ Live => queue[n].frame \in Periodic
       /\ Stopping => queue[n].frame \in Periodic \cup {Stop}
  /\ \A a \in Actuator : /\ reg[a] # None => a \in DOMAIN stored /\ ~ Early
                         /\ reply[a] # "none" => a \in DOMAIN stored
  /\ is_running => mpc = "up"
  /\ cpc # 0 => ~ Early
  /\ mpc \in {"device", "attach"} => queue = <<>>

(* A motor is asked to enable once, and is off until it has obeyed. *)
EnableOnce ==
  mpc \in {"device", "attach", "enable", "enabling"} =>
    /\ \A n \in DOMAIN queue :
         /\ ~ motor[queue[n].to].on
         /\ \E k \in 1 .. i : queue[n].to = EnableOrder[k] /\ (k = i => mpc = "enabling")
    /\ \A m, n \in DOMAIN queue : queue[m].to = queue[n].to => m = n
    /\ \A k \in i .. Len(EnableOrder) :
         (k = i => mpc # "enabling" \/ pending[main] # NoRequest) => ~ motor[EnableOrder[k]].on
    /\ pending[main] # NoRequest => \A n \in DOMAIN queue : queue[n].to # EnableOrder[i]

(* What an answer tells, and what the polls have seen so far. *)
Answered ==
  /\ \A a \in Actuator :
       /\ reply[a] = "enabled" \/ recv[a] = "enabled" => motor[a].on \/ Stopping
       /\ reply[a] = "disabled" \/ recv[a] = "disabled" => Stopping /\ ~ motor[a].on
  /\ mpc \in {"enable", "enabling"} /\ result =>
       \A k \in 1 .. i - 1 : motor[EnableOrder[k]].on
  /\ Live => \A a \in Actuator : motor[a].on
  /\ mpc \in {"disable", "disabling"} /\ result =>
       \A k \in 1 .. i - 1 : ~ motor[DisableOrder[k]].on
  /\ mpc \in {"stop", "joinloop", "down"} /\ result => \A a \in Actuator : ~ motor[a].on

Driven ==
  /\ TypeOK /\ Attached /\ Readable /\ Stored /\ Sent /\ Seen
  /\ Clean => EnableOnce /\ Answered
-----------------------------------------------------------------------------
(* Whole division leaves less than the divisor. *)
LEMMA Division ==
  ASSUME NEW a \in Nat, NEW b \in Nat \ {0}
  PROVE  /\ a \div b \in Nat
         /\ b * (a \div b) <= a
         /\ a < b * (a \div b) + b
BY SMT

(* The code of a value in range is in range, and decodes to the value or   *)
(* to less than one step below it.                                         *)
LEMMA Encoding ==
  ASSUME NEW limit \in Nat \ {0}, NEW x \in Int
  PROVE  LET code == FloatToUint16(x, - limit, limit)
             error == Clip(x, - limit, limit) * Steps - Uint16ToFloat(code, - limit, limit)
         IN  code \in 0 .. Steps /\ 0 <= error /\ error < 2 * limit
<1> DEFINE y == Clip(x, - limit, limit)
           a == (y + limit) * Steps
           b == 2 * limit
           code == FloatToUint16(x, - limit, limit)
<1>1. Steps \in Nat \ {0}
  BY UnitsAssumption
<1>2. y \in Int /\ - limit <= y /\ y <= limit
  BY DEF Clip
<1>3. y + limit \in Nat /\ y + limit <= b /\ b \in Nat \ {0}
  BY <1>2
<1>4. a \in Nat /\ a <= b * Steps
  BY <1>1, <1>3, <1>2, SMT
<1>5. code = a \div b
  BY <1>2 DEF FloatToUint16
<1>6. /\ code \in Nat
      /\ b * code <= a
      /\ a < b * code + b
  BY <1>3, <1>4, <1>5, Division
<1>7. code <= Steps
  <2>1. b * code <= b * Steps
    BY <1>1, <1>3, <1>4, <1>6
  <2> QED
    BY <2>1, <1>1, <1>3, <1>6, SMT
<1>8. y * Steps - Uint16ToFloat(code, - limit, limit) = a - b * code
  BY <1>1, <1>2, <1>6, SMT DEF Uint16ToFloat
<1> QED
  BY <1>1, <1>2, <1>3, <1>4, <1>6, <1>7, <1>8

(* CommandComesBack for every limit, direction and command: the encoding   *)
(* errs downwards, the direction turns that around, and less than one step *)
(* is left.                                                                *)
THEOREM CommandComesBackHolds == CommandComesBack
<1> SUFFICES ASSUME NEW limit \in Limits, NEW direction \in {-1, 1}, NEW x \in Commands
             PROVE  /\ Code(direction, x, limit) \in 0 .. Steps
                    /\ LET error == Reported(direction, x, limit) - Clip(x, - limit, limit) * Steps
                       IN  - (2 * limit) < error /\ error < 2 * limit
  BY DEF CommandComesBack
<1> DEFINE z == TransformJointToActuator(direction, x)
           code == FloatToUint16(z, - limit, limit)
           back == Uint16ToFloat(code, - limit, limit)
<1>1. limit \in Nat \ {0} /\ Steps \in Nat \ {0} /\ x \in Int
  BY UnitsAssumption
<1>2. z \in Int /\ (direction = 1 => z = x) /\ (direction = -1 => z = - x)
  BY <1>1 DEF TransformJointToActuator
<1>3. /\ code \in 0 .. Steps
      /\ 0 <= Clip(z, - limit, limit) * Steps - back
      /\ Clip(z, - limit, limit) * Steps - back < 2 * limit
  BY <1>1, <1>2, Encoding
<1>4. back \in Int /\ Clip(x, - limit, limit) \in Int
  BY <1>1, <1>3 DEF Uint16ToFloat, Clip
<1>5. Clip(z, - limit, limit) = Clip(x, - limit, limit) * direction
  BY <1>1, <1>2 DEF Clip
<1>6. CASE direction = 1
  BY <1>1, <1>3, <1>4, <1>5, <1>6 DEF Code, Reported, TransformActuatorToJoint
<1>7. CASE direction = -1
  <2>1. Clip(z, - limit, limit) * Steps = - (Clip(x, - limit, limit) * Steps)
    BY <1>1, <1>4, <1>5, <1>7, SMT
  <2>2. Reported(direction, x, limit) = - back
    BY <1>4, <1>7 DEF Reported, Code, TransformActuatorToJoint
  <2>3. Clip(x, - limit, limit) * Steps \in Int
    BY <1>1, <1>4
  <2> QED
    BY <1>1, <1>3, <1>4, <2>1, <2>2, <2>3 DEF Code
<1> QED
  BY <1>6, <1>7
-----------------------------------------------------------------------------
(* The constants. *)
LEMMA Orders ==
  ASSUME NEW order \in {EnableOrder, DisableOrder, CallbackOrder}
  PROVE  /\ Len(order) \in Nat \ {0} /\ DOMAIN order = 1 .. Len(order)
         /\ \A k \in 1 .. Len(order) : order[k] \in Actuator
         /\ \A k, l \in 1 .. Len(order) : order[k] = order[l] => k = l
         /\ \A a \in Actuator : \E k \in 1 .. Len(order) : order[k] = a
<1>1. /\ order \in Seq(Actuator) \ {<<>>}
      /\ \A m, n \in DOMAIN order : order[m] = order[n] => m = n
      /\ \A a \in Actuator : \E n \in DOMAIN order : order[n] = a
  BY DriverAssumption
<1>2. Len(order) \in Nat \ {0} /\ DOMAIN order = 1 .. Len(order)
  BY <1>1
<1>3. \A k \in 1 .. Len(order) : order[k] \in Actuator
  BY <1>1
<1>4. QED BY <1>1, <1>2, <1>3

LEMMA Frames ==
  /\ Enable \in Once /\ Stop \in Once /\ Enable # Stop
  /\ Enable \notin Periodic /\ Stop \notin Periodic
  /\ None \notin Periodic /\ None # Enable /\ None # Stop
  /\ MaxCmd \in Nat
  /\ \A n \in 0 .. MaxCmd : Mit(n) \in Periodic
  /\ \A f \in Periodic : f[2] \in 0 .. MaxCmd
<1>1. MaxCmd \in Nat
  BY DriverAssumption
<1>2. Enable # Stop
  BY DEF Enable, Stop
<1>3. Enable \in Once /\ Stop \in Once /\ Enable \notin Periodic /\ Stop \notin Periodic
  BY PortAssumption, DriverFrames DEF Once
<1>4. None \notin Periodic /\ None # Enable /\ None # Stop
  BY PortAssumption, DriverFrames
<1>5. \A n \in 0 .. MaxCmd : Mit(n) \in Periodic
  BY DriverFrames
<1>6. \A f \in Periodic : f[2] \in 0 .. MaxCmd
  BY DriverFrames DEF Mit
<1>7. QED BY <1>1, <1>2, <1>3, <1>4, <1>5, <1>6

(* A frame on its way to the bus. *)
Item == [to : Actuator, frame : Periodic \cup Once]

(* TransmitAll keeps what is in the queue and adds commands that are being *)
(* repeated, while there is room.                                          *)
LEMMA Transmitted ==
  ASSUME TypeOK, TransmitAll
  PROVE  /\ queue' \in Seq(Item) /\ Len(queue') <= QueueSize
         /\ \A n \in 1 .. Len(queue') :
              \/ n \in 1 .. Len(queue) /\ queue'[n] = queue[n]
              \/ \E a \in Actuator : reg[a] # None /\ queue'[n] = [to |-> a, frame |-> reg[a]]
<1>1. PICK as \in [1 .. Cardinality(Repeating) -> Repeating] :
        LET all == queue \o Repeated(as)
        IN  queue' = SubSeq(all, 1, Smaller(QueueSize, Len(all)))
  BY DEF TransmitAll
<1> DEFINE all == queue \o Repeated(as)
           added == Repeated(as)
           top == Smaller(QueueSize, Len(all))
<1>2. Cardinality(Repeating) \in Nat
  BY DriverAssumption, FS_Subset, FS_CardinalityType DEF Repeating
<1>3. /\ added = [n \in 1 .. Cardinality(Repeating) |-> [to |-> as[n], frame |-> reg[as[n]]]]
      /\ \A n \in 1 .. Cardinality(Repeating) : as[n] \in Actuator /\ reg[as[n]] # None
  BY <1>1 DEF Repeated, Repeating
<1>4. \A a \in Actuator : reg[a] # None => reg[a] \in Periodic
  BY DEF TypeOK
<1> HIDE DEF added
<1>5. added \in Seq(Item) /\ Len(added) = Cardinality(Repeating)
  <2> DEFINE c == Cardinality(Repeating)
             item(n) == [to |-> as[n], frame |-> reg[as[n]]]
  <2>1. \A n \in 1 .. c : item(n) \in Item
    BY <1>3, <1>4 DEF Item
  <2>2. added = [n \in 1 .. c |-> item(n)]
    BY <1>3
  <2> HIDE DEF c, item
  <2>3. c \in Nat
    BY <1>2 DEF c
  <2>4. added \in [1 .. c -> Item]
    BY <2>1, <2>2, Zenon
  <2>5. added \in Seq(Item) /\ DOMAIN added = 1 .. c
    BY <2>3, <2>4, SeqDef
  <2>6. Len(added) = c
    BY <2>3, <2>5
  <2>7. QED BY <2>5, <2>6 DEF c
<1>6. /\ Len(added) = Cardinality(Repeating)
      /\ \A n \in 1 .. Len(added) :
           \E a \in Actuator : reg[a] # None /\ added[n] = [to |-> a, frame |-> reg[a]]
  <2>1. ASSUME NEW n \in 1 .. Len(added)
        PROVE  \E a \in Actuator : reg[a] # None /\ added[n] = [to |-> a, frame |-> reg[a]]
    <3>1. n \in 1 .. Cardinality(Repeating)
      BY <1>5
    <3>2. added[n] = [to |-> as[n], frame |-> reg[as[n]]] /\ as[n] \in Actuator /\ reg[as[n]] # None
      BY <1>3, <3>1
    <3>3. QED BY <3>2
  <2>2. QED BY <1>5, <2>1
<1>7. queue \in Seq(Item) /\ QueueSize \in Nat
  BY PortAssumption DEF TypeOK, Item
<1>8. /\ all \in Seq(Item) /\ Len(all) = Len(queue) + Len(added)
      /\ \A n \in 1 .. Len(all) : all[n] = IF n <= Len(queue) THEN queue[n] ELSE added[n - Len(queue)]
  <2>1. all = queue \o added
    BY DEF added
  <2> HIDE DEF all
  <2>2. /\ queue \o added \in Seq(Item) /\ Len(queue \o added) = Len(queue) + Len(added)
        /\ \A n \in 1 .. Len(queue) + Len(added) :
             (queue \o added)[n] = IF n <= Len(queue) THEN queue[n] ELSE added[n - Len(queue)]
    BY <1>5, <1>7, ConcatProperties, Zenon
  <2>3. QED BY <2>1, <2>2, Zenon
<1>9. queue' = SubSeq(all, 1, top)
  BY <1>1
<1> HIDE DEF all
<1>10. top \in Nat /\ top <= QueueSize /\ top <= Len(all)
  BY <1>7, <1>8 DEF Smaller
<1> HIDE DEF top
<1>11. /\ queue' \in Seq(Item) /\ Len(queue') = top
       /\ \A n \in 1 .. top : queue'[n] = all[n]
  BY <1>8, <1>9, <1>10
<1>12. ASSUME NEW n \in 1 .. Len(queue')
       PROVE  \/ n \in 1 .. Len(queue) /\ queue'[n] = queue[n]
              \/ \E a \in Actuator : reg[a] # None /\ queue'[n] = [to |-> a, frame |-> reg[a]]
  <2>1. /\ n \in 1 .. Len(all) /\ queue'[n] = all[n]
        /\ Len(queue) \in Nat /\ Len(added) \in Nat
    <3>1. Len(queue) \in Nat /\ Len(added) \in Nat /\ Len(all) \in Nat
      BY <1>5, <1>7, <1>8
    <3>2. n \in 1 .. top
      BY <1>11
    <3>3. QED BY <1>10, <1>11, <3>1, <3>2
  <2>2. CASE n <= Len(queue)
    BY <1>8, <2>1, <2>2
  <2>3. CASE ~ (n <= Len(queue))
    <3>1. n - Len(queue) \in 1 .. Len(added) /\ queue'[n] = added[n - Len(queue)]
      BY <1>8, <2>1, <2>3
    <3>2. QED BY <1>6, <3>1
  <2>4. QED BY <2>2, <2>3
<1>13. QED BY <1>10, <1>11, <1>12

LEMMA Tails ==
  ASSUME NEW S, NEW s \in Seq(S), s # <<>>
  PROVE  /\ Tail(s) \in Seq(S) /\ Len(s) \in Nat \ {0} /\ DOMAIN s = 1 .. Len(s)
         /\ Len(Tail(s)) = Len(s) - 1 /\ DOMAIN Tail(s) = 1 .. Len(s) - 1
         /\ 1 \in 1 .. Len(s) /\ Head(s) = s[1] /\ s[1] \in S
         /\ \A n \in 1 .. Len(s) - 1 : Tail(s)[n] = s[n + 1] /\ n + 1 \in 1 .. Len(s)
<1>1. Tail(s) \in Seq(S) /\ Len(s) \in Nat \ {0} /\ DOMAIN s = 1 .. Len(s)
      /\ Len(Tail(s)) = Len(s) - 1
  OBVIOUS
<1>2. \A n \in 1 .. Len(s) - 1 : Tail(s)[n] = s[n + 1] /\ n + 1 \in 1 .. Len(s)
  OBVIOUS
<1>3. DOMAIN Tail(s) = 1 .. Len(s) - 1
  BY <1>1
<1>4. 1 \in 1 .. Len(s) /\ Head(s) = s[1] /\ s[1] \in S
  BY <1>1
<1>5. QED BY <1>1, <1>2, <1>3, <1>4

(* What a step of InitDriver leaves alone, and where it goes. *)
LEMMA InitDriverFrame ==
  ASSUME InitDriver
  PROVE  /\ mpc \in {"device", "attach"} /\ mpc' \in {"device", "attach", "enable", "failed"}
         /\ UNCHANGED <<reg, pending, queue, i, result, is_running, publishing, cpc, msg, motor,
                        reply, recv, lossy, bound, sender>>
         /\ stored' = stored \/ (mpc = "device" /\ mpc' = "enable")
         /\ mpc' \in {"device", "attach"} => stored' = stored
<1>1. CASE ReadDevice
  BY <1>1, Zenon DEF ReadDevice, Refuse, portVars, deviceVars, callbackVars, motorVars
<1>2. CASE ReadMotor
  BY <1>2, Zenon DEF ReadMotor, Refuse, portVars, deviceVars, callbackVars, motorVars
<1>3. CASE DeviceRead
  BY <1>3, Zenon DEF DeviceRead, portVars, deviceVars, callbackVars, motorVars
<1>4. CASE StartDevice
  BY <1>4 DEF StartDevice, StartLoop, portVars, deviceVars, callbackVars, motorVars
<1>5. QED BY <1>1, <1>2, <1>3, <1>4 DEF InitDriver

(* The other steps leave the wiring as it is. *)
LEMMA WiringFrame ==
  ASSUME Next, ~ InitDriver
  PROVE  /\ UNCHANGED <<config, motors, wiring, stored, shares>>
         /\ mpc' = mpc \/ (mpc \notin {"device", "attach"} /\ mpc' \notin {"device", "attach"})
<1> USE DEF wiringVars, moduleVars
<1>1. CASE Main
  <2> USE <1>1 DEF Main
  <2>1. CASE EnableMissing \/ RequestEnable \/ RequestStop \/ FireOnce
    BY <2>1, SMT DEF EnableMissing, RequestEnable, RequestStop, SendOnce, FireOnce
  <2>2. CASE PollEnable \/ SetLimp \/ Bind
    BY <2>2, SMT DEF PollEnable, SetLimp, Bind
  <2>3. CASE JoinPublish \/ PollDisable \/ StopDevice \/ JoinLoop
    BY <2>3, SMT DEF JoinPublish, PollDisable, StopDevice, JoinLoop
  <2>4. QED BY <2>1, <2>2, <2>3
<1>2. CASE Start \/ ShutdownBegin \/ PublishLoopEnds
  BY <1>2, SMT DEF Start, ShutdownBegin, PublishLoopEnds
<1>3. CASE LoopCheck \/ TransmitAll \/ (\E a \in Actuator : SenderThread(a) \/ Lose(a) \/ Receive(a))
  BY <1>3, Zenon DEF LoopCheck, TransmitAll, SenderThread, FindEmpty, Block, Deliver, Lose, Receive
<1>4. CASE CallbackBegin \/ CallbackWrite
  BY <1>4, Zenon DEF CallbackBegin, CallbackWrite
<1>5. QED BY <1>1, <1>2, <1>3, <1>4 DEF Next

LEMMA NewDevice ==
  ASSUME Attached, config # <<>>, config[1].name \notin DOMAIN wiring.devices,
         wiring' = CreateDevice(wiring, config[1]), config' = config
  PROVE  Attached' /\ Readable'
<1> DEFINE d == config[1]
<1>1. /\ wiring'.bus = wiring.bus /\ wiring'.id = wiring.id /\ wiring'.hears = wiring.hears
      /\ wiring'.devices = Put(wiring.devices, d.name, d.interfaces)
  BY DEF CreateDevice
<1>2. /\ d.name \in DOMAIN wiring'.devices
      /\ \A x \in DOMAIN wiring.devices :
           x \in DOMAIN wiring'.devices /\ wiring'.devices[x] = wiring.devices[x]
  BY <1>1 DEF Put
<1>3. ASSUME NEW a \in DOMAIN wiring.bus
      PROVE  /\ Address(wiring', a) = Address(wiring, a)
             /\ StoredFor(wiring', a) = StoredFor(wiring, a)
             /\ wiring.bus[a][1] \in DOMAIN wiring'.devices
  <2>1. wiring.bus[a][1] \in DOMAIN wiring.devices
    BY DEF Attached
  <2>2. Address(wiring', a) = Address(wiring, a)
    BY <1>1, <1>2, <2>1 DEF Address, Interface
  <2>3. QED BY <1>1, <1>2, <2>1, <2>2 DEF StoredFor
<1>4. Attached'
  BY <1>1, <1>3 DEF Attached
<1>5. QED BY <1>2, <1>4 DEF Readable

(* An actuator that is attached takes its address from whoever had it; on  *)
(* its own bus nobody had.                                                 *)
LEMMA NewActuator ==
  ASSUME Attached, Readable, mpc = "attach", motors[1].name \in Actuator,
         MayAttach(wiring, config[1], motors[1]),
         wiring' = AttachActuator(wiring, config[1], motors[1]),
         mpc' = mpc, config' = config
  PROVE  Attached' /\ Readable'
<1> DEFINE d == config[1]
           m == motors[1]
           here == <<d.name, m.bus>>
           key == <<Interface(wiring, here), m.id>>
<1>1. config # <<>> /\ d.name \in DOMAIN wiring.devices
  BY DEF Readable
<1>2. /\ m.name \notin DOMAIN wiring.bus
      /\ ~ \E a \in DOMAIN wiring.bus : wiring.bus[a] = here /\ wiring.id[a] = m.id
  BY DEF MayAttach, MayRegister
<1>3. /\ wiring'.devices = wiring.devices
      /\ wiring'.bus = Put(wiring.bus, m.name, here)
      /\ wiring'.id = Put(wiring.id, m.name, m.id)
      /\ wiring'.hears = Put(wiring.hears, key, m.name)
  BY DEF AttachActuator
<1>4. /\ DOMAIN wiring'.bus = DOMAIN wiring.bus \cup {m.name}
      /\ wiring'.bus[m.name] = here /\ m.name \in DOMAIN wiring'.id /\ wiring'.id[m.name] = m.id
      /\ DOMAIN wiring'.hears = DOMAIN wiring.hears \cup {key} /\ wiring'.hears[key] = m.name
      /\ \A x \in DOMAIN wiring.hears : x # key => wiring'.hears[x] = wiring.hears[x]
  BY <1>3 DEF Put
<1>5. ASSUME NEW a \in DOMAIN wiring.bus
      PROVE  /\ wiring'.bus[a] = wiring.bus[a]
             /\ a \in DOMAIN wiring'.id /\ wiring'.id[a] = wiring.id[a]
             /\ Address(wiring', a) = Address(wiring, a)
  <2>1. a # m.name /\ a \in DOMAIN wiring.id
    BY <1>2 DEF Attached
  <2>2. wiring'.bus[a] = wiring.bus[a] /\ a \in DOMAIN wiring'.id /\ wiring'.id[a] = wiring.id[a]
    BY <1>3, <2>1 DEF Put
  <2>3. QED BY <1>3, <2>2 DEF Address, Interface
<1>6. Address(wiring', m.name) = key
  BY <1>3, <1>4 DEF Address, Interface
<1> HIDE DEF key, m
<1>7. ASSUME NEW a \in DOMAIN wiring'.bus
      PROVE  /\ a \in DOMAIN wiring'.id /\ wiring'.bus[a][1] \in DOMAIN wiring'.devices
             /\ Address(wiring', a) \in DOMAIN wiring'.hears
             /\ StoredFor(wiring', a) \in DOMAIN wiring'.bus
             /\ Address(wiring', StoredFor(wiring', a)) = Address(wiring', a)
  <2>1. a \in DOMAIN wiring'.id /\ wiring'.bus[a][1] \in DOMAIN wiring'.devices
    <3>1. CASE a = m.name
      BY <1>1, <1>3, <1>4, <3>1
    <3>2. CASE a \in DOMAIN wiring.bus
      BY <1>3, <1>5, <3>2 DEF Attached
    <3>3. QED BY <1>4, <3>1, <3>2
  <2>2. CASE Address(wiring', a) = key
    BY <1>4, <1>6, <2>1, <2>2 DEF StoredFor
  <2>3. CASE Address(wiring', a) # key
    <3>1. a \in DOMAIN wiring.bus
      BY <1>4, <1>6, <2>3
    <3>2. /\ Address(wiring, a) \in DOMAIN wiring.hears
          /\ StoredFor(wiring, a) \in DOMAIN wiring.bus
          /\ Address(wiring, StoredFor(wiring, a)) = Address(wiring, a)
          /\ Address(wiring', a) = Address(wiring, a)
      BY <1>5, <3>1 DEF Attached
    <3>3. StoredFor(wiring', a) = StoredFor(wiring, a)
      BY <1>4, <2>3, <3>2 DEF StoredFor
    <3>4. QED BY <1>4, <1>5, <2>1, <3>2, <3>3
  <2>4. QED BY <2>2, <2>3
<1>8. ASSUME NEW a \in DOMAIN wiring'.bus, NEW b \in DOMAIN wiring'.bus,
             wiring'.bus[a] = wiring'.bus[b], wiring'.id[a] = wiring'.id[b]
      PROVE  a = b
  <2>1. CASE a \in DOMAIN wiring.bus /\ b \in DOMAIN wiring.bus
    BY <1>5, <1>8, <2>1 DEF Attached
  <2>2. CASE a = m.name
    BY <1>2, <1>4, <1>5, <1>8, <2>2
  <2>3. CASE b = m.name
    BY <1>2, <1>4, <1>5, <1>8, <2>3
  <2>4. QED BY <1>4, <2>1, <2>2, <2>3
<1>9. DOMAIN wiring'.bus \subseteq Actuator
  BY <1>4 DEF Attached, m
<1>10. Attached'
  BY <1>7, <1>8, <1>9 DEF Attached
<1>11. QED BY <1>1, <1>3, <1>10 DEF Readable

LEMMA MotorsOfDevice ==
  ASSUME NEW d \in Device
  PROVE  d.motors \in Seq(Entry)
<1>1. PICK network \in Networks : \E x \in DOMAIN network : d = network[x]
  BY DEF Device
<1>2. QED BY <1>1, WiringAssumption

LEMMA NothingWired == DOMAIN NoWiring.bus = {} /\ DOMAIN Empty = {}
BY DEF NoWiring, Empty

LEMMA NothingToRead ==
  ASSUME wiring' = NoWiring, mpc' # "attach"
  PROVE  Attached' /\ Readable'
<1>1. DOMAIN wiring'.bus = {}
  BY NothingWired
<1>2. QED BY <1>1 DEF Attached, Readable

LEMMA Refused ==
  ASSUME Refuse
  PROVE  Attached' /\ Readable' /\ config' \in Seq(Device) /\ motors' \in Seq(Entry)
<1>1. mpc' # "attach" /\ config' = <<>> /\ motors' = <<>> /\ wiring' = NoWiring
  BY DEF Refuse
<1>2. Attached' /\ Readable'
  BY <1>1, NothingToRead
<1>3. config' \in Seq(Device)
  BY <1>1
<1>4. motors' \in Seq(Entry)
  BY <1>1
<1>5. QED BY <1>2, <1>3, <1>4

(* What is stored for whom follows from the callbacks. *)
LEMMA StoredFromWiring ==
  ASSUME Attached,
         stored' = [a \in {b \in Actuator : FindBus(wiring, b)} |-> StoredFor(wiring, a)]
  PROVE  /\ DOMAIN stored' \subseteq Actuator
         /\ \A a \in DOMAIN stored' : stored'[a] \in DOMAIN stored' /\ stored'[stored'[a]] = stored'[a]
<1>1. DOMAIN stored' = DOMAIN wiring.bus /\ DOMAIN stored' \subseteq Actuator
  BY DEF Attached, FindBus
<1>2. ASSUME NEW a \in DOMAIN stored'
      PROVE  stored'[a] \in DOMAIN stored' /\ stored'[stored'[a]] = stored'[a]
  <2> DEFINE b == StoredFor(wiring, a)
  <2>1. a \in DOMAIN wiring.bus /\ stored'[a] = b
    BY <1>1
  <2>2. b \in DOMAIN wiring.bus /\ Address(wiring, b) = Address(wiring, a)
    BY <2>1 DEF Attached
  <2>3. StoredFor(wiring, b) = b
    BY <2>2 DEF StoredFor
  <2>4. stored'[b] = b
    BY <1>1, <2>2, <2>3
  <2>5. QED BY <1>1, <2>1, <2>2, <2>4
<1>3. QED BY <1>1, <1>2

(* What the wiring types say of the two maps that are kept. *)
WiredTypes ==
  \E as \in SUBSET Actuator : stored \in [as -> Actuator] /\ shares \in [as -> SUBSET Actuator]

(* A step leaves what is attached and what is left to read consistent.     *)
LEMMA WiringKept ==
  ASSUME TypeOK, Attached, Readable, Stored, [Next]_vars
  PROVE  /\ Attached' /\ Readable' /\ Stored'
         /\ config' \in Seq(Device) /\ motors' \in Seq(Entry)
         /\ WiredTypes'
<1>1. config \in Seq(Device) /\ motors \in Seq(Entry) /\ WiredTypes
  BY DEF TypeOK, WiredTypes
<1>2. CASE ReadDevice
  <2> USE <1>2 DEF ReadDevice
  <2>1. mpc = "device" /\ config # <<>> /\ UNCHANGED <<stored, shares>> /\ Head(config) = config[1]
    BY <1>1, Tails
  <2>2. config[1] \in Device /\ Tail(config) \in Seq(Device)
    BY <1>1, <2>1, Tails
  <2>3. Stored' /\ WiredTypes'
    BY <1>1, <2>1 DEF Stored, WiredTypes
  <2>4. CASE ~ config[1].enable /\ config' = Tail(config) /\ UNCHANGED <<mpc, motors, wiring>>
    <3>1. Attached'
      BY <2>4 DEF Attached
    <3>2. Readable'
      BY <2>1, <2>4 DEF Readable
    <3>3. QED BY <1>1, <2>2, <2>3, <2>4, <3>1, <3>2
  <2>5. CASE /\ config[1].enable /\ MayCreate(wiring, config[1])
             /\ mpc' = "attach" /\ motors' = config[1].motors
             /\ wiring' = CreateDevice(wiring, config[1])
             /\ UNCHANGED config
    <3>1. Attached' /\ Readable'
      BY <2>1, <2>5, NewDevice DEF MayCreate
    <3>2. QED BY <1>1, <2>2, <2>3, <2>5, <3>1, MotorsOfDevice
  <2>6. CASE Refuse
    BY <2>3, <2>6, Refused
  <2>7. QED BY <2>1, <2>4, <2>5, <2>6
<1>3. CASE ReadMotor
  <2> USE <1>3 DEF ReadMotor
  <2>1. mpc = "attach" /\ motors # <<>> /\ UNCHANGED <<stored, shares>> /\ Head(motors) = motors[1]
        /\ Tail(motors) \in Seq(Entry)
    BY <1>1, Tails
  <2>2. Stored' /\ WiredTypes'
    BY <1>1, <2>1 DEF Stored, WiredTypes
  <2>3. CASE Refuse
    BY <2>2, <2>3, Refused
  <2>4. config # <<>> /\ Head(config) = config[1]
    BY <1>1, <2>1, Tails DEF Readable
  <2>5. CASE /\ motors[1].name \in Actuator /\ MayAttach(wiring, config[1], motors[1])
             /\ wiring' = AttachActuator(wiring, config[1], motors[1])
             /\ motors' = Tail(motors) /\ UNCHANGED <<mpc, config>>
    BY <1>1, <2>1, <2>2, <2>5, NewActuator
  <2>6. CASE motors' = Tail(motors) /\ UNCHANGED <<mpc, config, wiring>>
    <3>1. Attached' /\ Readable'
      BY <2>6 DEF Attached, Readable
    <3>2. QED BY <1>1, <2>1, <2>2, <2>6, <3>1
  <2>7. QED BY <2>1, <2>3, <2>4, <2>5, <2>6
<1>4. CASE DeviceRead
  <2>1. mpc = "attach" /\ mpc' = "device" /\ config' = Tail(config)
        /\ UNCHANGED <<motors, wiring, stored, shares>>
    BY <1>4 DEF DeviceRead
  <2>2. config # <<>> /\ Tail(config) \in Seq(Device)
    BY <1>1, <2>1, Tails DEF Readable
  <2>3. Attached' /\ Readable'
    BY <2>1 DEF Attached, Readable
  <2>4. QED BY <1>1, <2>1, <2>2, <2>3 DEF Stored, WiredTypes
<1>5. CASE StartDevice
  <2>1. /\ mpc = "device" /\ config = <<>> /\ config' = config /\ motors' = motors
        /\ wiring' = NoWiring /\ mpc' \in {"enable", "failed"}
        /\ \/ UNCHANGED <<stored, shares>>
           \/ /\ stored' = [a \in {b \in Actuator : FindBus(wiring, b)} |-> StoredFor(wiring, a)]
              /\ shares' = [a \in {b \in Actuator : FindBus(wiring, b)} |-> SharesSocket(wiring, a)]
    BY <1>5 DEF StartDevice
  <2>2. Attached' /\ Readable'
    BY <2>1, NothingToRead
  <2>3. CASE UNCHANGED <<stored, shares>>
    BY <1>1, <2>1, <2>2, <2>3 DEF Stored, WiredTypes
  <2>4. CASE /\ stored' = [a \in {b \in Actuator : FindBus(wiring, b)} |-> StoredFor(wiring, a)]
             /\ shares' = [a \in {b \in Actuator : FindBus(wiring, b)} |-> SharesSocket(wiring, a)]
    <3> DEFINE as == {b \in Actuator : FindBus(wiring, b)}
    <3>1. Stored'
      BY <2>1, <2>4, StoredFromWiring DEF Stored
    <3>2. \A a \in as : StoredFor(wiring, a) \in Actuator
      BY DEF Attached, FindBus
    <3>3. \A a \in as : SharesSocket(wiring, a) \in SUBSET Actuator
      BY DEF Attached, SharesSocket
    <3>4. stored' \in [as -> Actuator]
      BY <2>4, <3>2
    <3>5. shares' \in [as -> SUBSET Actuator]
      BY <2>4, <3>3
    <3>6. WiredTypes'
      BY <3>4, <3>5 DEF WiredTypes
    <3>7. QED BY <1>1, <2>1, <2>2, <3>1, <3>6
  <2>5. QED BY <2>1, <2>3, <2>4
<1>6. CASE UNCHANGED vars \/ (Next /\ ~ InitDriver)
  <2>1. /\ UNCHANGED <<config, motors, wiring, stored, shares>>
        /\ mpc' = mpc \/ (mpc \notin {"device", "attach"} /\ mpc' \notin {"device", "attach"})
    BY <1>6, WiringFrame DEF vars, wiringVars, moduleVars
  <2>2. Attached'
    BY <2>1 DEF Attached
  <2>3. Readable'
    BY <2>1 DEF Readable
  <2>4. Stored'
    BY <2>1 DEF Stored
  <2>5. QED BY <1>1, <2>1, <2>2, <2>3, <2>4 DEF WiredTypes
<1>7. QED BY <1>2, <1>3, <1>4, <1>5, <1>6 DEF Next, InitDriver

LEMMA Types ==
  ASSUME TypeOK
  PROVE  /\ queue \in Seq(Item) /\ Len(queue) \in Nat /\ DOMAIN queue = 1 .. Len(queue)
         /\ QueueSize \in Nat \ {0} /\ Len(queue) <= QueueSize /\ main \in User
         /\ DOMAIN stored \subseteq Actuator
         /\ \A n \in 1 .. Len(queue) : queue[n] \in Item
<1>1. queue \in Seq(Item) /\ Len(queue) <= QueueSize
  BY DEF TypeOK, Item
<1>2. Len(queue) \in Nat /\ DOMAIN queue = 1 .. Len(queue) /\ \A n \in 1 .. Len(queue) : queue[n] \in Item
  BY <1>1
<1>3. QueueSize \in Nat \ {0} /\ main \in User
  BY PortAssumption, DriverAssumption DEF main
<1>4. DOMAIN stored \subseteq Actuator
  BY DEF TypeOK
<1>5. QED BY <1>1, <1>2, <1>3, <1>4

(* A one-shot is appended to the queue, or forgotten. *)
LEMMA Fired ==
  ASSUME TypeOK, Sent, FireOnce
  PROVE  /\ pending[main] # NoRequest /\ pending[main] \in Item
         /\ mpc \in {"enabling", "disabling"}
         /\ pending' = [pending EXCEPT ![main] = NoRequest]
         /\ queue' \in Seq(Item) /\ Len(queue') <= QueueSize
         /\ \A n \in 1 .. Len(queue') :
              \/ n \in 1 .. Len(queue) /\ queue'[n] = queue[n]
              \/ n = Len(queue) + 1 /\ queue'[n] = pending[main]
         /\ UNCHANGED <<reg, moduleVars, deviceVars, callbackVars, motorVars, wiringVars>>
<1>1. /\ pending[main] # NoRequest /\ queue' = Offered(queue, pending[main])
      /\ pending' = [pending EXCEPT ![main] = NoRequest]
      /\ UNCHANGED <<reg, moduleVars, deviceVars, callbackVars, motorVars, wiringVars>>
  BY DEF FireOnce, Fire
<1>2. /\ queue \in Seq(Item) /\ Len(queue) \in Nat /\ Len(queue) <= QueueSize
      /\ QueueSize \in Nat \ {0} /\ DOMAIN stored \subseteq Actuator
  BY Types
<1>3. /\ mpc \in {"enabling", "disabling"}
      /\ pending[main] \in Item
  <2>1. \/ /\ mpc = "enabling" /\ EnableOrder[i] \in DOMAIN stored
           /\ pending[main] = [to |-> EnableOrder[i], frame |-> Enable]
        \/ /\ mpc = "disabling" /\ DisableOrder[i] \in DOMAIN stored
           /\ pending[main] = [to |-> DisableOrder[i], frame |-> Stop]
    BY <1>1 DEF Sent
  <2>2. QED BY <2>1, <1>2, Frames DEF Item
<1>4. CASE Len(queue) < QueueSize
  <2>1. queue' = Append(queue, pending[main])
    BY <1>1, <1>4 DEF Offered
  <2>2. /\ queue' \in Seq(Item) /\ Len(queue') = Len(queue) + 1
        /\ \A n \in 1 .. Len(queue) + 1 :
             queue'[n] = IF n <= Len(queue) THEN queue[n] ELSE pending[main]
    BY <1>2, <1>3, <2>1
  <2>3. QED BY <1>1, <1>2, <1>3, <1>4, <2>2
<1>5. CASE ~ (Len(queue) < QueueSize)
  BY <1>1, <1>2, <1>3, <1>5 DEF Offered
<1>6. QED BY <1>4, <1>5

(* Where an element of the shorter queue was before the n-th was taken. *)
Skip(m, n) == IF m < n THEN m ELSE m + 1

LEMMA Removed ==
  ASSUME NEW S, NEW s \in Seq(S), NEW n \in 1 .. Len(s)
  PROVE  /\ RemoveAt(s, n) \in Seq(S) /\ Len(RemoveAt(s, n)) = Len(s) - 1
         /\ \A m \in 1 .. Len(s) - 1 : RemoveAt(s, n)[m] = s[Skip(m, n)]
<1> DEFINE a == SubSeq(s, 1, n - 1)
           b == SubSeq(s, n + 1, Len(s))
<1>1. Len(s) \in Nat /\ n \in Nat /\ 1 <= n /\ n <= Len(s) /\ \A m \in 1 .. Len(s) : s[m] \in S
  OBVIOUS
<1>2. a \in Seq(S) /\ Len(a) = n - 1 /\ \A m \in 1 .. n - 1 : a[m] = s[m]
  <2>1. /\ \A m \in 1 .. n - 1 : s[m] \in S
        /\ n - 1 \in Int
    BY <1>1
  <2>2. /\ a \in Seq(S) /\ Len(a) = IF 1 <= n - 1 THEN n - 1 - 1 + 1 ELSE 0
        /\ \A m \in 1 .. n - 1 - 1 + 1 : a[m] = s[1 + m - 1]
    BY <2>1, SubSeqProperties
  <2> HIDE DEF a
  <2>3. QED BY <1>1, <2>2
<1>3. b \in Seq(S) /\ Len(b) = Len(s) - n /\ \A m \in 1 .. Len(s) - n : b[m] = s[m + n]
  <2>1. /\ \A m \in n + 1 .. Len(s) : s[m] \in S
        /\ n + 1 \in Int /\ Len(s) \in Int
    BY <1>1
  <2>2. /\ b \in Seq(S) /\ Len(b) = IF n + 1 <= Len(s) THEN Len(s) - (n + 1) + 1 ELSE 0
        /\ \A m \in 1 .. Len(s) - (n + 1) + 1 : b[m] = s[n + 1 + m - 1]
    BY <2>1, SubSeqProperties, SMTT(60)
  <2> HIDE DEF b
  <2>3. QED BY <1>1, <2>2
<1>4. RemoveAt(s, n) = a \o b
  BY DEF RemoveAt
<1> HIDE DEF a, b
<1>5. /\ a \o b \in Seq(S) /\ Len(a \o b) = Len(a) + Len(b)
      /\ \A m \in 1 .. Len(a) + Len(b) : (a \o b)[m] = IF m <= Len(a) THEN a[m] ELSE b[m - Len(a)]
  BY <1>2, <1>3, ConcatProperties
<1>6. Len(a) + Len(b) = Len(s) - 1
  BY <1>1, <1>2, <1>3
<1>7. ASSUME NEW m \in 1 .. Len(s) - 1 PROVE (a \o b)[m] = s[Skip(m, n)]
  <2>1. (a \o b)[m] = IF m <= n - 1 THEN a[m] ELSE b[m - (n - 1)]
    BY <1>2, <1>5, <1>6
  <2>2. CASE m < n
    BY <1>1, <1>2, <2>1, <2>2 DEF Skip
  <2>3. CASE ~ (m < n)
    <3>1. m - (n - 1) \in 1 .. Len(s) - n /\ m - (n - 1) + n = m + 1 /\ ~ (m <= n - 1)
      BY <1>1, <2>3
    <3>2. QED BY <1>3, <2>1, <2>3, <3>1 DEF Skip
  <2>4. QED BY <2>2, <2>3
<1>8. QED BY <1>4, <1>5, <1>6, <1>7

LEMMA Taken ==
  ASSUME TypeOK, NEW a, NEW n \in DOMAIN queue, Pop(a, n)
  PROVE  /\ queue' \in Seq(Item) /\ Len(queue') = Len(queue) - 1 /\ Len(queue') <= QueueSize
         /\ DOMAIN queue' = 1 .. Len(queue') /\ queue[n] \in Item /\ queue[n].to = a
         /\ \A m \in DOMAIN queue' : /\ queue'[m] = queue[Skip(m, n)]
                                     /\ Skip(m, n) \in DOMAIN queue /\ Skip(m, n) # n
         /\ \A l, m \in DOMAIN queue' : Skip(l, n) = Skip(m, n) => l = m
         /\ UNCHANGED <<reg, pending>>
<1>1. queue' = RemoveAt(queue, n) /\ queue[n].to = a /\ UNCHANGED <<reg, pending>>
  BY DEF Pop
<1>2. /\ queue \in Seq(Item) /\ Len(queue) \in Nat /\ DOMAIN queue = 1 .. Len(queue)
      /\ Len(queue) <= QueueSize /\ QueueSize \in Nat /\ queue[n] \in Item
  BY Types
<1>3. /\ queue' \in Seq(Item) /\ Len(queue') = Len(queue) - 1
      /\ \A m \in 1 .. Len(queue) - 1 : queue'[m] = queue[Skip(m, n)]
  BY <1>1, <1>2, Removed
<1>4. DOMAIN queue' = 1 .. Len(queue) - 1
  BY <1>2, <1>3
<1>5. \A m \in 1 .. Len(queue) - 1 : Skip(m, n) \in 1 .. Len(queue) /\ Skip(m, n) # n
  BY <1>2 DEF Skip
<1>6. \A l, m \in 1 .. Len(queue) - 1 : Skip(l, n) = Skip(m, n) => l = m
  BY <1>2 DEF Skip
<1>7. QED BY <1>1, <1>2, <1>3, <1>4, <1>5, <1>6

(* In a clean wiring a frame is obeyed by one motor. *)
LEMMA Delivered ==
  ASSUME TypeOK, Sent, Clean, NEW a \in Actuator, Deliver(a)
  PROVE  \E n \in DOMAIN queue :
           /\ Pop(a, n)
           /\ motor' = [motor EXCEPT ![a] = Obey(motor[a], queue[n].frame)]
           /\ reply' = [reply EXCEPT ![a] = IF motor'[a].on THEN "enabled" ELSE "disabled"]
           /\ recv' = recv
<1>1. PICK n \in DOMAIN queue :
        /\ Pop(a, n)
        /\ motor' = [b \in Actuator |->
             IF b \in AtAddress(a) THEN Obey(motor[b], queue[n].frame) ELSE motor[b]]
        /\ reply' = [b \in Actuator |->
             IF b \notin AtAddress(a) THEN reply[b] ELSE IF motor'[b].on THEN "enabled" ELSE "disabled"]
        /\ recv' = recv
  BY Zenon DEF Deliver
<1>2. a \in DOMAIN stored
  BY <1>1 DEF Pop, Sent
<1>3. AtAddress(a) = {a}
  BY <1>2 DEF AtAddress, Clean
<1>4. motor' = [motor EXCEPT ![a] = Obey(motor[a], queue[n].frame)]
  BY <1>1, <1>3 DEF TypeOK
<1>5. reply' = [reply EXCEPT ![a] = IF motor'[a].on THEN "enabled" ELSE "disabled"]
  BY <1>1, <1>3 DEF TypeOK
<1>6. QED BY <1>1, <1>4, <1>5

-----------------------------------------------------------------------------
(* Types, thread by thread. *)
MainThread ==
  /\ mpc \in {"device", "attach", "enable", "enabling", "limp", "bind", "ready", "failed", "up",
              "join", "disable", "disabling", "stop", "joinloop", "down"}
  /\ i \in 1 .. IF mpc \in {"disable", "disabling"} THEN Len(DisableOrder) ELSE Len(EnableOrder)
  /\ result \in BOOLEAN /\ is_running \in BOOLEAN /\ publishing \in BOOLEAN

LEMMA Counting ==
  /\ Len(EnableOrder) \in Nat \ {0} /\ Len(DisableOrder) \in Nat \ {0}
  /\ Len(CallbackOrder) \in Nat \ {0}
  /\ \A k \in 1 .. Len(EnableOrder) : EnableOrder[k] \in Actuator
  /\ \A k \in 1 .. Len(DisableOrder) : DisableOrder[k] \in Actuator
  /\ \A k \in 1 .. Len(CallbackOrder) : CallbackOrder[k] \in Actuator
BY Orders, Zenon

LEMMA Visited ==
  /\ \A a \in Actuator : \E k \in 1 .. Len(EnableOrder) : EnableOrder[k] = a
  /\ \A a \in Actuator : \E k \in 1 .. Len(DisableOrder) : DisableOrder[k] = a
  /\ \A k, l \in 1 .. Len(EnableOrder) : EnableOrder[k] = EnableOrder[l] => k = l
BY Orders, Zenon

(* Which i goes with which state. *)
LEMMA At ==
  ASSUME MainThread
  PROVE  /\ mpc \in {"disable", "disabling"} => i \in 1 .. Len(DisableOrder)
         /\ mpc \notin {"disable", "disabling"} => i \in 1 .. Len(EnableOrder)
BY DEF MainThread

LEMMA MainThreadKept ==
  ASSUME MainThread, mpc = "join" => i = 1, [Next]_vars
  PROVE  MainThread'
<1>1. /\ Len(EnableOrder) \in Nat \ {0} /\ Len(DisableOrder) \in Nat \ {0}
      /\ 1 \in 1 .. Len(EnableOrder) /\ 1 \in 1 .. Len(DisableOrder)
  BY Counting
<1>2. /\ mpc \in {"disable", "disabling"} => i \in 1 .. Len(DisableOrder)
      /\ mpc \notin {"disable", "disabling"} => i \in 1 .. Len(EnableOrder)
  BY At
<1>3. result \in BOOLEAN /\ is_running \in BOOLEAN /\ publishing \in BOOLEAN
  BY DEF MainThread
<1>4. CASE UNCHANGED moduleVars
  BY <1>4 DEF moduleVars, MainThread
<1>5. CASE EnableMissing
  <2>1. /\ mpc = "enable" /\ result' = FALSE /\ UNCHANGED <<is_running, publishing>>
        /\ \/ i < Len(EnableOrder) /\ i' = i + 1 /\ mpc' = mpc
           \/ i' = 1 /\ mpc' = "failed"
    BY <1>5 DEF EnableMissing
  <2>2. i \in 1 .. Len(EnableOrder)
    BY <1>2, <2>1
  <2>3. i' \in 1 .. Len(EnableOrder)
    BY <1>1, <2>1, <2>2
  <2>4. QED BY <1>3, <2>1, <2>3 DEF MainThread
<1>6. CASE PollEnable
  <2>1. /\ mpc = "enabling" /\ UNCHANGED <<is_running, publishing>>
        /\ \/ i < Len(EnableOrder) /\ i' = i + 1 /\ mpc' = "enable"
           \/ i' = 1 /\ mpc' \in {"limp", "failed"}
    BY <1>6 DEF PollEnable
  <2>2. result' \in BOOLEAN
    BY <1>3, <1>6, Zenon DEF PollEnable
  <2>3. i \in 1 .. Len(EnableOrder)
    BY <1>2, <2>1
  <2>4. i' \in 1 .. Len(EnableOrder)
    BY <1>1, <2>1, <2>3
  <2>5. QED BY <1>3, <2>1, <2>2, <2>4 DEF MainThread
<1>7. CASE SetLimp
  <2>1. /\ mpc = "limp" /\ UNCHANGED <<result, is_running, publishing>>
        /\ \/ i < Len(EnableOrder) /\ i' = i + 1 /\ mpc' = mpc
           \/ i' = 1 /\ mpc' = "bind"
    BY <1>7 DEF SetLimp
  <2>2. i \in 1 .. Len(EnableOrder)
    BY <1>2, <2>1
  <2>3. i' \in 1 .. Len(EnableOrder)
    BY <1>1, <2>1, <2>2
  <2>4. QED BY <1>3, <2>1, <2>3 DEF MainThread
<1>8. CASE PollDisable
  <2>1. /\ mpc = "disabling" /\ UNCHANGED <<is_running, publishing>>
        /\ \/ i < Len(DisableOrder) /\ i' = i + 1 /\ mpc' = "disable"
           \/ i' = 1 /\ mpc' = "stop"
    BY <1>8 DEF PollDisable
  <2>2. result' \in BOOLEAN
    BY <1>3, <1>8, Zenon DEF PollDisable
  <2>3. i \in 1 .. Len(DisableOrder)
    BY <1>2, <2>1
  <2>4. CASE mpc' = "disable" /\ i' = i + 1 /\ i < Len(DisableOrder)
    <3>1. i' \in 1 .. Len(DisableOrder)
      BY <1>1, <2>3, <2>4
    <3>2. QED BY <1>3, <2>1, <2>2, <2>4, <3>1 DEF MainThread
  <2>5. CASE mpc' = "stop" /\ i' = 1
    BY <1>1, <1>3, <2>1, <2>2, <2>5 DEF MainThread
  <2>6. QED BY <2>1, <2>4, <2>5
<1>9. CASE RequestEnable \/ RequestStop
  <2>1. /\ \/ mpc = "enable" /\ mpc' = "enabling"
           \/ mpc = "disable" /\ mpc' = "disabling"
        /\ UNCHANGED <<i, result, is_running, publishing>>
    BY <1>9 DEF RequestEnable, RequestStop, SendOnce
  <2>2. QED BY <1>2, <1>3, <2>1 DEF MainThread
<1>10. CASE Bind \/ StopDevice \/ JoinLoop \/ Start
  <2>1. /\ mpc \in {"bind", "ready", "stop", "joinloop"} /\ mpc' \in {"ready", "up", "joinloop", "down"}
        /\ UNCHANGED <<i, result>> /\ is_running' \in BOOLEAN /\ publishing' \in BOOLEAN
    BY <1>3, <1>10 DEF Bind, StopDevice, JoinLoop, Start
  <2>2. QED BY <1>2, <1>3, <2>1 DEF MainThread
<1>11. CASE ShutdownBegin \/ PublishLoopEnds
  <2>1. /\ mpc' = mpc \/ (mpc = "up" /\ mpc' = "join")
        /\ UNCHANGED <<i, result>> /\ is_running' \in BOOLEAN /\ publishing' \in BOOLEAN
    BY <1>3, <1>11 DEF ShutdownBegin, PublishLoopEnds
  <2>2. QED BY <1>2, <1>3, <2>1 DEF MainThread
<1>12. CASE InitDriver
  <2>1. /\ mpc \in {"device", "attach"} /\ mpc' \in {"device", "attach", "enable", "failed"}
        /\ UNCHANGED <<i, result, is_running, publishing>>
    BY <1>12, InitDriverFrame
  <2>2. QED BY <1>2, <1>3, <2>1 DEF MainThread
<1>13. CASE FireOnce \/ LoopCheck \/ TransmitAll \/ CallbackBegin \/ CallbackWrite
            \/ (\E a \in Actuator : SenderThread(a) \/ Lose(a) \/ Receive(a))
  <2>1. UNCHANGED moduleVars
    BY <1>13, Zenon DEF FireOnce, LoopCheck, TransmitAll, SenderThread, FindEmpty, Block, Deliver, Lose,
       Receive, CallbackBegin, CallbackWrite
  <2>2. QED BY <1>4, <2>1
<1>14. CASE JoinPublish
  <2>1. mpc' = "disable" /\ i = 1 /\ UNCHANGED <<i, result, is_running, publishing>>
    BY <1>14 DEF JoinPublish
  <2>2. QED BY <1>1, <1>3, <2>1 DEF MainThread
<1>15. CASE UNCHANGED vars
  BY <1>4, <1>15 DEF vars
<1>16. QED
  BY <1>5, <1>6, <1>7, <1>8, <1>9, <1>10, <1>11, <1>12, <1>13, <1>14, <1>15, Zenon DEF Next, Main

(* The loop's thread, the callback's, and the motors. *)
Others ==
  /\ loop_on \in BOOLEAN /\ lpc \in {"off", "check", "send", "ended"}
  /\ cpc \in 0 .. Len(CallbackOrder) /\ msg \in 0 .. MaxCmd
  /\ motor \in [Actuator -> [on : BOOLEAN, cmd : 0 .. MaxCmd]]
  /\ reply \in [Actuator -> {"none", "enabled", "disabled"}]
  /\ recv \in [Actuator -> {"none", "enabled", "disabled"}]
  /\ lossy \in BOOLEAN /\ bound \subseteq Actuator
  /\ sender \in [Actuator -> {"loop", "blocking", "waiting"}]

LEMMA Obeyed ==
  ASSUME NEW state \in [on : BOOLEAN, cmd : 0 .. MaxCmd], NEW f \in Periodic \cup Once
  PROVE  /\ Obey(state, f) \in [on : BOOLEAN, cmd : 0 .. MaxCmd]
         /\ f = Enable => Obey(state, f).on
         /\ f = Stop => ~ Obey(state, f).on
         /\ f \in Periodic => (Obey(state, f).on <=> state.on)
<1>1. (f = Enable \/ (state.on /\ f # Stop)) \in BOOLEAN
  OBVIOUS
<1>2. (IF f \in Periodic /\ state.on THEN f[2] ELSE state.cmd) \in 0 .. MaxCmd
  BY Frames
<1>3. Obey(state, f) \in [on : BOOLEAN, cmd : 0 .. MaxCmd]
  BY <1>1, <1>2 DEF Obey
<1>4. Obey(state, f).on = (f = Enable \/ (state.on /\ f # Stop))
  BY DEF Obey
<1>5. QED BY <1>3, <1>4, Frames

LEMMA SenderTypes ==
  ASSUME sender \in [Actuator -> {"loop", "blocking", "waiting"}], [Next]_vars
  PROVE  sender' \in [Actuator -> {"loop", "blocking", "waiting"}]
<1>1. CASE UNCHANGED sender
  BY <1>1
<1>2. CASE \E as : Notify(as)
  BY <1>2 DEF Notify
<1>3. CASE \E a \in Actuator, state \in {"blocking", "waiting"} : sender' = Switch(a, state)
  BY <1>3 DEF Switch
<1>4. CASE UNCHANGED vars
  BY <1>1, <1>4 DEF vars
<1>5. CASE InitDriver
  BY <1>1, <1>5, InitDriverFrame
<1>6. CASE (Main \/ Start \/ ShutdownBegin \/ PublishLoopEnds) /\ ~ FireOnce
  <2>1. UNCHANGED sender
    BY <1>6, Zenon DEF Main, EnableMissing, RequestEnable, RequestStop, SendOnce, PollEnable, SetLimp, Bind,
       JoinPublish, PollDisable, StopDevice, JoinLoop, Start, ShutdownBegin, PublishLoopEnds
  <2>2. QED BY <1>1, <2>1
<1>7. CASE FireOnce \/ TransmitAll
  BY <1>2, <1>7, Zenon DEF FireOnce, TransmitAll
<1>8. CASE LoopCheck \/ CallbackBegin \/ CallbackWrite \/ (\E a \in Actuator : Deliver(a) \/ Lose(a) \/ Receive(a))
  BY <1>1, <1>8, Zenon DEF LoopCheck, CallbackBegin, CallbackWrite, Deliver, Lose, Receive, motorVars
<1>9. CASE \E a \in Actuator : FindEmpty(a) \/ Block(a)
  BY <1>3, <1>9, Zenon DEF FindEmpty, Block
<1>10. QED
  BY <1>4, <1>5, <1>6, <1>7, <1>8, <1>9, Zenon DEF Next, Main, SenderThread

LEMMA OthersKept ==
  ASSUME TypeOK, Others, [Next]_vars
  PROVE  Others'
<1> USE DEF deviceVars, callbackVars, motorVars, wiringVars
<1>0. sender' \in [Actuator -> {"loop", "blocking", "waiting"}]
  BY SenderTypes DEF Others
<1>1. CASE EnableMissing \/ RequestEnable \/ RequestStop \/ FireOnce \/ PollEnable \/ SetLimp
           \/ JoinPublish \/ PollDisable \/ JoinLoop \/ Start \/ ShutdownBegin \/ PublishLoopEnds
           \/ TransmitAll \/ (\E a \in Actuator : FindEmpty(a) \/ Block(a) \/ Lose(a)) \/ UNCHANGED vars
  <2>1. UNCHANGED <<loop_on, cpc, msg, motor, reply, recv, lossy, bound>> /\ lpc' \in {lpc, "check"}
    <3>1. CASE EnableMissing \/ RequestEnable \/ RequestStop \/ FireOnce \/ PollEnable \/ SetLimp
      BY <3>1, Zenon DEF EnableMissing, RequestEnable, RequestStop, SendOnce, FireOnce, PollEnable, SetLimp
    <3>2. CASE JoinPublish \/ PollDisable \/ JoinLoop \/ Start \/ ShutdownBegin \/ PublishLoopEnds
      BY <3>2, Zenon DEF JoinPublish, PollDisable, JoinLoop, Start, ShutdownBegin, PublishLoopEnds
    <3>3. CASE TransmitAll \/ (\E a \in Actuator : FindEmpty(a) \/ Block(a) \/ Lose(a))
      BY <3>3, Zenon DEF TransmitAll, FindEmpty, Block, Lose
    <3>4. CASE UNCHANGED vars
      BY <3>4, Zenon DEF vars
    <3>5. QED BY <1>1, <3>1, <3>2, <3>3, <3>4
  <2>2. QED BY <1>0, <2>1 DEF Others
<1>2. CASE InitDriver
  <2>1. UNCHANGED <<cpc, msg, motor, reply, recv, lossy, bound>>
    BY <1>2, InitDriverFrame
  <2>2. loop_on' \in {loop_on, TRUE} /\ lpc' \in {lpc, "check"}
    BY <1>2, Zenon DEF InitDriver, ReadDevice, ReadMotor, DeviceRead, StartDevice, StartLoop
  <2>3. QED BY <1>0, <2>1, <2>2 DEF Others
<1>3. CASE Bind
  <2>1. bound' \subseteq Actuator
    BY <1>3 DEF Bind, Bound
  <2>2. UNCHANGED <<loop_on, lpc, cpc, msg, motor, reply, recv, lossy>>
    BY <1>3, Zenon DEF Bind
  <2>3. QED BY <1>0, <2>1, <2>2 DEF Others
<1>4. CASE StopDevice
  BY <1>0, <1>4 DEF StopDevice, Others
<1>5. CASE LoopCheck
  BY <1>0, <1>5 DEF LoopCheck, Others
<1>6. CASE \E a \in Actuator : Deliver(a)
  <2>1. PICK a \in Actuator, n \in DOMAIN queue :
          /\ Pop(a, n)
          /\ motor' = [b \in Actuator |->
               IF b \in AtAddress(a) THEN Obey(motor[b], queue[n].frame) ELSE motor[b]]
          /\ reply' = [b \in Actuator |->
               IF b \notin AtAddress(a) THEN reply[b] ELSE IF motor'[b].on THEN "enabled" ELSE "disabled"]
          /\ UNCHANGED <<recv, lossy, loop_on, lpc, cpc, msg, bound>>
    BY <1>6, Zenon DEF Deliver
  <2>2. queue[n].frame \in Periodic \cup Once
    BY <2>1, Taken DEF Item
  <2>3. \A b \in Actuator : Obey(motor[b], queue[n].frame) \in [on : BOOLEAN, cmd : 0 .. MaxCmd]
    BY <2>2, Obeyed DEF Others
  <2>4. motor' \in [Actuator -> [on : BOOLEAN, cmd : 0 .. MaxCmd]]
    BY <2>1, <2>3 DEF Others
  <2>5. reply' \in [Actuator -> {"none", "enabled", "disabled"}]
    BY <2>1 DEF Others
  <2>6. QED BY <1>0, <2>1, <2>4, <2>5 DEF Others
<1>7. CASE \E a \in Actuator : Receive(a)
  <2>1. PICK a \in Actuator : Receive(a)
    BY <1>7
  <2>2. recv' = [recv EXCEPT ![stored[a]] = reply[a]] /\ reply' = [reply EXCEPT ![a] = "none"]
        /\ UNCHANGED <<motor, lossy, loop_on, lpc, cpc, msg, bound>>
    BY <2>1 DEF Receive
  <2>3. QED BY <1>0, <2>2 DEF Others
<1>8. CASE CallbackBegin
  <2>1. msg' = msg + 1 /\ msg < MaxCmd /\ cpc' \in {0, 1}
        /\ UNCHANGED <<loop_on, lpc, motor, reply, recv, lossy, bound>>
    BY <1>8 DEF CallbackBegin
  <2>2. MaxCmd \in Nat /\ Len(CallbackOrder) \in Nat \ {0}
    BY DriverAssumption, Counting
  <2>3. msg' \in 0 .. MaxCmd /\ cpc' \in 0 .. Len(CallbackOrder)
    BY <2>1, <2>2 DEF Others
  <2>4. QED BY <1>0, <2>1, <2>3 DEF Others
<1>9. CASE CallbackWrite
  <2>1. cpc' = (IF cpc < Len(CallbackOrder) THEN cpc + 1 ELSE 0)
        /\ UNCHANGED <<loop_on, lpc, msg, motor, reply, recv, lossy, bound>>
    BY <1>9 DEF CallbackWrite
  <2>2. cpc' \in 0 .. Len(CallbackOrder)
    BY <2>1, Counting DEF Others
  <2>3. QED BY <1>0, <2>1, <2>2 DEF Others
<1>10. QED
  BY <1>1, <1>2, <1>3, <1>4, <1>5, <1>6, <1>7, <1>8, <1>9, Zenon DEF Next, Main, SenderThread

(* The actuator table and the queue. *)
Port ==
  /\ reg \in [Actuator -> Periodic \cup {None}]
  /\ pending \in [User -> [to : Actuator \cup {"nobody"}, frame : Once]]
  /\ queue \in Seq([to : Actuator, frame : Periodic \cup Once])
  /\ Len(queue) <= QueueSize

LEMMA PortKept ==
  ASSUME TypeOK, Sent, [Next]_vars
  PROVE  Port'
<1>1. Port
  BY DEF TypeOK, Port
<1>2. CASE UNCHANGED portVars
  BY <1>1, <1>2 DEF portVars, Port
<1>3. CASE RequestEnable \/ RequestStop
  <2>1. PICK a \in Actuator, f \in Once : Request(main, a, f)
    BY <1>3, Types, Frames DEF RequestEnable, RequestStop, SendOnce
  <2>2. /\ pending' = [pending EXCEPT ![main] = [to |-> a, frame |-> f]]
        /\ reg' = [reg EXCEPT ![a] = None] /\ queue' = queue
    BY <2>1 DEF Request
  <2>3. QED BY <1>1, <2>2 DEF Port
<1>4. CASE FireOnce
  <2>1. /\ pending' = [pending EXCEPT ![main] = NoRequest] /\ reg' = reg
        /\ queue' \in Seq(Item) /\ Len(queue') <= QueueSize
    BY <1>4, Fired
  <2>2. NoRequest \in [to : Actuator \cup {"nobody"}, frame : Once]
    BY DEF NoRequest, Once
  <2>3. QED BY <1>1, <2>1, <2>2 DEF Port, Item
<1>5. CASE SetLimp \/ CallbackWrite
  <2>1. \/ UNCHANGED portVars
        \/ \E a \in Actuator, f \in Periodic : Set(a, f)
    <3>1. \A n \in 0 .. MaxCmd : Mit(n) \in Periodic
      BY Frames
    <3>2. CASE SetLimp
      <4>1. SetMitCmd(EnableOrder[i], Mit(0)) /\ Mit(0) \in Periodic
        BY <3>1, <3>2, Frames DEF SetLimp
      <4>2. QED BY <4>1, Types DEF SetMitCmd
    <3>3. CASE CallbackWrite
      <4> DEFINE n == IF CallbackOrder[cpc] \in bound THEN msg ELSE 0
      <4>1. n \in 0 .. MaxCmd
        BY Frames DEF TypeOK
      <4> HIDE DEF n
      <4>2. SetMitCmd(CallbackOrder[cpc], Mit(n)) /\ Mit(n) \in Periodic
        BY <3>1, <3>3, <4>1 DEF CallbackWrite, n
      <4>3. QED BY <4>2, Types DEF SetMitCmd
    <3>4. QED BY <1>5, <3>2, <3>3
  <2>2. CASE \E a \in Actuator, f \in Periodic : Set(a, f)
    BY <1>1, <2>2 DEF Set, Port
  <2>3. QED BY <1>2, <2>1, <2>2
<1>6. CASE TransmitAll
  <2>1. queue' \in Seq(Item) /\ Len(queue') <= QueueSize
    BY <1>6, Transmitted
  <2>2. UNCHANGED <<reg, pending>>
    BY <1>6, Zenon DEF TransmitAll
  <2>3. QED BY <1>1, <2>1, <2>2 DEF Port, Item
<1>7. CASE \E a \in Actuator : Deliver(a) \/ Lose(a)
  <2>1. PICK a \in Actuator, n \in DOMAIN queue : Pop(a, n)
    BY <1>7, Zenon DEF Deliver, Lose
  <2>2. queue' \in Seq(Item) /\ Len(queue') <= QueueSize /\ UNCHANGED <<reg, pending>>
    BY <2>1, Taken
  <2>3. QED BY <1>1, <2>2 DEF Port, Item
<1>8. CASE EnableMissing \/ PollEnable \/ Bind \/ JoinPublish \/ PollDisable \/ StopDevice \/ JoinLoop
           \/ Start \/ ShutdownBegin \/ PublishLoopEnds
  <2>1. UNCHANGED portVars
    BY <1>8, Zenon DEF EnableMissing, PollEnable, Bind, JoinPublish, PollDisable, StopDevice, JoinLoop,
       Start, ShutdownBegin, PublishLoopEnds
  <2>2. QED BY <1>2, <2>1
<1>9. CASE InitDriver \/ LoopCheck \/ CallbackBegin \/ UNCHANGED vars
           \/ (\E a \in Actuator : FindEmpty(a) \/ Block(a) \/ Receive(a))
  <2>1. UNCHANGED portVars
    <3>1. CASE InitDriver
      BY <3>1, InitDriverFrame DEF portVars
    <3>2. CASE LoopCheck \/ CallbackBegin \/ UNCHANGED vars
               \/ (\E a \in Actuator : FindEmpty(a) \/ Block(a) \/ Receive(a))
      BY <3>2, Zenon DEF LoopCheck, FindEmpty, Block, Receive, CallbackBegin, vars
    <3>3. QED BY <1>9, <3>1, <3>2
  <2>2. QED BY <1>2, <2>1
<1>10. QED
  BY <1>3, <1>4, <1>5, <1>6, <1>7, <1>8, <1>9, Zenon DEF Next, Main, SenderThread

LEMMA TypeKept ==
  ASSUME TypeOK, Attached, Readable, Stored, Sent, Seen, [Next]_vars
  PROVE  TypeOK'
<1>1. MainThread /\ Others
  BY DEF TypeOK, MainThread, Others
<1>2. mpc = "join" => i = 1
  BY DEF Seen
<1>3. MainThread' /\ Others' /\ Port'
  BY <1>1, <1>2, MainThreadKept, OthersKept, PortKept
<1>4. config' \in Seq(Device) /\ motors' \in Seq(Entry) /\ WiredTypes'
  BY WiringKept
<1>5. QED BY <1>3, <1>4 DEF TypeOK, MainThread, Others, Port, WiredTypes

-----------------------------------------------------------------------------
(* What is on its way, step by step.  First the steps that leave frames    *)
(* and the main thread alone, then those of the main thread between two    *)
(* requests.                                                               *)
LEMMA SentStays ==
  ASSUME Sent, UNCHANGED <<reg, pending, queue, stored, mpc, i>>,
         is_running' => mpc = "up", cpc' # 0 => ~ Early,
         \A a \in Actuator : reply'[a] # "none" => reply[a] # "none"
  PROVE  Sent'
<1>1. (Early <=> Early') /\ (Live <=> Live') /\ (Stopping <=> Stopping')
  BY DEF Early, Live, Stopping
<1>2. QED BY <1>1 DEF Sent

LEMMA SentMoves ==
  ASSUME Sent, UNCHANGED <<reg, pending, queue, reply, stored, cpc>>,
         pending[main] = NoRequest, mpc' \notin {"device", "attach"}, is_running' => mpc' = "up",
         Early' => Early, Live' => Live \/ queue = <<>>, Stopping' => Live \/ Stopping
  PROVE  Sent'
<1>1. \A u \in User \ {main} : pending'[u] = NoRequest
  BY DEF Sent
<1>2. ASSUME NEW n \in DOMAIN queue'
      PROVE  /\ queue'[n].to \in DOMAIN stored'
             /\ Early' => queue'[n].frame = Enable
             /\ Live' => queue'[n].frame \in Periodic
             /\ Stopping' => queue'[n].frame \in Periodic \cup {Stop}
  BY DEF Sent
<1>3. \A a \in Actuator : /\ reg'[a] # None => a \in DOMAIN stored' /\ ~ Early'
                          /\ reply'[a] # "none" => a \in DOMAIN stored'
  BY DEF Sent
<1>4. cpc' # 0 => ~ Early'
  BY DEF Sent
<1>5. QED BY <1>1, <1>2, <1>3, <1>4 DEF Sent

(* When Initialize goes on, every slot has been seen to be answered in. *)
LEMMA PolledAll ==
  ASSUME TypeOK, Seen, PollEnable, mpc' = "limp"
  PROVE  /\ DOMAIN stored = Actuator /\ Clean
         /\ result = TRUE /\ recv[EnableOrder[i]] = "enabled"
         /\ i \in Nat \ {0} /\ i = Len(EnableOrder)
<1>1. mpc = "enabling" /\ ~ i < Len(EnableOrder) /\ result' # FALSE
  BY DEF PollEnable
<1>2. \/ recv[EnableOrder[i]] = "enabled" /\ result' = result
      \/ result' = FALSE
  BY Zenon DEF PollEnable
<1>3. result = TRUE /\ recv[EnableOrder[i]] = "enabled"
  BY <1>1, <1>2 DEF TypeOK
<1>4. i \in 1 .. Len(EnableOrder) /\ Len(EnableOrder) \in Nat
  BY <1>1, Counting, At DEF TypeOK, MainThread
<1>5. i \in Nat \ {0} /\ i = Len(EnableOrder)
  BY <1>1, <1>4
<1>6. ASSUME NEW a \in Actuator PROVE a \in DOMAIN stored /\ stored[a] = a
  <2>1. PICK k \in 1 .. Len(EnableOrder) : EnableOrder[k] = a
    BY Visited
  <2>2. CASE k = i
    BY <1>3, <2>1, <2>2 DEF Seen
  <2>3. CASE k # i
    <3>1. k \in 1 .. i - 1
      BY <1>5, <2>3
    <3>2. QED BY <1>1, <1>3, <2>1, <3>1 DEF Seen
  <2>4. QED BY <2>2, <2>3
<1>7. DOMAIN stored = Actuator
  BY <1>6, Types
<1>8. QED BY <1>3, <1>5, <1>6, <1>7 DEF Clean

LEMMA SeenKept ==
  ASSUME TypeOK, Stored, Sent, Seen, [Next]_vars
  PROVE  Seen'
<1> USE DEF moduleVars, deviceVars, callbackVars, motorVars, wiringVars, portVars
<1>1. /\ \A a \in Actuator : recv[a] # "none" => a \in DOMAIN stored /\ stored[a] = a
      /\ mpc \in {"enable", "enabling"} /\ result =>
           \A k \in 1 .. i - 1 :
             EnableOrder[k] \in DOMAIN stored /\ stored[EnableOrder[k]] = EnableOrder[k]
      /\ Live \/ Stopping => DOMAIN stored = Actuator /\ Clean
      /\ mpc \in {"device", "attach", "bind", "ready", "up", "join"} => i = 1
  BY DEF Seen
<1>2. ASSUME UNCHANGED <<stored, recv>>,
             mpc' \in {"enable", "failed"} \/ Live \/ Stopping,
             mpc' # "enabling",
             mpc' = "enable" /\ result' =>
               \A k \in 1 .. i' - 1 :
                 EnableOrder[k] \in DOMAIN stored /\ stored[EnableOrder[k]] = EnableOrder[k],
             mpc' \in {"device", "attach", "bind", "ready", "up", "join"} => i' = 1
      PROVE  Seen'
  <2>1. \A a \in Actuator : recv'[a] # "none" => a \in DOMAIN stored' /\ stored'[a] = a
    BY <1>1, <1>2
  <2>2. Live' \/ Stopping' => DOMAIN stored' = Actuator /\ Clean'
    BY <1>1, <1>2 DEF Live, Stopping, Clean
  <2>3. QED BY <1>2, <2>1, <2>2 DEF Seen
<1>3. CASE UNCHANGED <<mpc, i, result, stored, recv>>
  BY <1>3 DEF Seen, Live, Stopping, Clean
<1>4. CASE \/ FireOnce \/ PublishLoopEnds \/ LoopCheck \/ TransmitAll \/ CallbackBegin \/ CallbackWrite
           \/ UNCHANGED vars \/ (\E a \in Actuator : SenderThread(a) \/ Lose(a))
  <2>1. UNCHANGED <<mpc, i, result, stored, recv>>
    BY <1>4, Zenon DEF FireOnce, PublishLoopEnds, LoopCheck, TransmitAll, CallbackBegin, CallbackWrite, vars,
       SenderThread, FindEmpty, Block, Deliver, Lose
  <2>2. QED BY <1>3, <2>1
<1>5. CASE \E a \in Actuator : Receive(a)
  <2>1. PICK a \in Actuator : Receive(a)
    BY <1>5
  <2>2. UNCHANGED <<mpc, i, result, stored>> /\ reply[a] # "none"
        /\ recv' = [recv EXCEPT ![stored[a]] = reply[a]]
    BY <2>1, Zenon DEF Receive
  <2>3. stored[a] \in DOMAIN stored /\ stored[stored[a]] = stored[a]
    BY <2>2 DEF Sent, Stored
  <2>4. \A b \in Actuator : recv'[b] # "none" => b \in DOMAIN stored' /\ stored'[b] = b
    BY <1>1, <2>2, <2>3 DEF TypeOK
  <2>5. QED BY <2>2, <2>4 DEF Seen, Live, Stopping, Clean
<1>6. CASE InitDriver
  <2>1. /\ mpc \in {"device", "attach"} /\ mpc' \in {"device", "attach", "enable", "failed"}
        /\ UNCHANGED <<i, recv>>
    BY <1>6, InitDriverFrame
  <2>2. DOMAIN stored = {} /\ i' = 1 /\ 1 .. i' - 1 = {}
    BY <1>1, <2>1, NothingWired DEF Stored
  <2>3. \A a \in Actuator : recv'[a] = "none"
    BY <1>1, <2>1, <2>2
  <2>4. ~ Live' /\ ~ Stopping'
    BY <2>1 DEF Live, Stopping
  <2>5. QED BY <2>1, <2>2, <2>3, <2>4 DEF Seen
<1>7. CASE EnableMissing
  <2>1. mpc' \in {"enable", "failed"} /\ result' = FALSE /\ UNCHANGED <<stored, recv>>
    BY <1>7 DEF EnableMissing
  <2>2. QED BY <1>2, <2>1
<1>8. CASE RequestEnable
  <2>1. /\ mpc = "enable" /\ mpc' = "enabling" /\ UNCHANGED <<i, result, stored, recv>>
        /\ EnableOrder[i] \in DOMAIN stored
    BY <1>8, Zenon DEF RequestEnable, SendOnce
  <2>2. ~ Live' /\ ~ Stopping'
    BY <2>1 DEF Live, Stopping
  <2>3. result' => \A k \in 1 .. i' - 1 :
                     EnableOrder[k] \in DOMAIN stored' /\ stored'[EnableOrder[k]] = EnableOrder[k]
    BY <1>1, <2>1
  <2>4. \A a \in Actuator : recv'[a] # "none" => a \in DOMAIN stored' /\ stored'[a] = a
    BY <1>1, <2>1
  <2>5. QED BY <2>1, <2>2, <2>3, <2>4 DEF Seen
<1>9. CASE PollEnable
  <2>1. /\ mpc = "enabling" /\ UNCHANGED <<stored, recv>> /\ mpc' \in {"enable", "limp", "failed"}
        /\ mpc' = "enable" => i' = i + 1
    BY <1>9 DEF PollEnable
  <2>2. result' => result /\ recv[EnableOrder[i]] = "enabled"
    BY <1>9, Zenon DEF PollEnable
  <2>3. i \in 1 .. Len(EnableOrder) /\ Len(EnableOrder) \in Nat /\ EnableOrder[i] \in Actuator
    BY <2>1, Counting, At DEF TypeOK, MainThread
  <2>4. ASSUME result', NEW k \in 1 .. i
        PROVE  EnableOrder[k] \in DOMAIN stored /\ stored[EnableOrder[k]] = EnableOrder[k]
    <3>1. CASE k = i
      BY <1>1, <2>2, <2>3, <2>4, <3>1
    <3>2. CASE k \in 1 .. i - 1
      BY <1>1, <2>1, <2>2, <2>4, <3>2
    <3>3. QED BY <2>3, <3>1, <3>2
  <2>5. CASE mpc' = "enable"
    <3>1. \A k \in 1 .. i' - 1 : k \in 1 .. i
      BY <2>1, <2>3, <2>5
    <3>2. QED BY <1>2, <2>1, <2>4, <2>5, <3>1
  <2>6. CASE mpc' = "failed"
    BY <1>2, <2>1, <2>6
  <2>7. CASE mpc' = "limp"
    <3>1. DOMAIN stored' = Actuator /\ Clean'
      BY <1>9, <2>1, <2>7, PolledAll DEF Clean
    <3>2. \A a \in Actuator : recv'[a] # "none" => a \in DOMAIN stored' /\ stored'[a] = a
      BY <1>1, <2>1
    <3>3. QED BY <2>7, <3>1, <3>2 DEF Seen
  <2>8. QED BY <2>1, <2>5, <2>6, <2>7
<1>10. CASE SetLimp
  <2>1. /\ mpc = "limp" /\ mpc' \in {"limp", "bind"} /\ UNCHANGED <<stored, recv>>
        /\ mpc' = "bind" => i' = 1
    BY <1>10 DEF SetLimp
  <2>2. QED BY <1>2, <2>1 DEF Live
<1>11. CASE Bind \/ Start \/ ShutdownBegin
  <2>1. /\ mpc \in {"bind", "ready", "up"} /\ mpc' \in {"ready", "up", "join"}
        /\ UNCHANGED <<i, stored, recv>>
    BY <1>11 DEF Bind, Start, ShutdownBegin
  <2>2. QED BY <1>1, <1>2, <2>1 DEF Live
<1>12. CASE JoinPublish \/ RequestStop \/ PollDisable \/ StopDevice \/ JoinLoop
  <2>1. /\ mpc \in {"join", "disable", "disabling", "stop", "joinloop"}
        /\ mpc' \in {"disable", "disabling", "stop", "joinloop", "down"}
        /\ UNCHANGED <<stored, recv>>
    BY <1>12, Zenon DEF JoinPublish, RequestStop, SendOnce, PollDisable, StopDevice, JoinLoop
  <2>2. QED BY <1>2, <2>1 DEF Live, Stopping
<1>13. QED
  BY <1>4, <1>5, <1>6, <1>7, <1>8, <1>9, <1>10, <1>11, <1>12, Zenon DEF Next, Main

LEMMA SentKept ==
  ASSUME TypeOK, Stored, Sent, Seen, Clean => EnableOnce /\ Answered, [Next]_vars
  PROVE  Sent'
<1> USE DEF moduleVars, deviceVars, callbackVars, motorVars, wiringVars, portVars
<1>1. CASE PublishLoopEnds \/ LoopCheck \/ CallbackBegin \/ UNCHANGED vars
           \/ (\E a \in Actuator : FindEmpty(a) \/ Block(a) \/ Receive(a))
  <2>1. /\ UNCHANGED <<reg, pending, queue, stored, mpc, i>>
        /\ is_running' = is_running /\ (cpc' = cpc \/ cpc' = 0 \/ is_running)
    <3>1. CASE PublishLoopEnds \/ LoopCheck \/ UNCHANGED vars
               \/ (\E a \in Actuator : FindEmpty(a) \/ Block(a) \/ Receive(a))
      BY <3>1, Zenon DEF PublishLoopEnds, LoopCheck, FindEmpty, Block, Receive, vars
    <3>2. CASE CallbackBegin
      BY <3>2 DEF CallbackBegin
    <3>3. QED BY <1>1, <3>1, <3>2
  <2>2. \A a \in Actuator : reply'[a] # "none" => reply[a] # "none"
    <3>1. CASE reply' = reply
      BY <3>1
    <3>2. CASE \E a \in Actuator : reply' = [reply EXCEPT ![a] = "none"]
      BY <3>2 DEF TypeOK
    <3>3. QED BY <1>1, <3>1, <3>2, Zenon DEF PublishLoopEnds, LoopCheck, FindEmpty, Block, Receive,
         CallbackBegin, vars
  <2>3. is_running => mpc = "up"
    BY DEF Sent
  <2>4. cpc' # 0 => ~ Early
    BY <2>1, <2>3 DEF Sent, Early
  <2>5. QED BY <2>1, <2>2, <2>3, <2>4, SentStays
<1>2. CASE EnableMissing \/ Bind \/ Start \/ ShutdownBegin \/ JoinPublish \/ PollDisable
           \/ StopDevice \/ JoinLoop
  <2>1. UNCHANGED <<reg, pending, queue, reply, stored, cpc>>
    BY <1>2, Zenon DEF EnableMissing, Bind, Start, ShutdownBegin, JoinPublish, PollDisable, StopDevice,
       JoinLoop
  <2>2. /\ mpc # "enabling" /\ (mpc = "disabling" => pending[main] = NoRequest)
        /\ mpc' \notin {"device", "attach"} /\ (mpc' = "up" \/ is_running' = is_running \/ ~ is_running')
        /\ mpc' = "up" \/ mpc # "up" \/ ~ is_running'
        /\ Early' => Early /\ mpc \notin {"device", "attach"}
        /\ Live' => Live
        /\ Stopping' => Live \/ Stopping
    <3>1. CASE EnableMissing \/ Bind \/ Start \/ ShutdownBegin
      BY <3>1 DEF EnableMissing, Bind, Start, ShutdownBegin, Early, Live, Stopping
    <3>2. CASE JoinPublish \/ PollDisable \/ StopDevice \/ JoinLoop
      BY <3>2 DEF JoinPublish, PollDisable, StopDevice, JoinLoop, Early, Live, Stopping
    <3>3. QED BY <1>2, <3>1, <3>2
  <2>3. pending[main] = NoRequest
    BY <2>2 DEF Sent
  <2>4. is_running' => mpc' = "up"
    BY <2>2 DEF Sent
  <2>5. QED BY <2>1, <2>2, <2>3, <2>4, SentMoves
<1>3. CASE PollEnable
  <2>1. /\ UNCHANGED <<reg, pending, queue, reply, stored, cpc>>
        /\ pending[main] = NoRequest /\ is_running' = is_running
        /\ mpc = "enabling" /\ mpc' \in {"enable", "limp", "failed"}
        /\ mpc' = "limp" => /\ i = Len(EnableOrder) \/ ~ i < Len(EnableOrder)
                            /\ recv[EnableOrder[i]] = "enabled" \/ result' = FALSE
                            /\ result' # FALSE
    <3>1. UNCHANGED <<reg, pending, queue, reply, stored, cpc>> /\ pending[main] = NoRequest
          /\ is_running' = is_running /\ mpc = "enabling"
      BY <1>3, Zenon DEF PollEnable
    <3>2. mpc' \in {"enable", "limp", "failed"}
      BY <1>3 DEF PollEnable
    <3>3. ASSUME mpc' = "limp"
          PROVE  ~ i < Len(EnableOrder) /\ result' # FALSE
      BY <1>3, <3>3 DEF PollEnable
    <3>4. recv[EnableOrder[i]] = "enabled" \/ result' = FALSE
      BY <1>3, Zenon DEF PollEnable
    <3>5. QED BY <3>1, <3>2, <3>3, <3>4
  <2>2. ASSUME mpc' = "limp"
        PROVE  queue = <<>>
    <3>1. /\ EnableOnce /\ Answered /\ result = TRUE /\ recv[EnableOrder[i]] = "enabled"
          /\ i \in Nat \ {0} /\ i = Len(EnableOrder)
      BY <1>3, <2>2, PolledAll
    <3>2. \A l \in 1 .. Len(EnableOrder) : motor[EnableOrder[l]].on
      <4>1. \A l \in 1 .. i - 1 : motor[EnableOrder[l]].on
        BY <2>1, <3>1 DEF Answered
      <4>2. EnableOrder[i] \in Actuator /\ ~ Stopping
        BY <2>1, <3>1, Counting DEF Stopping
      <4>3. motor[EnableOrder[i]].on
        BY <3>1, <4>2 DEF Answered
      <4>4. QED BY <3>1, <4>1, <4>3
    <3>3. \A a \in Actuator : motor[a].on
      BY <3>2, Visited
    <3>4. \A n \in 1 .. Len(queue) : FALSE
      BY <2>1, <3>1, <3>3, Types DEF EnableOnce, Item
    <3>5. queue \in Seq(Item) /\ Len(queue) \in Nat
      BY Types
    <3>6. QED BY <3>4, <3>5
  <2>3. /\ mpc' \notin {"device", "attach"} /\ Early
        /\ Live' => queue = <<>>
        /\ ~ Stopping'
    BY <2>1, <2>2 DEF Early, Live, Stopping
  <2>4. ~ is_running'
    BY <2>1 DEF Sent
  <2>5. QED BY <2>1, <2>3, <2>4, SentMoves
<1>4. CASE InitDriver
  <2>1. /\ mpc \in {"device", "attach"} /\ mpc' \in {"device", "attach", "enable", "failed"}
        /\ UNCHANGED <<reg, pending, queue, is_running, cpc, reply>>
    BY <1>4, InitDriverFrame
  <2>2. /\ queue = <<>> /\ DOMAIN stored = {} /\ Early /\ mpc \notin {"enabling", "disabling", "up"}
    BY <2>1, NothingWired DEF Sent, Stored, Early
  <2>3. Early' /\ ~ Live' /\ ~ Stopping'
    BY <2>1 DEF Early, Live, Stopping
  <2>4. /\ \A a \in Actuator : reg[a] = None /\ reply[a] = "none"
        /\ pending[main] = NoRequest /\ ~ is_running /\ cpc = 0
        /\ \A u \in User \ {main} : pending[u] = NoRequest
    BY <2>2 DEF Sent
  <2>5. DOMAIN queue' = {}
    BY <2>1, <2>2
  <2>6. QED BY <2>1, <2>2, <2>4, <2>5 DEF Sent
<1>5. CASE RequestEnable \/ RequestStop
  <2>1. PICK a \in DOMAIN stored, f \in {Enable, Stop} :
          /\ Request(main, a, f)
          /\ \/ mpc = "enable" /\ mpc' = "enabling" /\ a = EnableOrder[i] /\ f = Enable
             \/ mpc = "disable" /\ mpc' = "disabling" /\ a = DisableOrder[i] /\ f = Stop
    BY <1>5 DEF RequestEnable, RequestStop, SendOnce
  <2>2. UNCHANGED <<i, stored, is_running, cpc, reply>>
    BY <1>5, Zenon DEF RequestEnable, RequestStop, SendOnce
  <2>3. /\ pending' = [pending EXCEPT ![main] = [to |-> a, frame |-> f]]
        /\ reg' = [reg EXCEPT ![a] = None] /\ queue' = queue
    BY <2>1 DEF Request
  <2>4. (Early' <=> Early) /\ ~ Live' /\ (Stopping' <=> Stopping) /\ mpc \notin {"device", "attach", "up"}
    BY <2>1 DEF Early, Live, Stopping
  <2>5. /\ pending'[main] = [to |-> a, frame |-> f]
        /\ \A u \in User \ {main} : pending'[u] = NoRequest
    BY <2>3, Types DEF TypeOK, Sent
  <2>6. \A b \in Actuator : reg'[b] # None => reg[b] # None
    BY <2>3 DEF TypeOK
  <2>7. \A b \in Actuator : /\ reg'[b] # None => b \in DOMAIN stored' /\ ~ Early'
                            /\ reply'[b] # "none" => b \in DOMAIN stored'
    BY <2>2, <2>4, <2>6 DEF Sent
  <2>8. \A n \in DOMAIN queue' :
          /\ queue'[n].to \in DOMAIN stored'
          /\ Early' => queue'[n].frame = Enable
          /\ Live' => queue'[n].frame \in Periodic
          /\ Stopping' => queue'[n].frame \in Periodic \cup {Stop}
    BY <2>2, <2>3, <2>4 DEF Sent
  <2>9. ~ is_running' /\ (cpc' # 0 => ~ Early') /\ mpc' \notin {"device", "attach"}
    BY <2>1, <2>2, <2>4 DEF Sent
  <2>10. \/ /\ mpc' = "enabling" /\ EnableOrder[i'] \in DOMAIN stored'
            /\ pending'[main] = [to |-> EnableOrder[i'], frame |-> Enable]
         \/ /\ mpc' = "disabling" /\ DisableOrder[i'] \in DOMAIN stored'
            /\ pending'[main] = [to |-> DisableOrder[i'], frame |-> Stop]
    BY <2>1, <2>2, <2>5
  <2>11. QED BY <2>5, <2>7, <2>8, <2>9, <2>10 DEF Sent
<1>6. CASE FireOnce
  <2>1. /\ mpc \in {"enabling", "disabling"} /\ pending[main] # NoRequest
        /\ UNCHANGED <<mpc, i, stored, is_running, cpc, reply, reg>>
        /\ pending' = [pending EXCEPT ![main] = NoRequest]
    BY <1>6, Fired
  <2>2. /\ queue' \in Seq(Item)
        /\ \A n \in 1 .. Len(queue') :
              \/ n \in 1 .. Len(queue) /\ queue'[n] = queue[n]
              \/ n = Len(queue) + 1 /\ queue'[n] = pending[main]
    BY <1>6, Fired
  <2>3. (Early' <=> Early) /\ ~ Live' /\ (Stopping' <=> Stopping) /\ (Early \/ Stopping)
        /\ (Early <=> mpc = "enabling")
    BY <2>1 DEF Early, Live, Stopping
  <2>4. \A u \in User : u # main \/ u = main => pending'[u] = NoRequest
    BY <2>1, Types DEF TypeOK, Sent
  <2>5. ASSUME NEW n \in DOMAIN queue'
        PROVE  /\ queue'[n].to \in DOMAIN stored'
               /\ Early' => queue'[n].frame = Enable
               /\ Live' => queue'[n].frame \in Periodic
               /\ Stopping' => queue'[n].frame \in Periodic \cup {Stop}
    <3>1. n \in 1 .. Len(queue')
      BY <2>2
    <3>2. CASE n \in 1 .. Len(queue) /\ queue'[n] = queue[n]
      BY <3>2, <2>1, <2>3, Types DEF Sent
    <3>3. CASE queue'[n] = pending[main]
      <4>1. \/ /\ mpc = "enabling" /\ EnableOrder[i] \in DOMAIN stored
               /\ pending[main] = [to |-> EnableOrder[i], frame |-> Enable]
            \/ /\ mpc = "disabling" /\ DisableOrder[i] \in DOMAIN stored
               /\ pending[main] = [to |-> DisableOrder[i], frame |-> Stop]
        BY <2>1 DEF Sent
      <4>2. ~ (Early' /\ mpc = "disabling") /\ ~ (Stopping' /\ mpc = "enabling")
        BY <2>1, <2>3 DEF Early, Stopping
      <4>3. QED BY <3>3, <4>1, <4>2, <2>1, <2>3
    <3>4. QED BY <2>2, <3>1, <3>2, <3>3
  <2>6. \A b \in Actuator : /\ reg'[b] # None => b \in DOMAIN stored' /\ ~ Early'
                            /\ reply'[b] # "none" => b \in DOMAIN stored'
    BY <2>1, <2>3 DEF Sent
  <2>7. ~ is_running' /\ (cpc' # 0 => ~ Early') /\ mpc' \notin {"device", "attach"}
    BY <2>1, <2>3 DEF Sent
  <2>8. QED BY <2>4, <2>5, <2>6, <2>7, Types DEF Sent
<1>7. CASE SetLimp \/ CallbackWrite
  <2>1. /\ UNCHANGED <<stored, is_running, reply>> /\ ~ Early
        /\ \/ mpc' = mpc /\ i' = i
           \/ mpc = "limp" /\ mpc' \in {"limp", "bind"}
    <3>1. CASE SetLimp
      BY <3>1 DEF SetLimp, Early
    <3>2. CASE CallbackWrite
      BY <3>2, Zenon DEF CallbackWrite, Sent
    <3>3. QED BY <1>7, <3>1, <3>2
  <2>2. /\ UNCHANGED <<pending, queue>>
        /\ \/ reg' = reg
           \/ \E a \in DOMAIN stored, f \in Periodic : reg' = [reg EXCEPT ![a] = f]
    <3>1. PICK a, f : SetMitCmd(a, f) /\ f \in Periodic
      <4>1. \A n \in 0 .. MaxCmd : Mit(n) \in Periodic
        BY Frames
      <4>2. CASE SetLimp
        BY <4>1, <4>2, Frames DEF SetLimp
      <4>3. CASE CallbackWrite
        <5> DEFINE n == IF CallbackOrder[cpc] \in bound THEN msg ELSE 0
        <5>1. n \in 0 .. MaxCmd
          BY Frames DEF TypeOK
        <5> HIDE DEF n
        <5>2. SetMitCmd(CallbackOrder[cpc], Mit(n)) /\ Mit(n) \in Periodic
          BY <4>1, <4>3, <5>1 DEF CallbackWrite, n
        <5>3. QED BY <5>2
      <4>4. QED BY <1>7, <4>2, <4>3
    <3>2. QED BY <3>1 DEF SetMitCmd, Set
  <2>3. ~ Early' /\ (Live' <=> Live) /\ (Stopping' <=> Stopping) /\ mpc' \notin {"device", "attach"}
    BY <2>1 DEF Early, Live, Stopping
  <2>4. \A b \in Actuator : reg'[b] # None => b \in DOMAIN stored
    BY <2>2 DEF Sent, TypeOK
  <2>5. \A b \in Actuator : /\ reg'[b] # None => b \in DOMAIN stored' /\ ~ Early'
                            /\ reply'[b] # "none" => b \in DOMAIN stored'
    BY <2>1, <2>3, <2>4 DEF Sent
  <2>6. \A n \in DOMAIN queue' :
          /\ queue'[n].to \in DOMAIN stored'
          /\ Early' => queue'[n].frame = Enable
          /\ Live' => queue'[n].frame \in Periodic
          /\ Stopping' => queue'[n].frame \in Periodic \cup {Stop}
    BY <2>1, <2>2, <2>3 DEF Sent
  <2>7. /\ \A u \in User \ {main} : pending'[u] = NoRequest
        /\ \/ pending'[main] = NoRequest
           \/ /\ mpc' = "enabling" /\ EnableOrder[i'] \in DOMAIN stored'
              /\ pending'[main] = [to |-> EnableOrder[i'], frame |-> Enable]
           \/ /\ mpc' = "disabling" /\ DisableOrder[i'] \in DOMAIN stored'
              /\ pending'[main] = [to |-> DisableOrder[i'], frame |-> Stop]
    BY <2>1, <2>2 DEF Sent
  <2>8. is_running' => mpc' = "up"
    BY <2>1 DEF Sent
  <2>9. QED BY <2>3, <2>5, <2>6, <2>7, <2>8 DEF Sent
<1>8. CASE TransmitAll
  <2>1. UNCHANGED <<reg, pending, mpc, i, stored, is_running, cpc, reply>>
    BY <1>8, Zenon DEF TransmitAll
  <2>2. /\ queue' \in Seq(Item)
        /\ \A n \in 1 .. Len(queue') :
              \/ n \in 1 .. Len(queue) /\ queue'[n] = queue[n]
              \/ \E a \in Actuator : reg[a] # None /\ queue'[n] = [to |-> a, frame |-> reg[a]]
    BY <1>8, Transmitted
  <2>3. (Early' <=> Early) /\ (Live' <=> Live) /\ (Stopping' <=> Stopping)
    BY <2>1 DEF Early, Live, Stopping
  <2>4. ASSUME NEW n \in 1 .. Len(queue')
        PROVE  /\ queue'[n].to \in DOMAIN stored'
               /\ Early' => queue'[n].frame = Enable
               /\ Live' => queue'[n].frame \in Periodic
               /\ Stopping' => queue'[n].frame \in Periodic \cup {Stop}
               /\ Early' => n \in 1 .. Len(queue)
    <3>1. CASE n \in 1 .. Len(queue) /\ queue'[n] = queue[n]
      BY <3>1, <2>1, <2>3, Types DEF Sent
    <3>2. CASE \E a \in Actuator : reg[a] # None /\ queue'[n] = [to |-> a, frame |-> reg[a]]
      <4>1. PICK a \in Actuator : reg[a] # None /\ queue'[n] = [to |-> a, frame |-> reg[a]]
        BY <3>2
      <4>2. a \in DOMAIN stored /\ ~ Early /\ reg[a] \in Periodic
        BY <4>1 DEF Sent, TypeOK
      <4>3. QED BY <4>1, <4>2, <2>1, <2>3
    <3>3. QED BY <2>2, <3>1, <3>2
  <2>5. DOMAIN queue' = 1 .. Len(queue') /\ Len(queue') \in Nat
    BY <2>2
  <2>6. mpc' \in {"device", "attach"} => queue' = <<>>
    <3>1. SUFFICES ASSUME mpc' \in {"device", "attach"} PROVE queue' = <<>>
      OBVIOUS
    <3>2. Early' /\ queue = <<>>
      BY <2>1, <3>1 DEF Sent, Early
    <3>3. \A n \in 1 .. Len(queue') : FALSE
      BY <2>4, <3>2
    <3>4. QED BY <2>2, <2>5, <3>3
  <2>7. \A b \in Actuator : /\ reg'[b] # None => b \in DOMAIN stored' /\ ~ Early'
                            /\ reply'[b] # "none" => b \in DOMAIN stored'
    BY <2>1, <2>3 DEF Sent
  <2>8. /\ \A u \in User \ {main} : pending'[u] = NoRequest
        /\ \/ pending'[main] = NoRequest
           \/ /\ mpc' = "enabling" /\ EnableOrder[i'] \in DOMAIN stored'
              /\ pending'[main] = [to |-> EnableOrder[i'], frame |-> Enable]
           \/ /\ mpc' = "disabling" /\ DisableOrder[i'] \in DOMAIN stored'
              /\ pending'[main] = [to |-> DisableOrder[i'], frame |-> Stop]
    BY <2>1 DEF Sent
  <2>9. (is_running' => mpc' = "up") /\ (cpc' # 0 => ~ Early')
    BY <2>1, <2>3 DEF Sent
  <2>10. QED BY <2>4, <2>5, <2>6, <2>7, <2>8, <2>9 DEF Sent
<1>9. CASE \E a \in Actuator : Deliver(a) \/ Lose(a)
  <2>1. PICK a \in Actuator, n \in DOMAIN queue : Pop(a, n)
    BY <1>9, Zenon DEF Deliver, Lose
  <2>2. UNCHANGED <<mpc, i, stored, is_running, cpc>>
    BY <1>9, Zenon DEF Deliver, Lose
  <2>3. /\ queue[n].to = a /\ UNCHANGED <<reg, pending>>
        /\ \A m \in DOMAIN queue' : queue'[m] = queue[Skip(m, n)] /\ Skip(m, n) \in DOMAIN queue
    BY <2>1, Taken
  <2>4. (Early' <=> Early) /\ (Live' <=> Live) /\ (Stopping' <=> Stopping)
    BY <2>2 DEF Early, Live, Stopping
  <2>5. ASSUME NEW m \in DOMAIN queue'
        PROVE  /\ queue'[m].to \in DOMAIN stored'
               /\ Early' => queue'[m].frame = Enable
               /\ Live' => queue'[m].frame \in Periodic
               /\ Stopping' => queue'[m].frame \in Periodic \cup {Stop}
    BY <2>2, <2>3, <2>4 DEF Sent
  <2>6. mpc' \notin {"device", "attach"}
    <3>1. DOMAIN queue # {}
      BY <2>1
    <3>2. QED BY <2>2, <3>1 DEF Sent
  <2>7. \A b \in Actuator : reply'[b] # "none" => b \in DOMAIN stored
    <3>1. \A b \in Actuator : Deliver(b) \/ Lose(b) =>
                              \A c \in Actuator : reply'[c] = reply[c] \/ c \in AtAddress(b)
      BY Zenon DEF Deliver, Lose
    <3>2. QED BY <1>9, <3>1 DEF AtAddress, Sent
  <2>8. \A b \in Actuator : /\ reg'[b] # None => b \in DOMAIN stored' /\ ~ Early'
                            /\ reply'[b] # "none" => b \in DOMAIN stored'
    BY <2>2, <2>3, <2>4, <2>7 DEF Sent
  <2>9. /\ \A u \in User \ {main} : pending'[u] = NoRequest
        /\ \/ pending'[main] = NoRequest
           \/ /\ mpc' = "enabling" /\ EnableOrder[i'] \in DOMAIN stored'
              /\ pending'[main] = [to |-> EnableOrder[i'], frame |-> Enable]
           \/ /\ mpc' = "disabling" /\ DisableOrder[i'] \in DOMAIN stored'
              /\ pending'[main] = [to |-> DisableOrder[i'], frame |-> Stop]
    BY <2>2, <2>3 DEF Sent
  <2>10. (is_running' => mpc' = "up") /\ (cpc' # 0 => ~ Early')
    BY <2>2, <2>4 DEF Sent
  <2>11. QED BY <2>5, <2>6, <2>8, <2>9, <2>10 DEF Sent
<1>10. QED
  BY <1>1, <1>2, <1>3, <1>4, <1>5, <1>6, <1>7, <1>8, <1>9, Zenon DEF Next, Main, SenderThread

(* The motors are enabled one by one, each once. *)
LEMMA EnableOnceKept ==
  ASSUME TypeOK, Sent, Clean, EnableOnce, [Next]_vars
  PROVE  EnableOnce'
<1> USE DEF moduleVars, deviceVars, callbackVars, motorVars, wiringVars, portVars
<1> DEFINE Enabling == mpc \in {"device", "attach", "enable", "enabling"}
<1>1. SUFFICES ASSUME Enabling' PROVE EnableOnce'
  BY DEF EnableOnce
<1>2. CASE UNCHANGED <<queue, motor, pending, mpc, i>>
  BY <1>2 DEF EnableOnce
<1>3. CASE \/ PublishLoopEnds \/ LoopCheck \/ CallbackBegin \/ CallbackWrite \/ UNCHANGED vars
           \/ (\E a \in Actuator : FindEmpty(a) \/ Block(a) \/ Receive(a))
  <2>1. UNCHANGED <<queue, motor, pending, mpc, i>>
    BY <1>3, Zenon DEF PublishLoopEnds, LoopCheck, FindEmpty, Block, Receive, CallbackBegin,
       CallbackWrite, SetMitCmd, Set, vars
  <2>2. QED BY <1>2, <2>1
<1>4. CASE InitDriver
  <2>1. mpc \in {"device", "attach"} /\ UNCHANGED <<pending, queue, motor, i>>
        /\ mpc' \in {"device", "attach", "enable", "failed"}
    BY <1>4, InitDriverFrame
  <2>2. DOMAIN queue = {} /\ pending[main] = NoRequest
    BY <2>1 DEF Sent
  <2>3. QED BY <2>1, <2>2 DEF EnableOnce
<1>5. CASE EnableMissing \/ PollEnable
  <2>1. /\ i' = i + 1 /\ mpc' = "enable" /\ UNCHANGED <<pending, queue, motor>>
        /\ mpc \in {"enable", "enabling"} /\ pending[main] = NoRequest
    <3>1. CASE EnableMissing
      BY <3>1, <1>1 DEF EnableMissing, Sent
    <3>2. CASE PollEnable
      BY <3>2, <1>1 DEF PollEnable
    <3>3. QED BY <1>5, <3>1, <3>2
  <2>2. i \in 1 .. Len(EnableOrder) /\ Len(EnableOrder) \in Nat
    BY <2>1, Counting, At DEF TypeOK, MainThread
  <2>3. /\ \A n \in DOMAIN queue :
             /\ ~ motor[queue[n].to].on
             /\ \E k \in 1 .. i : queue[n].to = EnableOrder[k] /\ (k = i => mpc = "enabling")
        /\ \A m, n \in DOMAIN queue : queue[m].to = queue[n].to => m = n
        /\ \A k \in i .. Len(EnableOrder) : k # i => ~ motor[EnableOrder[k]].on
    BY <2>1 DEF EnableOnce
  <2>4. \A n \in DOMAIN queue' :
          /\ ~ motor'[queue'[n].to].on
          /\ \E k \in 1 .. i' : queue'[n].to = EnableOrder[k] /\ (k = i' => mpc' = "enabling")
    BY <2>1, <2>2, <2>3
  <2>5. \A k \in i' .. Len(EnableOrder) : ~ motor'[EnableOrder[k]].on
    BY <2>1, <2>2, <2>3
  <2>6. QED BY <2>1, <2>3, <2>4, <2>5 DEF EnableOnce
<1>6. CASE RequestEnable
  <2>1. /\ mpc = "enable" /\ mpc' = "enabling" /\ UNCHANGED <<i, queue, motor>>
        /\ pending' = [pending EXCEPT ![main] = [to |-> EnableOrder[i], frame |-> Enable]]
    BY <1>6, Zenon DEF RequestEnable, SendOnce, Request
  <2>2. i \in 1 .. Len(EnableOrder) /\ Len(EnableOrder) \in Nat
    BY <2>1, Counting, At DEF TypeOK, MainThread
  <2>3. /\ \A n \in DOMAIN queue :
             /\ ~ motor[queue[n].to].on
             /\ \E k \in 1 .. i : queue[n].to = EnableOrder[k] /\ k # i
        /\ \A m, n \in DOMAIN queue : queue[m].to = queue[n].to => m = n
        /\ \A k \in i .. Len(EnableOrder) : ~ motor[EnableOrder[k]].on
    BY <2>1 DEF EnableOnce
  <2>4. \A n \in DOMAIN queue : queue[n].to # EnableOrder[i]
    BY <2>2, <2>3, Visited
  <2>5. QED BY <2>1, <2>3, <2>4 DEF EnableOnce
<1>7. CASE FireOnce
  <2>1. /\ pending[main] # NoRequest /\ UNCHANGED <<mpc, i, motor>>
        /\ pending' = [pending EXCEPT ![main] = NoRequest]
        /\ queue' \in Seq(Item)
        /\ \A n \in 1 .. Len(queue') :
              \/ n \in 1 .. Len(queue) /\ queue'[n] = queue[n]
              \/ n = Len(queue) + 1 /\ queue'[n] = pending[main]
    BY <1>7, Fired
  <2>2. mpc = "enabling" /\ pending[main] = [to |-> EnableOrder[i], frame |-> Enable]
        /\ pending'[main] = NoRequest
    BY <1>1, <2>1, Types DEF Sent, TypeOK
  <2>3. /\ \A n \in DOMAIN queue :
             /\ ~ motor[queue[n].to].on
             /\ \E k \in 1 .. i : queue[n].to = EnableOrder[k]
             /\ queue[n].to # EnableOrder[i]
        /\ \A m, n \in DOMAIN queue : queue[m].to = queue[n].to => m = n
        /\ \A k \in i .. Len(EnableOrder) : ~ motor[EnableOrder[k]].on
    BY <2>1, <2>2 DEF EnableOnce
  <2>4. i \in 1 .. Len(EnableOrder) /\ Len(EnableOrder) \in Nat
    BY <2>2, Counting, At DEF TypeOK, MainThread
  <2>5. i \in i .. Len(EnableOrder) /\ i \in 1 .. i
    BY <2>4
  <2>6. DOMAIN queue' = 1 .. Len(queue') /\ DOMAIN queue = 1 .. Len(queue) /\ Len(queue) \in Nat
    BY <2>1, Types
  <2>7. \A n \in DOMAIN queue' :
          /\ ~ motor'[queue'[n].to].on
          /\ \E k \in 1 .. i' : queue'[n].to = EnableOrder[k] /\ (k = i' => mpc' = "enabling")
    BY <2>1, <2>2, <2>3, <2>5, <2>6
  <2>8. \A m, n \in DOMAIN queue' : queue'[m].to = queue'[n].to => m = n
    BY <2>1, <2>2, <2>3, <2>6
  <2>9. QED BY <2>1, <2>2, <2>3, <2>7, <2>8 DEF EnableOnce
<1>8. CASE TransmitAll
  <2>1. UNCHANGED <<pending, motor, mpc, i>>
    BY <1>8, Zenon DEF TransmitAll
  <2>2. /\ queue' \in Seq(Item)
        /\ \A n \in 1 .. Len(queue') :
              \/ n \in 1 .. Len(queue) /\ queue'[n] = queue[n]
              \/ \E a \in Actuator : reg[a] # None /\ queue'[n] = [to |-> a, frame |-> reg[a]]
    BY <1>8, Transmitted
  <2>3. \A a \in Actuator : reg[a] = None
    BY <1>1, <2>1 DEF Sent, Early
  <2>4. \A n \in DOMAIN queue' : n \in DOMAIN queue /\ queue'[n] = queue[n]
    <3>1. DOMAIN queue' = 1 .. Len(queue') /\ DOMAIN queue = 1 .. Len(queue)
      BY <2>2, Types
    <3>2. QED BY <2>2, <2>3, <3>1
  <2>5. QED BY <1>1, <2>1, <2>4 DEF EnableOnce
<1>9. CASE \E a \in Actuator : Deliver(a) \/ Lose(a)
  <2>1. PICK a \in Actuator, n \in DOMAIN queue :
          Pop(a, n) /\ \A b \in Actuator : b # a => motor'[b] = motor[b]
    <3>1. PICK a \in Actuator : Deliver(a) \/ Lose(a)
      BY <1>9
    <3>2. CASE Deliver(a)
      <4>1. PICK n \in DOMAIN queue :
              Pop(a, n) /\ motor' = [motor EXCEPT ![a] = Obey(motor[a], queue[n].frame)]
        BY <3>2, Delivered
      <4>2. \A b \in Actuator : b # a => motor'[b] = motor[b]
        BY <4>1 DEF TypeOK
      <4>3. QED BY <4>1, <4>2
    <3>3. CASE Lose(a)
      BY <3>3, Zenon DEF Lose
    <3>4. QED BY <3>1, <3>2, <3>3
  <2>2. UNCHANGED <<mpc, i>>
    BY <1>9, Zenon DEF Deliver, Lose
  <2>3. /\ queue[n] \in Item /\ queue[n].to = a /\ pending' = pending
        /\ \A m \in DOMAIN queue' : /\ queue'[m] = queue[Skip(m, n)]
                                    /\ Skip(m, n) \in DOMAIN queue /\ Skip(m, n) # n
        /\ \A l, m \in DOMAIN queue' : Skip(l, n) = Skip(m, n) => l = m
    BY <2>1, Taken
  <2>4. /\ \A m \in DOMAIN queue :
             /\ ~ motor[queue[m].to].on
             /\ \E k \in 1 .. i : queue[m].to = EnableOrder[k] /\ (k = i => mpc = "enabling")
        /\ \A l, m \in DOMAIN queue : queue[l].to = queue[m].to => l = m
        /\ \A k \in i .. Len(EnableOrder) :
             (k = i => mpc # "enabling" \/ pending[main] # NoRequest) => ~ motor[EnableOrder[k]].on
        /\ pending[main] # NoRequest => \A m \in DOMAIN queue : queue[m].to # EnableOrder[i]
    BY <1>1, <2>2 DEF EnableOnce
  <2>5. ASSUME NEW m \in DOMAIN queue'
        PROVE  \E l \in DOMAIN queue : queue'[m] = queue[l] /\ queue[l].to # a /\ queue[l].to \in Actuator
    <3> DEFINE l == Skip(m, n)
    <3>1. l \in DOMAIN queue /\ l # n /\ queue'[m] = queue[l]
      BY <2>3
    <3> HIDE DEF l
    <3>2. queue[l] \in Item
      BY <3>1, Types
    <3>3. QED BY <2>3, <2>4, <3>1, <3>2 DEF Item
  <2>6. \A m \in DOMAIN queue' :
          /\ ~ motor'[queue'[m].to].on
          /\ \E k \in 1 .. i' : queue'[m].to = EnableOrder[k] /\ (k = i' => mpc' = "enabling")
    BY <2>1, <2>2, <2>4, <2>5
  <2>7. ASSUME NEW l \in DOMAIN queue', NEW m \in DOMAIN queue', queue'[l].to = queue'[m].to
        PROVE  l = m
    <3>1. Skip(l, n) = Skip(m, n)
      BY <2>3, <2>4, <2>7
    <3>2. QED BY <2>3, <3>1
  <2>8. ASSUME NEW k \in i .. Len(EnableOrder), k = i => mpc # "enabling" \/ pending[main] # NoRequest
        PROVE  ~ motor[EnableOrder[k]].on /\ EnableOrder[k] # a /\ EnableOrder[k] \in Actuator
    <3>1. i \in 1 .. Len(EnableOrder) /\ Len(EnableOrder) \in Nat
      BY <1>1, <2>2, Counting, At DEF TypeOK, MainThread
    <3>2. k \in 1 .. Len(EnableOrder)
      BY <3>1
    <3>3. PICK l \in 1 .. i : a = EnableOrder[l] /\ (l = i => mpc = "enabling")
      BY <2>3, <2>4
    <3>4. EnableOrder[k] = EnableOrder[l] => k = l
      <4>1. l \in 1 .. Len(EnableOrder)
        BY <3>1
      <4>2. QED BY <4>1, <3>2, Visited
    <3>5. EnableOrder[k] # a
      <4>1. SUFFICES ASSUME EnableOrder[k] = a PROVE FALSE
        OBVIOUS
      <4>2. k = l
        BY <3>3, <3>4, <4>1
      <4>3. k = i
        BY <3>1, <4>2
      <4>4. pending[main] # NoRequest
        BY <2>8, <3>3, <4>2, <4>3
      <4>5. QED BY <2>3, <2>4, <4>1, <4>3, <4>4
    <3>6. QED BY <2>4, <2>8, <3>2, <3>5, Counting
  <2>9. \A k \in i' .. Len(EnableOrder) :
          (k = i' => mpc' # "enabling" \/ pending'[main] # NoRequest) => ~ motor'[EnableOrder[k]].on
    BY <2>1, <2>2, <2>3, <2>8
  <2>10. pending'[main] # NoRequest => \A m \in DOMAIN queue' : queue'[m].to # EnableOrder[i']
    BY <2>2, <2>3, <2>4, <2>5
  <2>11. QED BY <2>6, <2>7, <2>9, <2>10 DEF EnableOnce
<1>10. CASE \/ RequestStop \/ SetLimp \/ Bind \/ JoinPublish \/ PollDisable \/ StopDevice \/ JoinLoop
            \/ Start \/ ShutdownBegin
  <2>1. ~ Enabling'
    <3>1. CASE RequestStop \/ SetLimp \/ Bind \/ JoinPublish
      BY <3>1 DEF RequestStop, SendOnce, SetLimp, Bind, JoinPublish
    <3>2. CASE PollDisable \/ StopDevice \/ JoinLoop \/ Start \/ ShutdownBegin
      BY <3>2 DEF PollDisable, StopDevice, JoinLoop, Start, ShutdownBegin
    <3>3. QED BY <1>10, <3>1, <3>2
  <2>2. QED BY <1>1, <2>1
<1> HIDE DEF Enabling
<1>11. QED
  BY <1>3, <1>4, <1>5, <1>6, <1>7, <1>8, <1>9, <1>10, Zenon DEF Next, Main, SenderThread

(* Steps of the main thread: what the polls have seen. *)
LEMMA AnsweredMoves ==
  ASSUME TypeOK, Sent, Seen, Answered, UNCHANGED <<motor, reply, recv>>,
         InitDriver \/ Main \/ Start \/ ShutdownBegin, ~ FireOnce
  PROVE  Answered'
<1>1. /\ \A a \in Actuator :
           /\ reply[a] = "enabled" \/ recv[a] = "enabled" => motor[a].on \/ Stopping
           /\ reply[a] = "disabled" \/ recv[a] = "disabled" => Stopping /\ ~ motor[a].on
      /\ mpc \in {"enable", "enabling"} /\ result =>
           \A k \in 1 .. i - 1 : motor[EnableOrder[k]].on
      /\ Live => \A a \in Actuator : motor[a].on
      /\ mpc \in {"device", "attach", "bind", "ready", "up", "join"} => i = 1
      /\ mpc \in {"disable", "disabling"} /\ result =>
           \A k \in 1 .. i - 1 : ~ motor[DisableOrder[k]].on
      /\ mpc \in {"stop", "joinloop", "down"} /\ result => \A a \in Actuator : ~ motor[a].on
  BY DEF Answered, Seen
<1>2. ASSUME Stopping => Stopping'
      PROVE  \A a \in Actuator :
               /\ reply'[a] = "enabled" \/ recv'[a] = "enabled" => motor'[a].on \/ Stopping'
               /\ reply'[a] = "disabled" \/ recv'[a] = "disabled" => Stopping' /\ ~ motor'[a].on
  BY <1>1, <1>2, Zenon
<1>3. CASE InitDriver
  <2>1. /\ mpc \in {"device", "attach"} /\ mpc' \in {"device", "attach", "enable", "failed"}
        /\ i' = i
    BY <1>3, InitDriverFrame
  <2>2. ~ Stopping /\ ~ Live' /\ i' = 1 /\ 1 .. i' - 1 = {}
    BY <1>1, <2>1 DEF Stopping, Live
  <2>3. QED BY <1>2, <2>1, <2>2 DEF Answered
<1>4. CASE EnableMissing
  <2>1. mpc = "enable" /\ result' = FALSE /\ mpc' \in {"enable", "failed"}
    BY <1>4 DEF EnableMissing
  <2>2. ~ Stopping /\ ~ Live'
    BY <2>1 DEF Stopping, Live
  <2>3. QED BY <1>2, <2>1, <2>2 DEF Answered
<1>5. CASE RequestEnable
  <2>1. mpc = "enable" /\ mpc' = "enabling" /\ UNCHANGED <<i, result>>
    BY <1>5, Zenon DEF RequestEnable, SendOnce
  <2>2. ~ Stopping /\ ~ Live'
    BY <2>1 DEF Stopping, Live
  <2>3. result' => \A k \in 1 .. i' - 1 : motor'[EnableOrder[k]].on
    BY <1>1, <2>1
  <2>4. QED BY <1>2, <2>1, <2>2, <2>3 DEF Answered
<1>6. CASE RequestStop
  <2>1. mpc = "disable" /\ mpc' = "disabling" /\ UNCHANGED <<i, result>>
    BY <1>6, Zenon DEF RequestStop, SendOnce
  <2>2. Stopping' /\ ~ Live'
    BY <2>1 DEF Stopping, Live
  <2>3. result' => \A k \in 1 .. i' - 1 : ~ motor'[DisableOrder[k]].on
    BY <1>1, <2>1
  <2>4. QED BY <1>2, <2>1, <2>2, <2>3 DEF Answered
<1>7. CASE PollEnable
  <2>1. /\ mpc = "enabling" /\ mpc' \in {"enable", "limp", "failed"}
        /\ mpc' = "enable" => i' = i + 1
        /\ mpc' = "limp" => ~ i < Len(EnableOrder)
    BY <1>7 DEF PollEnable
  <2>2. /\ result' => result /\ recv[EnableOrder[i]] = "enabled"
        /\ mpc' = "limp" => result'
    <3>1. result' => result /\ recv[EnableOrder[i]] = "enabled"
      BY <1>7, Zenon DEF PollEnable
    <3>2. mpc' = "limp" => result'
      BY <1>7 DEF PollEnable
    <3>3. QED BY <3>1, <3>2
  <2>3. i \in 1 .. Len(EnableOrder) /\ Len(EnableOrder) \in Nat /\ ~ Stopping
        /\ EnableOrder[i] \in Actuator
    BY <2>1, Counting, At DEF TypeOK, MainThread, Stopping
  <2>4. ASSUME result', NEW k \in 1 .. i
        PROVE  motor'[EnableOrder[k]].on
    <3>1. CASE k = i
      BY <1>1, <2>1, <2>2, <2>3, <2>4, <3>1
    <3>2. CASE k \in 1 .. i - 1
      BY <1>1, <2>1, <2>2, <2>4, <3>2
    <3>3. QED BY <2>3, <3>1, <3>2
  <2>5. mpc' = "limp" => \A a \in Actuator : motor'[a].on
    <3>1. SUFFICES ASSUME mpc' = "limp", NEW a \in Actuator
                   PROVE  motor'[a].on
      OBVIOUS
    <3>2. PICK k \in 1 .. Len(EnableOrder) : EnableOrder[k] = a
      BY Visited
    <3>3. k \in 1 .. i /\ result'
      BY <2>1, <2>2, <2>3, <3>1
    <3>4. QED BY <2>4, <3>2, <3>3
  <2>6. mpc' = "enable" /\ result' =>
          \A k \in 1 .. i' - 1 : motor'[EnableOrder[k]].on
    BY <2>1, <2>3, <2>4
  <2>7. Live' => mpc' = "limp"
    BY <2>1 DEF Live
  <2>8. QED BY <1>2, <2>1, <2>3, <2>5, <2>6, <2>7 DEF Answered
<1>8. CASE SetLimp
  <2>1. /\ mpc = "limp" /\ mpc' \in {"limp", "bind"} /\ (mpc' = "bind" => i' = 1)
    BY <1>8 DEF SetLimp
  <2>2. Live /\ ~ Stopping
    BY <2>1 DEF Live, Stopping
  <2>3. QED BY <1>1, <1>2, <2>1, <2>2 DEF Answered
<1>9. CASE Bind \/ Start \/ ShutdownBegin
  <2>1. /\ mpc \in {"bind", "ready", "up"} /\ mpc' \in {"ready", "up", "join"}
        /\ i' = i
    BY <1>9 DEF Bind, Start, ShutdownBegin
  <2>2. Live /\ ~ Stopping
    BY <2>1 DEF Live, Stopping
  <2>3. QED BY <1>1, <1>2, <2>1, <2>2 DEF Answered
<1>10. CASE JoinPublish
  <2>1. mpc = "join" /\ mpc' = "disable" /\ i' = 1
    BY <1>1, <1>10 DEF JoinPublish
  <2>2. Stopping' /\ ~ Live' /\ 1 .. i' - 1 = {}
    BY <2>1 DEF Live, Stopping
  <2>3. QED BY <1>2, <2>1, <2>2 DEF Answered
<1>11. CASE PollDisable
  <2>1. /\ mpc = "disabling" /\ mpc' \in {"disable", "stop"}
        /\ mpc' = "disable" => i' = i + 1
        /\ mpc' = "stop" => ~ i < Len(DisableOrder) \/ result' = FALSE
    BY <1>11 DEF PollDisable
  <2>2. result' => result /\ recv[DisableOrder[i]] = "disabled"
    BY <1>11, Zenon DEF PollDisable
  <2>3. i \in 1 .. Len(DisableOrder) /\ Len(DisableOrder) \in Nat /\ DisableOrder[i] \in Actuator
    BY <2>1, Counting, At DEF TypeOK, MainThread
  <2>4. ASSUME result', NEW k \in 1 .. i
        PROVE  ~ motor'[DisableOrder[k]].on
    <3>1. CASE k = i
      BY <1>1, <2>2, <2>3, <2>4, <3>1
    <3>2. CASE k \in 1 .. i - 1
      BY <1>1, <2>1, <2>2, <2>4, <3>2
    <3>3. QED BY <2>3, <3>1, <3>2
  <2>5. mpc' = "stop" /\ result' => \A a \in Actuator : ~ motor'[a].on
    <3>1. SUFFICES ASSUME mpc' = "stop", result', NEW a \in Actuator
                   PROVE  ~ motor'[a].on
      OBVIOUS
    <3>2. PICK k \in 1 .. Len(DisableOrder) : DisableOrder[k] = a
      BY Visited
    <3>3. k \in 1 .. i
      BY <2>1, <2>3, <3>1
    <3>4. QED BY <2>4, <3>1, <3>2, <3>3
  <2>6. mpc' = "disable" /\ result' => \A k \in 1 .. i' - 1 : ~ motor'[DisableOrder[k]].on
    BY <2>1, <2>3, <2>4
  <2>7. ~ Live' /\ Stopping'
    BY <2>1 DEF Live, Stopping
  <2>8. QED BY <1>2, <2>1, <2>5, <2>6, <2>7 DEF Answered
<1>12. CASE StopDevice \/ JoinLoop
  <2>1. mpc \in {"stop", "joinloop"} /\ mpc' \in {"joinloop", "down"} /\ UNCHANGED result
    BY <1>12 DEF StopDevice, JoinLoop
  <2>2. ~ Live' /\ Stopping'
    BY <2>1 DEF Live, Stopping
  <2>3. QED BY <1>1, <1>2, <2>1, <2>2 DEF Answered
<1>13. QED
  BY <1>3, <1>4, <1>5, <1>6, <1>7, <1>8, <1>9, <1>10, <1>11, <1>12, Zenon DEF Main

(* Steps of the bus and the motors: a motor is on once it has obeyed the   *)
(* frame that enables it, and nothing but Shutdown's frames end that.      *)
LEMMA AnsweredStays ==
  ASSUME TypeOK, Sent, Clean, Answered, UNCHANGED <<mpc, i, result>>,
         \/ UNCHANGED <<motor, reply, recv>>
         \/ \E a \in Actuator : Deliver(a) \/ Receive(a)
  PROVE  Answered'
<1>1. (Live' <=> Live) /\ (Stopping' <=> Stopping) /\ (Early' <=> Early)
      /\ (Early \/ Live \/ Stopping) /\ ~ (Live /\ Stopping)
  BY DEF Live, Stopping, Early, TypeOK
<1>2. /\ \A a \in Actuator :
           /\ reply[a] = "enabled" \/ recv[a] = "enabled" => motor[a].on \/ Stopping
           /\ reply[a] = "disabled" \/ recv[a] = "disabled" => Stopping /\ ~ motor[a].on
      /\ Live => \A a \in Actuator : motor[a].on
  BY DEF Answered
<1>3. ASSUME ~ Stopping => \A a \in Actuator : motor[a].on => motor'[a].on,
             Stopping => \A a \in Actuator : motor'[a].on => motor[a].on,
             \A a \in Actuator :
               /\ reply'[a] = "enabled" \/ recv'[a] = "enabled" => motor'[a].on \/ Stopping
               /\ reply'[a] = "disabled" \/ recv'[a] = "disabled" => Stopping /\ ~ motor'[a].on
      PROVE  Answered'
  <2>1. mpc \in {"enable", "enabling"} /\ result =>
          \A k \in 1 .. i - 1 : motor'[EnableOrder[k]].on
    <3>1. SUFFICES ASSUME mpc \in {"enable", "enabling"}, result, NEW k \in 1 .. i - 1
                   PROVE  motor'[EnableOrder[k]].on
      BY Zenon
    <3>2. motor[EnableOrder[k]].on
      BY <3>1 DEF Answered
    <3>3. i \in 1 .. Len(EnableOrder) /\ Len(EnableOrder) \in Nat
      BY <3>1, Counting, At DEF TypeOK, MainThread
    <3>4. ~ Stopping /\ EnableOrder[k] \in Actuator
      BY <3>1, <3>3, Counting DEF Stopping
    <3>5. QED BY <1>3, <3>2, <3>4
  <2>2. Live => \A a \in Actuator : motor'[a].on
    BY <1>1, <1>2, <1>3
  <2>3. mpc \in {"disable", "disabling"} /\ result => \A k \in 1 .. i - 1 : ~ motor'[DisableOrder[k]].on
    <3>1. SUFFICES ASSUME mpc \in {"disable", "disabling"}, result, NEW k \in 1 .. i - 1
                   PROVE  ~ motor'[DisableOrder[k]].on
      BY Zenon
    <3>2. ~ motor[DisableOrder[k]].on
      BY <3>1 DEF Answered
    <3>3. i \in 1 .. Len(DisableOrder) /\ Len(DisableOrder) \in Nat
      BY <3>1, Counting, At DEF TypeOK, MainThread
    <3>4. Stopping /\ DisableOrder[k] \in Actuator
      BY <3>1, <3>3, Counting DEF Stopping
    <3>5. QED BY <1>3, <3>2, <3>4
  <2>4. mpc \in {"stop", "joinloop", "down"} /\ result => \A a \in Actuator : ~ motor'[a].on
    BY <1>3 DEF Answered, Stopping
  <2>5. QED BY <1>1, <1>3, <2>1, <2>2, <2>3, <2>4 DEF Answered
<1>4. CASE UNCHANGED <<motor, reply, recv>>
  BY <1>2, <1>3, <1>4
<1>5. CASE \E a \in Actuator : Receive(a)
  <2>1. PICK a \in Actuator : Receive(a)
    BY <1>5
  <2>2. reply[a] # "none" /\ recv' = [recv EXCEPT ![stored[a]] = reply[a]]
        /\ reply' = [reply EXCEPT ![a] = "none"] /\ motor' = motor
    BY <2>1 DEF Receive
  <2>3. stored[a] = a
    BY <2>2 DEF Sent, Clean
  <2>4. \A b \in Actuator :
          /\ reply'[b] = "enabled" \/ recv'[b] = "enabled" => reply[b] = "enabled" \/ recv[b] = "enabled"
          /\ reply'[b] = "disabled" \/ recv'[b] = "disabled" => reply[b] = "disabled" \/ recv[b] = "disabled"
    BY <2>2, <2>3 DEF TypeOK
  <2>5. QED BY <1>2, <1>3, <2>2, <2>4
<1>6. CASE \E a \in Actuator : Deliver(a)
  <2>1. PICK a \in Actuator, n \in DOMAIN queue :
          /\ Pop(a, n)
          /\ motor' = [motor EXCEPT ![a] = Obey(motor[a], queue[n].frame)]
          /\ reply' = [reply EXCEPT ![a] = IF motor'[a].on THEN "enabled" ELSE "disabled"]
          /\ recv' = recv
    <3>1. PICK a \in Actuator : Deliver(a)
      BY <1>6
    <3>2. QED BY <3>1, Delivered
  <2> DEFINE f == queue[n].frame
             state == Obey(motor[a], f)
  <2>2. f \in Periodic \cup Once /\ motor[a] \in [on : BOOLEAN, cmd : 0 .. MaxCmd]
    BY <2>1, Taken DEF Item, TypeOK
  <2>3. /\ f = Enable => state.on
        /\ f = Stop => ~ state.on
        /\ f \in Periodic => (state.on <=> motor[a].on)
    BY <2>2, Obeyed
  <2>4. /\ Early => f = Enable
        /\ Live => f \in Periodic
        /\ Stopping => f \in Periodic \cup {Stop}
    BY DEF Sent
  <2> HIDE DEF f
  <2>5. /\ motor' = [motor EXCEPT ![a] = state]
        /\ reply' = [reply EXCEPT ![a] = IF state.on THEN "enabled" ELSE "disabled"]
        /\ recv' = recv
    BY <2>1 DEF TypeOK, f
  <2> HIDE DEF state
  <2>6. /\ ~ Stopping => state.on
        /\ Stopping => (state.on => motor[a].on)
    BY <1>1, <1>2, <2>2, <2>3, <2>4
  <2>7. \A b \in Actuator :
          /\ b = a => motor'[b] = state /\ reply'[b] = IF state.on THEN "enabled" ELSE "disabled"
          /\ b # a => motor'[b] = motor[b] /\ reply'[b] = reply[b]
    BY <2>5 DEF TypeOK
  <2>8. ASSUME NEW b \in Actuator
        PROVE  /\ ~ Stopping => (motor[b].on => motor'[b].on)
               /\ Stopping => (motor'[b].on => motor[b].on)
               /\ reply'[b] = "enabled" \/ recv'[b] = "enabled" => motor'[b].on \/ Stopping
               /\ reply'[b] = "disabled" \/ recv'[b] = "disabled" => Stopping /\ ~ motor'[b].on
    <3>1. CASE b = a
      <4>1. motor'[b] = state /\ reply'[b] = IF state.on THEN "enabled" ELSE "disabled"
        BY <2>7, <3>1
      <4>2. recv'[b] = "disabled" => Stopping /\ ~ motor[b].on
        BY <1>2, <2>5
      <4>3. QED BY <2>6, <3>1, <4>1, <4>2
    <3>2. CASE b # a
      BY <1>2, <2>5, <2>7, <3>2
    <3>3. QED BY <3>1, <3>2
  <2>9. QED BY <1>3, <2>8
<1>7. QED BY <1>4, <1>5, <1>6

LEMMA AnsweredKept ==
  ASSUME TypeOK, Sent, Seen, Clean, Answered, [Next]_vars
  PROVE  Answered'
<1> USE DEF moduleVars, motorVars, wiringVars
<1>1. CASE (InitDriver \/ Main \/ Start \/ ShutdownBegin) /\ ~ FireOnce
  <2>1. UNCHANGED <<motor, reply, recv>>
    <3>1. CASE InitDriver
      BY <3>1, InitDriverFrame
    <3>2. CASE (Main \/ Start \/ ShutdownBegin) /\ ~ FireOnce
      BY <3>2, Zenon DEF Main, EnableMissing, RequestEnable, RequestStop, SendOnce, PollEnable, SetLimp,
         Bind, JoinPublish, PollDisable, StopDevice, JoinLoop, Start, ShutdownBegin
    <3>3. QED BY <1>1, <3>1, <3>2
  <2>2. QED BY <1>1, <2>1, AnsweredMoves
<1>2. CASE \/ FireOnce \/ PublishLoopEnds \/ LoopCheck \/ TransmitAll \/ CallbackBegin
           \/ CallbackWrite \/ UNCHANGED vars \/ (\E a \in Actuator : FindEmpty(a) \/ Block(a) \/ Lose(a))
  <2>1. UNCHANGED <<mpc, i, result, motor, reply, recv>>
    BY <1>2, Zenon DEF FireOnce, PublishLoopEnds, LoopCheck, TransmitAll, FindEmpty, Block, Lose,
       CallbackBegin, CallbackWrite, vars
  <2>2. QED BY <2>1, AnsweredStays
<1>3. CASE \E a \in Actuator : Deliver(a) \/ Receive(a)
  <2>1. UNCHANGED <<mpc, i, result>>
    BY <1>3, Zenon DEF Deliver, Receive
  <2>2. QED BY <1>3, <2>1, AnsweredStays
<1>4. QED BY <1>1, <1>2, <1>3, Zenon DEF Next, SenderThread
-----------------------------------------------------------------------------
LEMMA DrivenInit == Init => Driven
<1> SUFFICES ASSUME Init PROVE Driven
  OBVIOUS
<1>1. /\ mpc = "device" /\ i = 1 /\ result = TRUE /\ is_running = FALSE /\ publishing = FALSE
      /\ loop_on = FALSE /\ lpc = "off" /\ cpc = 0 /\ msg = 0
      /\ motor = [a \in Actuator |-> [on |-> FALSE, cmd |-> 0]]
      /\ reply = [a \in Actuator |-> "none"] /\ recv = [a \in Actuator |-> "none"]
      /\ lossy \in BOOLEAN /\ config \in Networks /\ motors = <<>> /\ wiring = NoWiring
      /\ stored = Empty /\ shares = Empty /\ bound = {}
      /\ sender = [a \in Actuator |-> "loop"]
      /\ reg = [a \in Actuator |-> None] /\ pending = [u \in User |-> NoRequest] /\ queue = <<>>
  BY DEF Init, PortInit
<1>2. MainThread
  <2>1. i \in 1 .. Len(EnableOrder) /\ mpc \notin {"disable", "disabling"}
    BY <1>1, Counting
  <2>2. result \in BOOLEAN /\ is_running \in BOOLEAN /\ publishing \in BOOLEAN
    BY <1>1, Zenon
  <2>3. QED BY <1>1, <2>1, <2>2 DEF MainThread
<1>3. Others
  <2>1. cpc \in 0 .. Len(CallbackOrder) /\ msg \in 0 .. MaxCmd /\ 0 \in 0 .. MaxCmd
    BY <1>1, Counting, Frames
  <2>2. motor \in [Actuator -> [on : BOOLEAN, cmd : 0 .. MaxCmd]]
    BY <1>1, <2>1
  <2>3. loop_on \in BOOLEAN /\ lpc \in {"off", "check", "send", "ended"}
    BY <1>1
  <2>4. /\ reply \in [Actuator -> {"none", "enabled", "disabled"}]
        /\ recv \in [Actuator -> {"none", "enabled", "disabled"}]
    BY <1>1
  <2>5. QED BY <1>1, <2>1, <2>2, <2>3, <2>4 DEF Others
<1>4. Port
  <2>1. NoRequest \in [to : Actuator \cup {"nobody"}, frame : Once]
    BY DEF NoRequest, Once
  <2>2. QED BY <1>1, <2>1, PortAssumption DEF Port
<1>5. config \in Seq(Device)
  BY <1>1, WiringAssumption
<1>6. stored \in [{} -> Actuator] /\ shares \in [{} -> SUBSET Actuator]
      /\ DOMAIN stored = {} /\ DOMAIN wiring.bus = {}
  BY <1>1, NothingWired DEF Empty
<1>7. TypeOK
  <2>1. motors \in Seq(Entry)
    BY <1>1
  <2>2. QED BY <1>2, <1>3, <1>4, <1>5, <1>6, <2>1 DEF TypeOK, MainThread, Others, Port
<1>8. Attached /\ Readable /\ Stored
  BY <1>1, <1>5, <1>6 DEF Attached, Readable, Stored
<1>9. ~ Live /\ ~ Stopping
  BY <1>1 DEF Live, Stopping
<1>10. pending[main] = NoRequest /\ \A u \in User : pending[u] = NoRequest
  BY <1>1, DriverAssumption DEF main
<1>11. Sent
  BY <1>1, <1>10 DEF Sent
<1>12. EnableOnce
  BY <1>1, <1>10, Counting DEF EnableOnce
<1>13. Answered
  BY <1>1, <1>9 DEF Answered
<1>14. Seen
  BY <1>1, <1>9 DEF Seen
<1>15. QED BY <1>7, <1>8, <1>11, <1>12, <1>13, <1>14 DEF Driven

(* The wiring is read once, and clean before it is. *)
LEMMA CleanBefore ==
  ASSUME Stored, [Next]_vars, Clean'
  PROVE  Clean
<1>1. CASE InitDriver
  <2>1. stored = Empty
    BY <1>1, InitDriverFrame DEF Stored
  <2>2. QED BY <2>1, NothingWired DEF Clean
<1>2. CASE UNCHANGED vars \/ (Next /\ ~ InitDriver)
  <2>1. stored' = stored
    BY <1>2, WiringFrame DEF vars, wiringVars
  <2>2. QED BY <2>1 DEF Clean
<1>3. QED BY <1>1, <1>2

LEMMA DrivenNext == Driven /\ [Next]_vars => Driven'
<1> SUFFICES ASSUME Driven, [Next]_vars PROVE Driven'
  OBVIOUS
<1>1. TypeOK' /\ Attached' /\ Readable' /\ Stored' /\ Sent' /\ Seen'
  BY TypeKept, WiringKept, SentKept, SeenKept DEF Driven
<1>2. Clean' => EnableOnce' /\ Answered'
  BY CleanBefore, EnableOnceKept, AnsweredKept DEF Driven
<1>3. QED BY <1>1, <1>2 DEF Driven

LEMMA DrivenHolds == Spec => []Driven
BY DrivenInit, DrivenNext, PTL DEF Spec

(* What the properties need of the invariant. *)
LEMMA Use ==
  ASSUME Driven
  PROVE  /\ Early \/ Live \/ Stopping
         /\ Live \/ Stopping => Answered /\ stored = [a \in Actuator |-> a]
<1>1. Early \/ Live \/ Stopping
  BY DEF Driven, TypeOK, Early, Live, Stopping
<1>2. Live \/ Stopping => DOMAIN stored = Actuator /\ Clean
  BY DEF Driven, Seen
<1>3. PICK as \in SUBSET Actuator : stored \in [as -> Actuator]
  BY DEF Driven, TypeOK
<1>4. Live \/ Stopping => stored = [a \in Actuator |-> a]
  BY <1>2, <1>3 DEF Clean
<1>5. QED BY <1>1, <1>2, <1>4 DEF Driven

(* The types of the driver's state, whatever the number of motors, the     *)
(* orders they are visited in and the configuration.                       *)
THEOREM TypeCorrect == Spec => []TypeOK
<1>1. Driven => TypeOK
  BY DEF Driven
<1>2. QED BY <1>1, DrivenHolds, PTL

(* OwnAnswers for every configuration the code can be given, with several  *)
(* buses on one interface and one id on several of them too: no bus gives  *)
(* one motor's answers to another of its own, and where two buses of an    *)
(* interface do, or a motor is missing, Initialize fails.                  *)
THEOREM OwnAnswersHolds == Spec => []OwnAnswers
<1>1. Driven => OwnAnswers
  <2> SUFFICES ASSUME Driven PROVE OwnAnswers
    OBVIOUS
  <2>1. ASSUME NEW a \in DOMAIN wiring.bus, wiring.bus[StoredFor(wiring, a)] = wiring.bus[a]
        PROVE  StoredFor(wiring, a) = a
    <3> DEFINE b == StoredFor(wiring, a)
    <3>1. b \in DOMAIN wiring.bus /\ Address(wiring, b) = Address(wiring, a)
      BY DEF Driven, Attached
    <3>2. wiring.id[b] = wiring.id[a]
      BY <3>1 DEF Address
    <3>3. QED BY <2>1, <3>1, <3>2 DEF Driven, Attached
  <2>2. mpc \notin {"device", "attach", "enable", "enabling", "failed"} => stored = [a \in Actuator |-> a]
    BY Use DEF Early
  <2>3. QED BY <2>1, <2>2 DEF OwnAnswers
<1>2. QED BY <1>1, DrivenHolds, PTL

(* ReadyMeansEnabled for every number of motors, however frames are lost   *)
(* and forgotten: Initialize goes on only with all motors enabled.         *)
THEOREM ReadyMeansEnabledHolds == Spec => []ReadyMeansEnabled
<1>1. Driven => ReadyMeansEnabled
  BY Use DEF Answered, Live, ReadyMeansEnabled
<1>2. QED BY <1>1, DrivenHolds, PTL

(* DisableAckTrue for every number of motors: when DisableAllActuator has  *)
(* heard from all motors they are off, and stay off.                       *)
THEOREM DisableAckTrueHolds == Spec => []DisableAckTrue
<1>1. Driven => DisableAckTrue
  BY Use DEF Stopping, Answered, DisableAckTrue
<1>2. QED BY <1>1, DrivenHolds, PTL

(* FollowersReportCommand for every limit, direction and command.          *)
THEOREM FollowersReportCommandHolds == Spec => []FollowersReportCommand
<1>1. FollowersReportCommand
  BY CommandComesBackHolds DEF FollowersReportCommand
<1>2. QED BY <1>1, PTL
=============================================================================
