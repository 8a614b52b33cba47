----------------------------- MODULE JointFeed -----------------------------
(***************************************************************************)
(* From the motors' feedback to the controllers' estimates: the receive    *)
(* callbacks of the bus, PublishLoop of the joint driver with the          *)
(* /joint_states callback it runs inline, the /imu/data callback, the      *)
(* control thread's UpdateStateEstimation, and the flight recorder's ring  *)
(* of joint states.                                                        *)
(*                                                                         *)
(* A measured value is the number of the feedback frame it was decoded     *)
(* from; what a controller holds is the number of the message it came in.  *)
(***************************************************************************)
EXTENDS RingTrace

CONSTANTS
  DriverOrder,   \* joint_list of the driver: the order of a message
  ControlOrder,  \* joint_list of the control module
  Controllers,   \* controller_map_, in its order
  Policy,        \* the controller that estimates (RLController)
  Modes,         \* the controller lists of the modes, that of the first mode first
  MaxFeedback,   \* motor -> feedback frames it sends, a bound of the model
  MaxImu, MaxSwitch   \* IMU messages and mode switches, bounds of the model

Joint == {DriverOrder[i] : i \in DOMAIN DriverOrder}
Controller == {Controllers[i] : i \in DOMAIN Controllers}

ASSUME FeedAssumption ==
  /\ DriverOrder \in Seq(Joint) \ {<<>>} /\ ControlOrder \in Seq(Joint)
  /\ {ControlOrder[i] : i \in DOMAIN ControlOrder} = Joint
  /\ Controllers \in Seq(Controller) /\ Policy \in Controller
  /\ Modes \in Seq(SUBSET Controller) \ {<<>>}
  /\ MaxFeedback \in [Joint -> Nat] /\ {MaxImu, MaxSwitch} \subseteq Nat

VARIABLES
  sent,        \* motor -> feedback frames it has sent
  slot,        \* recv_buf_: motor -> its latest frame, Fault for another kind
  decoded,     \* motor -> the frame the members of RobstrideMotor are of
  fpc, at,     \* PublishLoop: where it is, and the index of its loop there
  sample,      \* actuator_data_space_: motor -> effort, velocity, position
  message,     \* joint states published so far
  index_map,   \* joint_state_index_map_
  holds,       \* joint_state_data_: controller -> joint -> <<joint, message>>
  joint_mtx,   \* joint_state_mutex_ of a controller: "free", "feed", "control"
  current,     \* the controllers of the mode
  ipc, itodo,  \* the IMU callback: messages so far, controllers it has yet to set
  imu,         \* imu_data_: controller -> message
  epc, next,   \* the control thread, and the joint it reads next
  propri, propri_imu,   \* the estimate of Policy
  switches,    \* mode switches so far
  delivered,   \* the last message all controllers have been given (history)
  due, owed,   \* the mode when the IMU callback began; the last message of a
               \* callback that found Policy in the mode, and has ended (history)
  since        \* both when the estimate began (history)

busVars == <<sent, slot, decoded>>
loopVars == <<fpc, at, sample, message, index_map>>
imuVars == <<ipc, itodo, imu, due, owed>>
controlVars == <<epc, next, propri, propri_imu, since>>
modeVars == <<current, switches>>
feedVars == <<busVars, loopVars, holds, joint_mtx, imuVars, controlVars, modeVars, delivered>>
allVars == <<vars, feedVars>>

Fault == -1
Fields == <<"effort", "velocity", "position">>
Unknown == <<"none", 0>>

FeedInit ==
  /\ Init
  /\ sent = [j \in Joint |-> 0] /\ slot = [j \in Joint |-> 0] /\ decoded = [j \in Joint |-> 0]
  /\ fpc = "sample" /\ at = 1 /\ message = 0
  /\ sample = [j \in Joint |-> [f \in {"effort", "velocity", "position"} |-> 0]]
  /\ index_map = [j \in Joint |-> -1]
  /\ holds = [c \in Controller |-> [j \in Joint |-> Unknown]]
  /\ joint_mtx = [c \in Controller |-> "free"]
  /\ current = Modes[1] /\ switches = 0
  /\ ipc = 0 /\ itodo = {} /\ imu = [c \in Controller |-> 0]
  /\ due = {} /\ owed = 0 /\ delivered = 0
  /\ epc = "list" /\ next = 1 /\ propri = [j \in Joint |-> Unknown] /\ propri_imu = 0
  /\ since = [joint |-> 0, imu |-> 0]
-----------------------------------------------------------------------------
(* The motors answer; the receive callback stores the whole frame in the   *)
(* slot, under recv_mtx_, whatever its kind.                               *)
Receive(j) ==
  /\ sent[j] < MaxFeedback[j]
  /\ sent' = [sent EXCEPT ![j] = @ + 1]
  /\ \E f \in {sent'[j], Fault} : slot' = [slot EXCEPT ![j] = f]
  /\ UNCHANGED <<vars, decoded, loopVars, holds, joint_mtx, imuVars, controlVars, modeVars, delivered>>

(* ParseFeedback: a frame that is no feedback leaves the members alone. *)
ParseFeedback(j) == IF slot[j] = Fault THEN decoded[j] ELSE slot[j]
-----------------------------------------------------------------------------
(* PublishLoop *)
Motor(i) == DriverOrder[1 + (i - 1) \div 3]
Field(i) == Fields[1 + ((i - 1) % 3)]

(* Mutant of Sample: the position is read first. *)
SampleReversed ==
  /\ fpc = "sample" /\ message < MaxPush
  /\ decoded' = [decoded EXCEPT ![Motor(at)] = ParseFeedback(Motor(at))]
  /\ sample' = [sample EXCEPT ![Motor(at)][Fields[3 - ((at - 1) % 3)]] = decoded'[Motor(at)]]
  /\ IF at < 3 * Len(DriverOrder)
     THEN at' = at + 1 /\ UNCHANGED fpc
     ELSE at' = 1 /\ fpc' = "publish"
  /\ UNCHANGED <<vars, sent, slot, message, index_map, holds, joint_mtx, imuVars, controlVars,
                 modeVars, delivered>>

(* GetEffort, GetVelocity, GetPosition of one motor after the other, each  *)
(* with its own lock of recv_mtx_ and its own ParseFeedback.               *)
Sample ==
  /\ fpc = "sample" /\ message < MaxPush
  /\ decoded' = [decoded EXCEPT ![Motor(at)] = ParseFeedback(Motor(at))]
  /\ sample' = [sample EXCEPT ![Motor(at)][Field(at)] = decoded'[Motor(at)]]
  /\ IF at < 3 * Len(DriverOrder)
     THEN at' = at + 1 /\ UNCHANGED fpc
     ELSE at' = 1 /\ fpc' = "publish"
  /\ UNCHANGED <<vars, sent, slot, message, index_map, holds, joint_mtx, imuVars, controlVars,
                 modeVars, delivered>>

(* Mutant of PublishState: the messages are taken to be in the order of    *)
(* the module's own list.                                                  *)
PublishStateOwnOrder ==
  /\ fpc = "publish"
  /\ message' = message + 1
  /\ index_map' = [j \in Joint |-> CHOOSE i \in DOMAIN ControlOrder : ControlOrder[i] = j]
  /\ fpc' = IF frozen THEN "write" ELSE "trace"
  /\ UNCHANGED <<vars, busVars, at, sample, holds, joint_mtx, imuVars, controlVars, modeVars, delivered>>

(* The transmission and the message, and the start of its callback, which  *)
(* takes the order of the names from the first message.                    *)
PublishState ==
  /\ fpc = "publish"
  /\ message' = message + 1
  /\ index_map' = IF \E j \in Joint : index_map[j] = -1
                  THEN [j \in Joint |-> CHOOSE i \in DOMAIN DriverOrder : DriverOrder[i] = j]
                  ELSE index_map
  /\ fpc' = IF frozen THEN "write" ELSE "trace"
  /\ UNCHANGED <<vars, busVars, at, sample, holds, joint_mtx, imuVars, controlVars, modeVars, delivered>>

(* state_trace_.Push.  A freeze since then makes it return at once. *)
PushTrace ==
  /\ fpc = "trace"
  /\ \/ (PushBegin \/ PushTime \/ PushData) /\ UNCHANGED fpc
     \/ PushHead /\ fpc' = "write"
     \/ wpc = "idle" /\ frozen /\ fpc' = "write" /\ UNCHANGED vars
  /\ UNCHANGED <<busVars, at, sample, message, index_map, holds, joint_mtx, imuVars, controlVars,
                 modeVars, delivered>>

(* Mutant of Lock: the data are written without the mutex. *)
LockNothing ==
  /\ fpc = "write"
  /\ fpc' = "copy"
  /\ UNCHANGED <<vars, busVars, at, sample, message, index_map, holds, joint_mtx, imuVars,
                 controlVars, modeVars, delivered>>

(* SetJointStateData of every controller, in the mode or not. *)
Lock ==
  /\ fpc = "write"
  /\ joint_mtx[Controllers[at]] = "free"
  /\ joint_mtx' = [joint_mtx EXCEPT ![Controllers[at]] = "feed"]
  /\ fpc' = "copy"
  /\ UNCHANGED <<vars, busVars, at, sample, message, index_map, holds, imuVars, controlVars,
                 modeVars, delivered>>

CopyJoint(j) ==
  /\ fpc = "copy"
  /\ holds[Controllers[at]][j][2] # message
  /\ holds' = [holds EXCEPT ![Controllers[at]][j] = <<DriverOrder[index_map[j]], message>>]
  /\ UNCHANGED <<vars, busVars, loopVars, joint_mtx, imuVars, controlVars, modeVars, delivered>>

Copied == \A j \in Joint : holds[Controllers[at]][j][2] = message

NextSample == at' = 1 /\ fpc' = "sample" /\ delivered' = message

(* Mutant of Unlock: only a controller of the mode is given the data. *)
UnlockCurrent ==
  /\ fpc = "copy" /\ Copied
  /\ joint_mtx' = [joint_mtx EXCEPT ![Controllers[at]] = "free"]
  /\ IF at < Len(Controllers) /\ Controllers[at + 1] \in current
     THEN at' = at + 1 /\ fpc' = "write" /\ UNCHANGED delivered
     ELSE NextSample
  /\ UNCHANGED <<vars, busVars, sample, message, index_map, holds, imuVars, controlVars, modeVars>>

Unlock ==
  /\ fpc = "copy" /\ Copied
  /\ joint_mtx' = [joint_mtx EXCEPT ![Controllers[at]] = "free"]
  /\ IF at < Len(Controllers)
     THEN at' = at + 1 /\ fpc' = "write" /\ UNCHANGED delivered
     ELSE NextSample
  /\ UNCHANGED <<vars, busVars, sample, message, index_map, holds, imuVars, controlVars, modeVars>>

PublishLoop ==
  Sample \/ PublishState \/ PushTrace \/ Lock \/ (\E j \in Joint : CopyJoint(j)) \/ Unlock
-----------------------------------------------------------------------------
(* The IMU callback, which sets the controllers of the mode only. *)

ImuBegin ==
  /\ itodo = {} /\ ipc < MaxImu
  /\ ipc' = ipc + 1
  /\ itodo' = current
  /\ due' = current
  /\ UNCHANGED <<vars, busVars, loopVars, holds, joint_mtx, imu, owed, controlVars, modeVars, delivered>>

SetImuData(c) ==
  /\ c \in itodo
  /\ imu' = [imu EXCEPT ![c] = ipc]
  /\ itodo' = itodo \ {c}
  /\ owed' = IF itodo' = {} /\ Policy \in due THEN ipc ELSE owed
  /\ UNCHANGED <<vars, busVars, loopVars, holds, joint_mtx, ipc, due, controlVars, modeVars, delivered>>
-----------------------------------------------------------------------------
(* The control thread: UpdateStateEstimation when Policy is in the mode. *)
EstimateBegin ==
  /\ epc = "list"
  /\ Policy \in current
  /\ epc' = "lock"
  /\ since' = [joint |-> delivered, imu |-> owed]
  /\ UNCHANGED <<vars, busVars, loopVars, holds, joint_mtx, imuVars, next, propri, propri_imu,
                 modeVars, delivered>>

ReadLock ==
  /\ epc = "lock"
  /\ joint_mtx[Policy] = "free"
  /\ joint_mtx' = [joint_mtx EXCEPT ![Policy] = "control"]
  /\ epc' = "read" /\ next' = 1
  /\ UNCHANGED <<vars, busVars, loopVars, holds, imuVars, propri, propri_imu, since, modeVars, delivered>>

(* Joint by joint, position and velocity, under the shared lock. *)
ReadJoint ==
  /\ epc = "read"
  /\ propri' = [propri EXCEPT ![ControlOrder[next]] = holds[Policy][ControlOrder[next]]]
  /\ IF next < Len(ControlOrder)
     THEN next' = next + 1 /\ UNCHANGED <<epc, joint_mtx>>
     ELSE next' = 1 /\ epc' = "imu" /\ joint_mtx' = [joint_mtx EXCEPT ![Policy] = "free"]
  /\ UNCHANGED <<vars, busVars, loopVars, holds, imuVars, propri_imu, since, modeVars, delivered>>

ReadImu ==
  /\ epc = "imu"
  /\ propri_imu' = imu[Policy]
  /\ epc' = "done"
  /\ UNCHANGED <<vars, busVars, loopVars, holds, joint_mtx, imuVars, next, propri, since, modeVars,
                 delivered>>

EstimateEnds ==
  /\ epc = "done"
  /\ epc' = "list" /\ since' = [joint |-> 0, imu |-> 0]
  /\ UNCHANGED <<vars, busVars, loopVars, holds, joint_mtx, imuVars, next, propri, propri_imu,
                 modeVars, delivered>>

ControlThread == EstimateBegin \/ ReadLock \/ ReadJoint \/ ReadImu \/ EstimateEnds

(* A trigger swaps the list of controllers. *)
Switch ==
  /\ switches < MaxSwitch
  /\ switches' = switches + 1
  /\ \E i \in DOMAIN Modes : current' = Modes[i] /\ current' # current
  /\ UNCHANGED <<vars, busVars, loopVars, holds, joint_mtx, imuVars, controlVars, delivered>>

(* DumpTrace, by Shutdown or at the end of MainLoop, whichever is first. *)
DumpTrace ==
  /\ Freeze \/ ReadHead \/ WriteRow \/ DumpEnds
  /\ UNCHANGED feedVars

FeedNext ==
  \/ (\E j \in Joint : Receive(j)) \/ PublishLoop
  \/ ImuBegin \/ (\E c \in Controller : SetImuData(c))
  \/ ControlThread \/ Switch \/ DumpTrace

FeedSpec == FeedInit /\ [][FeedNext]_allVars
-----------------------------------------------------------------------------
(* Types, besides those of the ring. *)
Held == {Unknown} \cup (Joint \X (1 .. MaxPush))
FeedTypeOK ==
  /\ sent \in [Joint -> Nat] /\ slot \in [Joint -> Nat \cup {Fault}] /\ decoded \in [Joint -> Nat]
  /\ \A j \in Joint : sent[j] <= MaxFeedback[j]
  /\ sample \in [Joint -> [{"effort", "velocity", "position"} -> Nat]]
  /\ fpc \in {"sample", "publish", "trace", "write", "copy"}
  /\ at \in 1 .. IF fpc = "sample" THEN 3 * Len(DriverOrder) ELSE Len(Controllers)
  /\ message \in 0 .. MaxPush
  /\ index_map \in [Joint -> {-1} \cup DOMAIN DriverOrder]
  /\ holds \in [Controller -> [Joint -> Held]]
  /\ joint_mtx \in [Controller -> {"free", "feed", "control"}]
  /\ current \subseteq Controller /\ switches \in 0 .. MaxSwitch
  /\ ipc \in 0 .. MaxImu /\ imu \in [Controller -> 0 .. MaxImu]
  /\ itodo \subseteq Controller /\ due \subseteq Controller
  /\ epc \in {"list", "lock", "read", "imu", "done"} /\ next \in DOMAIN ControlOrder
  /\ propri \in [Joint -> Held] /\ propri_imu \in 0 .. MaxImu
  /\ owed \in 0 .. MaxImu /\ delivered \in 0 .. MaxPush
  /\ since \in [joint : 0 .. MaxPush, imu : 0 .. MaxImu]

(* Effort, velocity and position of a motor are read under three locks and *)
(* may come from three frames, but never in the wrong order: a published   *)
(* position is at least as new as the velocity, that as the effort.        *)
SampleOrdered ==
  fpc # "sample" => \A j \in Joint : /\ sample[j].effort <= sample[j].velocity
                                     /\ sample[j].velocity <= sample[j].position

(* Driver and control module list the joints in orders of their own: what  *)
(* a controller holds for a joint was measured at that joint.              *)
JointsKept == \A c \in Controller, j \in Joint : holds[c][j][1] \in {j, "none"}

(* The positions and velocities of an estimate are all of one message,     *)
(* although messages arrive while they are read.                           *)
OneMessagePerEstimate ==
  epc \in {"imu", "done"} => \A j, k2 \in Joint : propri[j][2] = propri[k2][2]

(* An estimate uses joint states at least as new as the last message that  *)
(* was delivered when it began, even right after a switch, and an IMU      *)
(* sample at least as new as the last whose callback found Policy in the   *)
(* mode.  (Only the latter: right after a switch it may be of any age.)    *)
EstimateIsFresh ==
  epc = "done" => /\ \A j \in Joint : propri[j][2] >= since.joint
                  /\ propri_imu >= since.imu
=============================================================================
