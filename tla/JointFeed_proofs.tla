-------------------------- MODULE JointFeed_proofs --------------------------
(***************************************************************************)
(* The flight recorder's file and the controllers' estimates, for rings,   *)
(* joints, controllers and modes of any number.                            *)
(***************************************************************************)
EXTENDS JointFeed, TLAPS

(* The slots of the ring: whole division by cap_ and what it leaves. *)
LEMMA Division ==
  ASSUME NEW a \in Nat, NEW b \in Nat \ {0}
  PROVE  /\ a \div b \in Nat
         /\ a % b \in 0 .. b - 1
         /\ a = b * (a \div b) + (a % b)
BY SMT

LEMMA Remainder ==
  ASSUME NEW b \in Nat \ {0}, NEW q \in Nat, NEW r \in 0 .. b - 1
  PROVE  (b * q + r) % b = r
<1> DEFINE a == b * q + r
           s == a \div b
           t == a % b
<1>1. a \in Nat
  BY SMT
<1>2. s \in Nat /\ t \in 0 .. b - 1 /\ a = b * s + t
  BY <1>1, Division
<1> HIDE DEF a, s, t
<1>3. b * q + r = b * s + t
  BY <1>2 DEF a
<1>4. CASE q < s
  <2>1. b * q + b <= b * s
    BY <1>2, <1>4, SMT
  <2>2. QED BY <1>2, <1>3, <2>1, SMT
<1>5. CASE s < q
  <2>1. b * s + b <= b * q
    BY <1>2, <1>5, SMT
  <2>2. QED BY <1>2, <1>3, <2>1, SMT
<1>6. CASE s = q
  BY <1>2, <1>3, <1>6 DEF a, t
<1>7. QED BY <1>2, <1>4, <1>5, <1>6

(* Pushes less than a round apart have slots of their own. *)
LEMMA OwnSlot ==
  ASSUME NEW a \in Nat, NEW b \in Nat, a < b, b < a + cap
  PROVE  a % cap # b % cap
<1> SUFFICES ASSUME a % cap = b % cap PROVE FALSE
  OBVIOUS
<1> DEFINE q == a \div cap
           s == b \div cap
           r == a % cap
<1>1. cap \in Nat \ {0}
  BY TraceAssumption
<1>2. /\ q \in Nat /\ s \in Nat /\ r \in 0 .. cap - 1
      /\ a = cap * q + r /\ b = cap * s + r
  BY <1>1, Division
<1> HIDE DEF q, s, r
<1>3. q < s
  <2> SUFFICES ASSUME s <= q PROVE FALSE
    BY <1>2
  <2>1. cap * s <= cap * q
    BY <1>1, <1>2, SMT
  <2>2. QED BY <1>1, <1>2, <2>1
<1>4. cap * q + cap <= cap * s
  BY <1>1, <1>2, <1>3, SMT
<1>5. QED BY <1>1, <1>2, <1>4, SMT

(* The row Dump reads k-th is that of the k-th of the pushes it writes. *)
LEMMA RowSlot ==
  ASSUME n \in Nat, k \in Nat, k < count
  PROVE  /\ n - count + k \in Nat
         /\ (start + k) % cap = (n - count + k) % cap
<1>1. cap \in Nat \ {0}
  BY TraceAssumption
<1>2. CASE n <= cap
  <2>1. count = n
    BY <1>1, <1>2 DEF count
  <2>2. start = 0
    BY <1>1, <1>2 DEF start
  <2>3. QED BY <2>1, <2>2
<1>3. CASE n > cap
  <2> DEFINE q == n \div cap
             r == n % cap
             s == (r + k) \div cap
             t == (r + k) % cap
  <2>1. count = cap /\ start = r
    BY <1>1, <1>3 DEF count, start
  <2>2. q \in Nat /\ r \in 0 .. cap - 1 /\ n = cap * q + r
    BY <1>1, Division
  <2>3. r + k \in Nat
    BY <1>1, <2>2
  <2>4. s \in Nat /\ t \in 0 .. cap - 1 /\ r + k = cap * s + t
    BY <1>1, <2>3, Division
  <2>5. (start + k) % cap = t
    BY <2>1
  <2> HIDE DEF q, r, s, t
  <2>6. q # 0
    BY <1>1, <1>3, <2>2
  <2>7. q - 1 + s \in Nat
    BY <2>2, <2>4, <2>6
  <2>8. n - cap + k = cap * (q - 1 + s) + t
    BY <1>1, <2>2, <2>4, SMT
  <2>9. (cap * (q - 1 + s) + t) % cap = t
    BY <1>1, <2>4, <2>7, Remainder
  <2>10. n - cap + k \in Nat
    BY <1>1, <1>3
  <2>11. QED BY <2>1, <2>5, <2>8, <2>9, <2>10
<1>4. QED BY <1>1, <1>2, <1>3
-----------------------------------------------------------------------------
(* The rows of the ring: those of the last cap_ pushes are whole, but for  *)
(* the one whose slot is being written.                                    *)
Whole(p) == t_ns[(p - 1) % cap] = p /\ data[(p - 1) % cap] = p
Room == IF wpc \in {"data", "head"} THEN cap - 1 ELSE cap

Recorded ==
  /\ wpc # "idle" => head < MaxPush
  /\ \A p \in 1 .. head : p > head - Room => Whole(p)
  /\ wpc \in {"data", "head"} => t_ns[head % cap] = head + 1
  /\ wpc = "head" => data[head % cap] = head + 1

(* The file: nothing is pushed once Dump has read head_, and its rows are  *)
(* the oldest of the count it writes.                                      *)
Filed ==
  /\ dpc # "none" => frozen
  /\ dpc \in {"none", "sleep"} => k = 0
  /\ dpc \in {"rows", "done"} => wpc = "idle" /\ n = head
  /\ k <= count /\ Len(file) = k
  /\ \A j \in 1 .. k : file[j] = [time |-> n - count + j, data |-> n - count + j]
  /\ dpc = "done" => k = count

Ring == TypeOK /\ Recorded /\ Filed

(* Storing in the slot of the push that is under way disturbs none of the  *)
(* rows that must be whole then.                                           *)
LEMMA OtherSlots ==
  ASSUME TypeOK, NEW p \in 1 .. head, p > head - (cap - 1)
  PROVE  (p - 1) % cap # head % cap
<1>1. p - 1 \in Nat /\ head \in Nat /\ p - 1 < head /\ head < (p - 1) + cap
  BY TraceAssumption DEF TypeOK
<1>2. QED BY <1>1, OwnSlot

LEMMA RingTypeStep == TypeOK /\ Recorded /\ [Next]_vars => TypeOK'
<1> SUFFICES ASSUME TypeOK, Recorded, [Next]_vars PROVE TypeOK'
  OBVIOUS
<1> USE TraceAssumption
<1>0. TypeOK /\ head \in 0 .. MaxPush
  BY DEF TypeOK
<1>1. head \in Nat /\ head % cap \in Slots
  BY <1>0, Division DEF Slots
<1>2. CASE PushBegin \/ Freeze \/ ReadHead \/ DumpEnds
  BY <1>0, <1>2 DEF TypeOK, PushBegin, Freeze, ReadHead, DumpEnds
<1>3. CASE PushTime \/ PushData
  <2>1. head + 1 \in 0 .. MaxPush
    BY <1>0, <1>3 DEF Recorded, PushTime, PushData
  <2>2. QED BY <1>0, <1>1, <1>3, <2>1 DEF TypeOK, PushTime, PushData
<1>4. CASE PushHead
  BY <1>0, <1>4 DEF Recorded, TypeOK, PushHead
<1>5. CASE WriteRow
  <2> DEFINE i == (start + k) % cap
  <2>1. start \in Nat /\ k \in Nat /\ n \in Nat /\ count \in Nat /\ count <= cap
    BY <1>0, Division DEF TypeOK, start, count
  <2>2. i \in Slots
    BY <2>1, Division DEF Slots
  <2>3. [time |-> t_ns[i], data |-> data[i]] \in [time : 0 .. MaxPush, data : 0 .. MaxPush]
    BY <1>0, <2>2 DEF TypeOK
  <2> HIDE DEF i
  <2>4. file' = Append(file, [time |-> t_ns[i], data |-> data[i]])
    BY <1>5 DEF WriteRow, i
  <2>5. file' \in Seq([time : 0 .. MaxPush, data : 0 .. MaxPush])
    BY <1>0, <2>3, <2>4 DEF TypeOK
  <2>6. k' \in 0 .. cap
    BY <1>5, <2>1 DEF WriteRow
  <2>7. QED BY <1>0, <1>5, <2>5, <2>6 DEF TypeOK, WriteRow
<1>6. CASE UNCHANGED vars
  BY <1>0, <1>6 DEF TypeOK, vars
<1>7. QED BY <1>2, <1>3, <1>4, <1>5, <1>6 DEF Next

LEMMA RecordedStep == TypeOK /\ Recorded /\ [Next]_vars => Recorded'
<1> SUFFICES ASSUME TypeOK, Recorded, [Next]_vars PROVE Recorded'
  OBVIOUS
<1> USE TraceAssumption
<1>0. TypeOK /\ Recorded /\ head \in Nat /\ cap \in Nat \ {0}
  BY DEF TypeOK
<1>1. /\ head % cap \in Slots
      /\ \A p \in 1 .. head : (p - 1) % cap \in Slots
  BY <1>0, Division DEF Slots
<1>2. CASE PushBegin
  BY <1>2, <1>0 DEF Recorded, Room, Whole, PushBegin
<1>3. CASE PushTime
  <2>1. /\ wpc = "time" /\ wpc' = "data" /\ UNCHANGED <<head, data>>
        /\ t_ns' = [t_ns EXCEPT ![head % cap] = head + 1]
    BY <1>3 DEF PushTime
  <2>2. t_ns'[head % cap] = head + 1
    BY <1>0, <1>1, <2>1 DEF TypeOK
  <2>3. ASSUME NEW p \in 1 .. head, p > head - (cap - 1)
        PROVE  Whole(p)'
    <3>1. Whole(p)
      BY <1>0, <2>1, <2>3 DEF Recorded, Room
    <3>2. (p - 1) % cap # head % cap
      BY <1>0, <2>3, OtherSlots
    <3>3. t_ns'[(p - 1) % cap] = t_ns[(p - 1) % cap]
      BY <1>0, <1>1, <2>1, <3>2 DEF TypeOK
    <3>4. QED BY <2>1, <3>1, <3>3 DEF Whole
  <2>4. QED BY <1>0, <2>1, <2>2, <2>3 DEF Recorded, Room
<1>4. CASE PushData
  <2>1. /\ wpc = "data" /\ wpc' = "head" /\ UNCHANGED <<head, t_ns>>
        /\ data' = [data EXCEPT ![head % cap] = head + 1]
    BY <1>4 DEF PushData
  <2>2. data'[head % cap] = head + 1
    BY <1>0, <1>1, <2>1 DEF TypeOK
  <2>3. ASSUME NEW p \in 1 .. head, p > head - (cap - 1)
        PROVE  Whole(p)'
    <3>1. Whole(p)
      BY <1>0, <2>1, <2>3 DEF Recorded, Room
    <3>2. (p - 1) % cap # head % cap
      BY <1>0, <2>3, OtherSlots
    <3>3. data'[(p - 1) % cap] = data[(p - 1) % cap]
      BY <1>0, <1>1, <2>1, <3>2 DEF TypeOK
    <3>4. QED BY <2>1, <3>1, <3>3 DEF Whole
  <2>4. QED BY <1>0, <2>1, <2>2, <2>3 DEF Recorded, Room
<1>5. CASE PushHead
  <2>1. /\ wpc = "head" /\ wpc' = "idle" /\ head' = head + 1 /\ UNCHANGED <<t_ns, data>>
    BY <1>5 DEF PushHead
  <2>2. ASSUME NEW p \in 1 .. head', p > head' - cap
        PROVE  Whole(p)'
    <3>1. CASE p = head + 1
      BY <1>0, <2>1, <3>1 DEF Recorded, Whole
    <3>2. CASE p # head + 1
      <4>1. p \in 1 .. head /\ p > head - (cap - 1)
        BY <1>0, <2>1, <2>2, <3>2
      <4>2. Whole(p)
        BY <1>0, <2>1, <4>1 DEF Recorded, Room
      <4>3. QED BY <2>1, <4>2 DEF Whole
    <3>3. QED BY <3>1, <3>2
  <2>3. QED BY <2>1, <2>2 DEF Recorded, Room
<1>6. CASE Freeze \/ ReadHead \/ WriteRow \/ DumpEnds \/ UNCHANGED vars
  BY <1>0, <1>6 DEF Recorded, Room, Whole, Freeze, ReadHead, WriteRow, DumpEnds, vars
<1>7. QED BY <1>2, <1>3, <1>4, <1>5, <1>6 DEF Next

LEMMA FiledStep == Prompt /\ Ring /\ [Next]_vars => Filed'
<1> SUFFICES ASSUME Prompt, Ring, [Next]_vars PROVE Filed'
  OBVIOUS
<1> USE TraceAssumption
<1>0. TypeOK /\ Recorded /\ Filed
  BY DEF Ring
<1>1. CASE PushBegin \/ PushTime \/ PushData \/ PushHead
  BY <1>0, <1>1 DEF Filed, count, PushBegin, PushTime, PushData, PushHead
<1>2. CASE Freeze
  BY <1>0, <1>2 DEF Filed, count, Freeze
<1>3. CASE ReadHead
  BY <1>0, <1>3 DEF Filed, count, ReadHead, TypeOK
<1>4. CASE WriteRow
  <2> DEFINE i == (start + k) % cap
             row == [time |-> t_ns[i], data |-> data[i]]
             p == n - count + (k + 1)
  <2>1. /\ dpc = "rows" /\ k < count /\ k' = k + 1 /\ file' = Append(file, row)
        /\ UNCHANGED <<head, frozen, wpc, dpc, n>>
    BY <1>4 DEF WriteRow
  <2>2. n \in Nat /\ k \in Nat /\ n = head /\ wpc = "idle"
    BY <1>0, <2>1 DEF TypeOK, Filed
  <2>3. count \in Nat /\ count <= n /\ count <= cap
    BY <2>2 DEF count
  <2>4. p \in 1 .. head /\ p > head - cap
    BY <2>1, <2>2, <2>3
  <2>5. i = (p - 1) % cap
    <3>1. p - 1 = n - count + k
      BY <2>2, <2>3
    <3>2. QED BY <2>1, <2>2, <3>1, RowSlot
  <2>6. Whole(p)
    BY <1>0, <2>2, <2>4 DEF Recorded, Room
  <2>7. row = [time |-> p, data |-> p]
    BY <2>5, <2>6 DEF Whole
  <2> HIDE DEF i, row
  <2>8. count' = count
    BY <2>1 DEF count
  <2>9. Len(file') = k' /\ \A j \in 1 .. k' : file'[j] = IF j = k + 1 THEN row ELSE file[j]
    <3>1. file \in Seq([time : 0 .. MaxPush, data : 0 .. MaxPush]) /\ Len(file) = k
      BY <1>0 DEF TypeOK, Filed
    <3>2. QED BY <2>1, <2>2, <3>1
  <2>10. \A j \in 1 .. k' : file'[j] = [time |-> n - count + j, data |-> n - count + j]
    BY <1>0, <2>1, <2>2, <2>7, <2>9 DEF Filed
  <2>11. QED BY <1>0, <2>1, <2>2, <2>3, <2>8, <2>9, <2>10 DEF Filed
<1>5. CASE DumpEnds
  BY <1>0, <1>5 DEF Filed, count, DumpEnds
<1>6. CASE UNCHANGED vars
  BY <1>0, <1>6 DEF Filed, count, vars
<1>7. QED BY <1>1, <1>2, <1>3, <1>4, <1>5, <1>6 DEF Next

LEMMA RecordedHolds == Spec => [](TypeOK /\ Recorded)
<1>1. Init => TypeOK /\ Recorded
  <2> SUFFICES ASSUME Init PROVE TypeOK /\ Recorded
    OBVIOUS
  <2>1. TypeOK
    <3>1. 0 \in 0 .. MaxPush /\ 0 \in 0 .. cap /\ FALSE \in BOOLEAN
      BY TraceAssumption
    <3>2. file \in Seq([time : 0 .. MaxPush, data : 0 .. MaxPush])
      BY DEF Init
    <3>3. QED BY <3>1, <3>2 DEF Init, TypeOK
  <2>2. Recorded
    BY TraceAssumption DEF Init, Recorded, Room
  <2>3. QED BY <2>1, <2>2
<1>2. QED BY <1>1, RingTypeStep, RecordedStep, PTL DEF Spec

LEMMA RingHolds == ASSUME Prompt PROVE Spec => []Ring
<1>1. Init => Filed
  BY TraceAssumption DEF Init, Filed, count
<1>2. TypeOK /\ Recorded /\ Filed /\ [Next]_vars => Filed'
  BY FiledStep DEF Ring
<1>3. TypeOK /\ Recorded /\ Filed => Ring
  BY DEF Ring
<1>4. QED BY <1>1, <1>2, <1>3, RecordedHolds, PTL DEF Spec

(* "Keeps the N newest rows" (debug_recorder.h): where no push outlasts    *)
(* the 20 ms Dump sleeps, its file is the last cap_ pushes, oldest first,  *)
(* each row of one push, whatever cap_ is and however often the ring went  *)
(* round.                                                                  *)
THEOREM NewestInOrderHolds == ASSUME Prompt PROVE Spec => []NewestInOrder
<1>1. Ring => NewestInOrder
  <2> SUFFICES ASSUME Ring, dpc = "done"
               PROVE  /\ Len(file) = IF head < cap THEN head ELSE cap
                      /\ \A j \in DOMAIN file : LET push == head - Len(file) + j
                                                IN file[j] = [time |-> push, data |-> push]
    BY DEF NewestInOrder
  <2>1. n = head /\ k = count /\ Len(file) = k
    BY DEF Ring, Filed
  <2>2. DOMAIN file = 1 .. k
    BY <2>1 DEF Ring, TypeOK
  <2>3. QED BY <2>1, <2>2 DEF Ring, Filed, count
<1>2. QED BY <1>1, RingHolds, PTL
-----------------------------------------------------------------------------
(* PublishLoop uses the recorder as the recorder expects: what PushTrace   *)
(* and DumpTrace do are steps of RingTrace, and nothing else touches it    *)
(* (joint_driver_module.cc, debug_recorder.h).                             *)
THEOREM FeedKeepsRing == FeedSpec => Spec
<1>1. FeedInit => Init
  BY DEF FeedInit
<1>2. [FeedNext]_allVars => [Next]_vars
  <2> SUFFICES ASSUME [FeedNext]_allVars PROVE [Next]_vars
    OBVIOUS
  <2>1. CASE PushTrace
    BY <2>1 DEF PushTrace, Next
  <2>2. CASE DumpTrace
    BY <2>2 DEF DumpTrace, Next
  <2>3. CASE UNCHANGED allVars
    BY <2>3 DEF allVars
  <2>4. CASE Sample \/ PublishState \/ Lock \/ (\E j \in Joint : CopyJoint(j)) \/ Unlock
    BY <2>4 DEF Sample, PublishState, Lock, CopyJoint, Unlock
  <2>5. CASE (\E j \in Joint : Receive(j)) \/ ImuBegin \/ (\E c \in Controller : SetImuData(c))
    BY <2>5 DEF Receive, ImuBegin, SetImuData
  <2>6. CASE ControlThread \/ Switch
    BY <2>6 DEF ControlThread, EstimateBegin, ReadLock, ReadJoint, ReadImu, EstimateEnds, Switch
  <2>7. QED BY <2>1, <2>2, <2>3, <2>4, <2>5, <2>6 DEF FeedNext, PublishLoop
<1>3. QED BY <1>1, <1>2, PTL DEF FeedSpec, Spec

(* So the rows of joint states that Shutdown writes are the newest, whole  *)
(* and in order, while motors, callbacks and estimates go on.              *)
THEOREM FeedKeepsNewest == ASSUME Prompt PROVE FeedSpec => []NewestInOrder
  BY FeedKeepsRing, NewestInOrderHolds, PTL
-----------------------------------------------------------------------------
(* Where a motor is in being sampled: its next field, or its first. *)
Reading(j) == IF fpc = "sample" /\ Motor(at) = j THEN Field(at) ELSE "effort"

(* No frame is decoded before it is sent, nor an older one after it, and   *)
(* the fields are those of earlier frames, in order but for the one motor  *)
(* that is being read.                                                     *)
Sampled ==
  \A j \in Joint :
    /\ decoded[j] <= sent[j]
    /\ slot[j] # Fault => decoded[j] <= slot[j] /\ slot[j] <= sent[j]
    /\ sample[j].effort <= decoded[j] /\ sample[j].velocity <= decoded[j]
    /\ sample[j].position <= decoded[j]
    /\ Reading(j) = "effort" => sample[j].velocity <= sample[j].position
    /\ Reading(j) # "velocity" => sample[j].effort <= sample[j].velocity

(* The map is of the message's names, and is there before it is used. *)
Mapped ==
  \A j \in Joint : /\ index_map[j] # -1 => DriverOrder[index_map[j]] = j
                   /\ fpc \in {"trace", "write", "copy"} => index_map[j] # -1

(* Where PublishLoop is between two deliveries. *)
Placed ==
  /\ fpc \in {"publish", "trace"} => at = 1
  /\ fpc = "publish" => message < MaxPush
  /\ message = IF fpc \in {"sample", "publish"} THEN delivered ELSE delivered + 1

(* A controller's data are locked by the callback that writes them or by   *)
(* the estimate that reads them, and are of one message when it is not the *)
(* callback.                                                               *)
Locked ==
  \A c \in Controller :
    /\ joint_mtx[c] = "feed" <=> fpc = "copy" /\ c = Controllers[at]
    /\ joint_mtx[c] = "control" <=> epc = "read" /\ c = Policy
    /\ joint_mtx[c] # "feed" => \A j, j2 \in Joint : holds[c][j][2] = holds[c][j2][2]

(* What the estimate has read so far is what the controller holds. *)
Read ==
  /\ epc = "read" => \A i \in 1 .. next - 1 :
                       propri[ControlOrder[i]] = holds[Policy][ControlOrder[i]]
  /\ epc \in {"imu", "done"} => \A j, j2 \in Joint : propri[j][2] = propri[j2][2]

(* Every controller holds the last delivered message or a newer one, those *)
(* the callback is done with the newest.                                   *)
Given ==
  /\ \A c \in Controller, j \in Joint : holds[c][j][2] >= delivered
  /\ fpc \in {"write", "copy"} =>
       \A i \in 1 .. at - 1, j \in Joint : holds[Controllers[i]][j][2] = message

(* The IMU callback is done with the controllers it owes no more. *)
Served ==
  /\ itodo \subseteq due
  /\ Policy \in due \ itodo => imu[Policy] = ipc
  /\ owed <= imu[Policy] /\ imu[Policy] <= ipc

(* What was delivered when the estimate began has been since. *)
SinceThen ==
  /\ since.joint <= delivered /\ since.imu <= owed
  /\ epc \in {"imu", "done"} => \A j \in Joint : propri[j][2] >= since.joint
  /\ epc = "done" => propri_imu >= since.imu

Feed == /\ FeedTypeOK /\ Sampled /\ Mapped /\ Placed
        /\ Locked /\ Read /\ Given /\ Served /\ SinceThen
-----------------------------------------------------------------------------
(* The lists of the three modules. *)
LEMMA Lists ==
  /\ Len(DriverOrder) \in Nat \ {0} /\ Len(ControlOrder) \in Nat \ {0}
  /\ Len(Controllers) \in Nat \ {0}
  /\ DOMAIN DriverOrder = 1 .. Len(DriverOrder) /\ DOMAIN ControlOrder = 1 .. Len(ControlOrder)
  /\ DOMAIN Controllers = 1 .. Len(Controllers)
  /\ \A i \in 1 .. Len(DriverOrder) : DriverOrder[i] \in Joint
  /\ \A i \in 1 .. Len(ControlOrder) : ControlOrder[i] \in Joint
  /\ \A i \in 1 .. Len(Controllers) : Controllers[i] \in Controller
  /\ \A j \in Joint : \E i \in 1 .. Len(DriverOrder) : DriverOrder[i] = j
  /\ \A j \in Joint : \E i \in 1 .. Len(ControlOrder) : ControlOrder[i] = j
  /\ \A c \in Controller : \E i \in 1 .. Len(Controllers) : Controllers[i] = c
<1> USE FeedAssumption
<1>1. /\ Len(DriverOrder) \in Nat \ {0} /\ DOMAIN DriverOrder = 1 .. Len(DriverOrder)
      /\ Len(ControlOrder) \in Nat /\ DOMAIN ControlOrder = 1 .. Len(ControlOrder)
      /\ Len(Controllers) \in Nat /\ DOMAIN Controllers = 1 .. Len(Controllers)
  OBVIOUS
<1>2. Joint = {ControlOrder[i] : i \in 1 .. Len(ControlOrder)}
  BY <1>1
<1>3. DriverOrder[1] \in Joint
  BY <1>1 DEF Joint
<1>4. /\ \A i \in 1 .. Len(ControlOrder) : ControlOrder[i] \in Joint
      /\ \A j \in Joint : \E i \in 1 .. Len(ControlOrder) : ControlOrder[i] = j
  BY <1>2
<1>5. /\ \A i \in 1 .. Len(Controllers) : Controllers[i] \in Controller
      /\ \A c \in Controller : \E i \in 1 .. Len(Controllers) : Controllers[i] = c
  BY <1>1 DEF Controller
<1>6. /\ \A i \in 1 .. Len(DriverOrder) : DriverOrder[i] \in Joint
      /\ \A j \in Joint : \E i \in 1 .. Len(DriverOrder) : DriverOrder[i] = j
  BY <1>1 DEF Joint
<1>7. /\ Len(DriverOrder) \in Nat \ {0} /\ Len(ControlOrder) \in Nat \ {0}
      /\ Len(Controllers) \in Nat \ {0}
  <2>1. Len(ControlOrder) # 0
    BY <1>1, <1>3, <1>4
  <2>2. Len(Controllers) # 0
    BY <1>1, <1>5
  <2>3. QED BY <1>1, <2>1, <2>2
<1>8. QED BY <1>1, <1>4, <1>5, <1>6, <1>7, Zenon

(* PublishLoop's index is of a motor while it samples. *)
LEMMA MotorAt ==
  ASSUME FeedTypeOK, fpc = "sample"
  PROVE  Motor(at) \in Joint /\ Field(at) \in {"effort", "velocity", "position"}
<1>1. at \in 1 .. 3 * Len(DriverOrder)
  BY DEF FeedTypeOK
<1>2. 1 + (at - 1) \div 3 \in 1 .. Len(DriverOrder)
  BY <1>1, Lists
<1>3. 1 + ((at - 1) % 3) \in {1, 2, 3}
  BY <1>1, Lists
<1>4. QED BY <1>2, <1>3, Lists DEF Motor, Field, Fields

LEMMA SampleTyped ==
  ASSUME Feed, Sample
  PROVE  /\ decoded' \in [Joint -> Nat]
         /\ sample' \in [Joint -> [{"effort", "velocity", "position"} -> Nat]]
         /\ fpc' \in {"sample", "publish"}
         /\ at' \in 1 .. IF fpc' = "sample" THEN 3 * Len(DriverOrder) ELSE Len(Controllers)
<1> USE DEF Feed
<1>1. Motor(at) \in Joint /\ Field(at) \in {"effort", "velocity", "position"}
  BY MotorAt DEF Sample
<1>2. ParseFeedback(Motor(at)) \in Nat
  BY <1>1 DEF ParseFeedback, FeedTypeOK
<1>3. decoded' = [decoded EXCEPT ![Motor(at)] = ParseFeedback(Motor(at))]
  BY DEF Sample
<1>4. decoded' \in [Joint -> Nat] /\ decoded'[Motor(at)] \in Nat
  BY <1>1, <1>2, <1>3 DEF FeedTypeOK
<1>5. sample' = [sample EXCEPT ![Motor(at)][Field(at)] = decoded'[Motor(at)]]
  BY DEF Sample
<1>6. sample' \in [Joint -> [{"effort", "velocity", "position"} -> Nat]]
  BY <1>1, <1>4, <1>5 DEF FeedTypeOK
<1>7. at \in 1 .. 3 * Len(DriverOrder) /\ fpc = "sample"
  BY DEF Sample, FeedTypeOK
<1>8. CASE at < 3 * Len(DriverOrder)
  <2>1. at' = at + 1 /\ fpc' = "sample"
    BY <1>7, <1>8 DEF Sample
  <2>2. QED BY <1>4, <1>6, <1>7, <1>8, <2>1, Lists
<1>9. CASE ~ (at < 3 * Len(DriverOrder))
  <2>1. at' = 1 /\ fpc' = "publish"
    BY <1>9 DEF Sample
  <2>2. QED BY <1>4, <1>6, <2>1, Lists
<1>10. QED BY <1>8, <1>9

(* The index map leads to names of the message. *)
LEMMA NamesFound ==
  \A j \in Joint : LET i == CHOOSE i \in DOMAIN DriverOrder : DriverOrder[i] = j
                   IN  i \in DOMAIN DriverOrder /\ DriverOrder[i] = j
BY Lists

LEMMA CopyTyped ==
  ASSUME Feed, NEW j \in Joint, CopyJoint(j)
  PROVE  holds' \in [Controller -> [Joint -> Held]]
<1> USE DEF Feed
<1>1. Controllers[at] \in Controller
  BY Lists DEF CopyJoint, FeedTypeOK
<1>2. index_map[j] \in DOMAIN DriverOrder
  BY DEF CopyJoint, Mapped, FeedTypeOK
<1>3. DriverOrder[index_map[j]] \in Joint
  BY <1>2, Lists
<1>4. message \in 1 .. MaxPush
  BY DEF CopyJoint, Placed, FeedTypeOK
<1>5. <<DriverOrder[index_map[j]], message>> \in Held
  BY <1>3, <1>4 DEF Held
<1>6. holds' = [holds EXCEPT ![Controllers[at]][j] = <<DriverOrder[index_map[j]], message>>]
  BY DEF CopyJoint
<1>7. QED BY <1>1, <1>5, <1>6 DEF FeedTypeOK

LEMMA LoopTyped == Feed /\ PublishLoop => FeedTypeOK'
<1> SUFFICES ASSUME Feed, PublishLoop PROVE FeedTypeOK'
  OBVIOUS
<1> USE DEF Feed
<1> USE Lists, TraceAssumption
<1>1. CASE Sample
  BY <1>1, SampleTyped DEF Sample, FeedTypeOK, imuVars, controlVars, modeVars
<1>2. CASE PublishState
  <2>1. index_map' \in [Joint -> {-1} \cup DOMAIN DriverOrder]
    <3>1. CASE \E j \in Joint : index_map[j] = -1
      BY <1>2, <3>1, NamesFound DEF PublishState
    <3>2. CASE ~ \E j \in Joint : index_map[j] = -1
      BY <1>2, <3>2 DEF PublishState, FeedTypeOK
    <3>3. QED BY <3>1, <3>2
  <2>2. message' \in 0 .. MaxPush /\ fpc' \in {"write", "trace"} /\ at' \in 1 .. Len(Controllers)
    BY <1>2 DEF PublishState, Placed, FeedTypeOK
  <2>3. QED BY <1>2, <2>1, <2>2 DEF PublishState, FeedTypeOK, busVars, imuVars, controlVars, modeVars
<1>3. CASE PushTrace
  <2>1. fpc = "trace" /\ fpc' \in {"trace", "write"}
    BY <1>3 DEF PushTrace
  <2>2. QED BY <1>3, <2>1 DEF PushTrace, FeedTypeOK, busVars, imuVars, controlVars, modeVars
<1>4. CASE Lock
  BY <1>4 DEF Lock, FeedTypeOK, busVars, imuVars, controlVars, modeVars
<1>5. ASSUME NEW j \in Joint, CopyJoint(j) PROVE FeedTypeOK'
  BY <1>5, CopyTyped DEF CopyJoint, FeedTypeOK, busVars, loopVars, imuVars, controlVars, modeVars
<1>6. CASE Unlock
  <2>1. fpc = "copy" /\ at \in 1 .. Len(Controllers)
    BY <1>6 DEF Unlock, FeedTypeOK
  <2>2. joint_mtx' \in [Controller -> {"free", "feed", "control"}]
    BY <1>6 DEF Unlock, FeedTypeOK
  <2>3. /\ delivered' \in 0 .. MaxPush /\ fpc' \in {"write", "sample"}
        /\ at' \in 1 .. IF fpc' = "sample" THEN 3 * Len(DriverOrder) ELSE Len(Controllers)
    <3>1. CASE at < Len(Controllers)
      BY <1>6, <2>1, <3>1 DEF Unlock, FeedTypeOK
    <3>2. CASE ~ (at < Len(Controllers))
      BY <1>6, <3>2 DEF Unlock, NextSample, FeedTypeOK
    <3>3. QED BY <3>1, <3>2
  <2>4. QED BY <1>6, <2>2, <2>3 DEF Unlock, FeedTypeOK, busVars, imuVars, controlVars, modeVars
<1>7. QED BY <1>1, <1>2, <1>3, <1>4, <1>5, <1>6 DEF PublishLoop

LEMMA Bounds == MaxPush \in Nat /\ MaxImu \in Nat /\ MaxSwitch \in Nat
BY TraceAssumption, FeedAssumption

LEMMA ControlTyped == Feed /\ ControlThread => FeedTypeOK'
<1> SUFFICES ASSUME FeedTypeOK, ControlThread PROVE FeedTypeOK'
  BY DEF Feed
<1>1. Policy \in Controller
  BY FeedAssumption
<1>2. CASE EstimateBegin
  BY <1>2 DEF EstimateBegin, FeedTypeOK, busVars, loopVars, imuVars, modeVars
<1>3. CASE ReadLock
  <2>1. joint_mtx' \in [Controller -> {"free", "feed", "control"}]
    BY <1>1, <1>3 DEF ReadLock, FeedTypeOK
  <2>2. next' \in DOMAIN ControlOrder /\ epc' = "read"
    BY <1>3, Lists DEF ReadLock
  <2>3. QED BY <1>3, <2>1, <2>2 DEF ReadLock, FeedTypeOK, busVars, loopVars, imuVars, modeVars
<1>4. CASE ReadJoint
  <2>1. ControlOrder[next] \in Joint
    BY Lists DEF FeedTypeOK
  <2>2. holds[Policy][ControlOrder[next]] \in Held
    BY <1>1, <2>1 DEF FeedTypeOK
  <2>3. propri' \in [Joint -> Held]
    BY <1>4, <2>1, <2>2 DEF ReadJoint, FeedTypeOK
  <2>4. next' \in DOMAIN ControlOrder /\ epc' \in {"read", "imu"}
    <3>1. next \in 1 .. Len(ControlOrder) /\ epc = "read"
      BY <1>4, Lists DEF ReadJoint, FeedTypeOK
    <3>2. CASE next < Len(ControlOrder)
      BY <1>4, <3>1, <3>2, Lists DEF ReadJoint
    <3>3. CASE ~ (next < Len(ControlOrder))
      BY <1>4, <3>3, Lists DEF ReadJoint
    <3>4. QED BY <3>2, <3>3
  <2>5. joint_mtx' \in [Controller -> {"free", "feed", "control"}]
    BY <1>1, <1>4 DEF ReadJoint, FeedTypeOK
  <2>6. QED
    BY <1>4, <2>3, <2>4, <2>5 DEF ReadJoint, FeedTypeOK, busVars, loopVars, imuVars, modeVars
<1>5. CASE ReadImu
  <2>1. imu[Policy] \in 0 .. MaxImu
    BY <1>1 DEF FeedTypeOK
  <2>2. QED BY <1>5, <2>1 DEF ReadImu, FeedTypeOK, busVars, loopVars, imuVars, modeVars
<1>6. CASE EstimateEnds
  <2>1. since' \in [joint : 0 .. MaxPush, imu : 0 .. MaxImu]
    BY <1>6, TraceAssumption, FeedAssumption DEF EstimateEnds
  <2>2. QED BY <1>6, <2>1 DEF EstimateEnds, FeedTypeOK, busVars, loopVars, imuVars, modeVars
<1>7. QED BY <1>2, <1>3, <1>4, <1>5, <1>6 DEF ControlThread

LEMMA FeedTypeStep == Feed /\ [FeedNext]_allVars => FeedTypeOK'
<1> SUFFICES ASSUME Feed, [FeedNext]_allVars PROVE FeedTypeOK'
  OBVIOUS
<1> USE DEF Feed
<1>1. ASSUME NEW j \in Joint, Receive(j) PROVE FeedTypeOK'
  <2>1. MaxFeedback[j] \in Nat /\ sent[j] \in Nat /\ sent[j] < MaxFeedback[j]
    BY <1>1, FeedAssumption DEF Receive, FeedTypeOK
  <2>2. /\ sent' \in [Joint -> Nat] /\ slot' \in [Joint -> Nat \cup {Fault}]
        /\ \A j2 \in Joint : sent'[j2] <= MaxFeedback[j2]
    <3>1. sent' = [sent EXCEPT ![j] = @ + 1]
      BY <1>1 DEF Receive
    <3>2. sent' \in [Joint -> Nat] /\ sent'[j] \in Nat
      BY <2>1, <3>1 DEF FeedTypeOK
    <3>3. PICK f \in {sent'[j], Fault} : slot' = [slot EXCEPT ![j] = f]
      BY <1>1 DEF Receive
    <3>4. slot' \in [Joint -> Nat \cup {Fault}]
      BY <3>2, <3>3 DEF FeedTypeOK
    <3>5. \A j2 \in Joint : sent'[j2] <= MaxFeedback[j2]
      <4> SUFFICES ASSUME NEW j2 \in Joint PROVE sent'[j2] <= MaxFeedback[j2]
        OBVIOUS
      <4>1. CASE j2 = j
        BY <2>1, <3>1, <4>1 DEF FeedTypeOK
      <4>2. CASE j2 # j
        <5>1. sent'[j2] = sent[j2]
          BY <3>1, <4>2 DEF FeedTypeOK
        <5>2. QED BY <5>1 DEF FeedTypeOK
      <4>3. QED BY <4>1, <4>2
    <3>6. QED BY <3>2, <3>4, <3>5
  <2>3. QED BY <1>1, <2>2 DEF Receive, FeedTypeOK, loopVars, imuVars, controlVars, modeVars
<1>2. CASE ImuBegin
  <2>1. ipc' \in 0 .. MaxImu
    BY <1>2, Bounds DEF ImuBegin, FeedTypeOK
  <2>2. itodo' \subseteq Controller /\ due' \subseteq Controller
    BY <1>2 DEF ImuBegin, FeedTypeOK
  <2>3. QED BY <1>2, <2>1, <2>2 DEF ImuBegin, FeedTypeOK, busVars, loopVars, controlVars, modeVars
<1>3. ASSUME NEW c \in Controller, SetImuData(c) PROVE FeedTypeOK'
  BY <1>3 DEF SetImuData, FeedTypeOK, busVars, loopVars, controlVars, modeVars
<1>4. CASE Switch
  <2>1. current' \subseteq Controller
    BY <1>4, FeedAssumption DEF Switch
  <2>2. switches' \in 0 .. MaxSwitch
    BY <1>4, Bounds DEF Switch, FeedTypeOK
  <2>3. QED BY <1>4, <2>1, <2>2 DEF Switch, FeedTypeOK, busVars, loopVars, imuVars, controlVars
<1>5. CASE DumpTrace \/ UNCHANGED allVars
  BY <1>5 DEF DumpTrace, allVars, feedVars, FeedTypeOK, busVars, loopVars, imuVars, controlVars,
              modeVars
<1>6. QED BY <1>1, <1>2, <1>3, <1>4, <1>5, LoopTyped, ControlTyped DEF FeedNext-----------------------------------------------------------------------------
(* Effort, velocity, position, and then the next motor. *)
LEMMA FieldOrder ==
  ASSUME NEW i \in Nat \ {0}
  PROVE  /\ Field(i) \in {"effort", "velocity", "position"}
         /\ Field(i) = "effort" => Field(i + 1) = "velocity" /\ Motor(i + 1) = Motor(i)
         /\ Field(i) = "velocity" => Field(i + 1) = "position" /\ Motor(i + 1) = Motor(i)
         /\ Field(i) = "position" => Field(i + 1) = "effort"
         /\ Field(3 * i) = "position"
         /\ Field(1) = "effort"
BY SMT DEF Field, Fields, Motor

LEMMA SampledBySample == Feed /\ Sample => Sampled'
<1> SUFFICES ASSUME Feed, Sample, NEW j \in Joint
             PROVE  /\ decoded'[j] <= sent'[j]
                    /\ slot'[j] # Fault => decoded'[j] <= slot'[j] /\ slot'[j] <= sent'[j]
                    /\ sample'[j].effort <= decoded'[j] /\ sample'[j].velocity <= decoded'[j]
                    /\ sample'[j].position <= decoded'[j]
                    /\ Reading(j)' = "effort" => sample'[j].velocity <= sample'[j].position
                    /\ Reading(j)' # "velocity" => sample'[j].effort <= sample'[j].velocity
  BY DEF Sampled
<1> DEFINE m == Motor(at)
           f == Field(at)
           d == ParseFeedback(m)
<1>1. /\ fpc = "sample" /\ UNCHANGED <<sent, slot>>
      /\ decoded' = [decoded EXCEPT ![m] = d] /\ sample' = [sample EXCEPT ![m][f] = decoded'[m]]
  BY DEF Sample
<1>2. /\ at \in Nat \ {0} /\ Len(DriverOrder) \in Nat \ {0}
      /\ at <= 3 * Len(DriverOrder)
      /\ m \in Joint /\ f \in {"effort", "velocity", "position"}
  <2>1. FeedTypeOK /\ fpc = "sample"
    BY <1>1 DEF Feed
  <2>2. at \in 1 .. 3 * Len(DriverOrder)
    BY <2>1 DEF FeedTypeOK
  <2>3. QED BY <2>1, <2>2, MotorAt, Lists
<1>3. \A x \in Joint : /\ decoded[x] \in Nat /\ sent[x] \in Nat /\ slot[x] \in Nat \cup {Fault}
                       /\ sample[x] \in [{"effort", "velocity", "position"} -> Nat]
  BY DEF Feed, FeedTypeOK
<1>4. /\ decoded[j] <= sent[j]
      /\ slot[j] # Fault => decoded[j] <= slot[j] /\ slot[j] <= sent[j]
      /\ sample[j].effort <= decoded[j] /\ sample[j].velocity <= decoded[j]
      /\ sample[j].position <= decoded[j]
      /\ Reading(j) = "effort" => sample[j].velocity <= sample[j].position
      /\ Reading(j) # "velocity" => sample[j].effort <= sample[j].velocity
  BY DEF Feed, Sampled
<1>5. \/ fpc' = "sample" /\ at' = at + 1
      \/ fpc' = "publish" /\ f = "position"
  <2>1. CASE at < 3 * Len(DriverOrder)
    BY <1>1, <2>1 DEF Sample
  <2>2. CASE ~ (at < 3 * Len(DriverOrder))
    <3>1. at = 3 * Len(DriverOrder)
      BY <1>2, <2>2
    <3>2. QED BY <1>2, <2>2, <3>1, FieldOrder DEF Sample
  <2>3. QED BY <2>1, <2>2
<1>6. Reading(j)' = IF j = m /\ f = "effort" THEN "velocity"
                    ELSE IF j = m /\ f = "velocity" THEN "position" ELSE "effort"
  <2>1. CASE fpc' = "sample" /\ at' = at + 1
    <3>1. Reading(j)' = IF Motor(at + 1) = j THEN Field(at + 1) ELSE "effort"
      BY <2>1 DEF Reading, Motor, Field
    <3>2. QED BY <1>2, <3>1, FieldOrder
  <2>2. CASE fpc' = "publish" /\ f = "position"
    BY <2>2 DEF Reading
  <2>3. QED BY <1>5, <2>1, <2>2
<1> HIDE DEF m, f
<1>7. CASE j # m
  <2>1. decoded'[j] = decoded[j] /\ sample'[j] = sample[j]
    BY <1>1, <1>2, <1>7 DEF Feed, FeedTypeOK
  <2>2. Reading(j) = "effort" /\ Reading(j)' = "effort"
    BY <1>6, <1>7 DEF Reading, m
  <2>3. QED BY <1>1, <1>4, <2>1, <2>2
<1>8. CASE j = m
  <2>1. Reading(j) = f
    BY <1>1, <1>8 DEF Reading, m, f
  <2>2. d \in Nat /\ decoded[j] <= d /\ d <= sent[j] /\ (slot[j] # Fault => d = slot[j])
    BY <1>3, <1>4, <1>8 DEF ParseFeedback
  <2>3. decoded'[j] = d
    BY <1>1, <1>2, <1>8 DEF Feed, FeedTypeOK
  <2> HIDE DEF d
  <2>4. sample'[j] = [sample[j] EXCEPT ![f] = d]
    BY <1>1, <1>2, <1>8, <2>3 DEF Feed, FeedTypeOK
  <2>5. sample[j] \in [{"effort", "velocity", "position"} -> Nat]
    BY <1>3
  <2>6. CASE f = "effort"
    BY <1>1, <1>3, <1>4, <1>6, <1>8, <2>1, <2>2, <2>3, <2>4, <2>5, <2>6
  <2>7. CASE f = "velocity"
    BY <1>1, <1>3, <1>4, <1>6, <1>8, <2>1, <2>2, <2>3, <2>4, <2>5, <2>7
  <2>8. CASE f = "position"
    BY <1>1, <1>3, <1>4, <1>6, <1>8, <2>1, <2>2, <2>3, <2>4, <2>5, <2>8
  <2>9. QED BY <1>2, <2>6, <2>7, <2>8
<1>9. QED BY <1>7, <1>8

LEMMA SampledStep == Feed /\ [FeedNext]_allVars => Sampled'
<1> SUFFICES ASSUME Feed, [FeedNext]_allVars PROVE Sampled'
  OBVIOUS
<1>0. Sampled /\ FeedTypeOK
  BY DEF Feed
<1>1. ASSUME NEW j \in Joint, Receive(j) PROVE Sampled'
  <2>1. PICK g \in {sent'[j], Fault} : slot' = [slot EXCEPT ![j] = g]
    BY <1>1 DEF Receive
  <2>2. sent' = [sent EXCEPT ![j] = @ + 1] /\ UNCHANGED <<decoded, sample, fpc, at>>
    BY <1>1 DEF Receive, loopVars
  <2>3. ASSUME NEW j2 \in Joint
        PROVE  /\ decoded'[j2] <= sent'[j2]
               /\ slot'[j2] # Fault => decoded'[j2] <= slot'[j2] /\ slot'[j2] <= sent'[j2]
    <3>1. /\ decoded[j2] <= sent[j2] /\ decoded[j2] \in Nat /\ sent[j2] \in Nat
          /\ slot[j2] # Fault => decoded[j2] <= slot[j2] /\ slot[j2] <= sent[j2]
      BY <1>0 DEF Sampled, FeedTypeOK
    <3>2. CASE j2 = j
      <4>1. sent'[j2] = sent[j2] + 1 /\ slot'[j2] = g
        BY <1>0, <2>1, <2>2, <3>2 DEF FeedTypeOK
      <4>2. QED BY <2>2, <3>1, <3>2, <4>1
    <3>3. CASE j2 # j
      <4>1. sent'[j2] = sent[j2] /\ slot'[j2] = slot[j2]
        BY <1>0, <2>1, <2>2, <3>3 DEF FeedTypeOK
      <4>2. QED BY <2>2, <3>1, <4>1
    <3>4. QED BY <3>2, <3>3
  <2>4. \A j2 \in Joint : Reading(j2)' = Reading(j2)
    BY <2>2 DEF Reading, Motor, Field
  <2>5. QED BY <1>0, <2>2, <2>3, <2>4 DEF Sampled
<1>2. CASE Sample
  BY <1>2, SampledBySample
<1>3. CASE /\ UNCHANGED <<busVars, sample>>
           /\ \A j \in Joint : Reading(j)' = Reading(j)
  BY <1>0, <1>3 DEF Sampled, busVars
<1>4. CASE UNCHANGED <<busVars, sample, fpc, at>>
  BY <1>3, <1>4 DEF Reading, Motor, Field
<1>5. CASE PublishState \/ PushTrace \/ Lock
  <2>1. UNCHANGED <<busVars, sample>> /\ fpc # "sample" /\ fpc' # "sample"
    BY <1>5 DEF PublishState, PushTrace, Lock
  <2>2. QED BY <1>3, <2>1 DEF Reading
<1>6. CASE Unlock
  <2>1. UNCHANGED <<busVars, sample>> /\ fpc = "copy" /\ (fpc' # "sample" \/ at' = 1)
    BY <1>6 DEF Unlock, NextSample
  <2>2. Field(1) = "effort"
    BY FieldOrder
  <2>3. QED BY <1>3, <2>1, <2>2 DEF Reading
<1>7. CASE \/ (\E j \in Joint : CopyJoint(j)) \/ ImuBegin \/ (\E c \in Controller : SetImuData(c))
           \/ ControlThread \/ Switch \/ DumpTrace \/ UNCHANGED allVars
  BY <1>4, <1>7 DEF CopyJoint, ImuBegin, SetImuData, ControlThread, EstimateBegin, ReadLock,
       ReadJoint, ReadImu, EstimateEnds, Switch, DumpTrace, allVars, feedVars, loopVars
<1>8. QED BY <1>1, <1>2, <1>5, <1>6, <1>7 DEF FeedNext, PublishLoop

LEMMA MappedStep == Feed /\ [FeedNext]_allVars => Mapped'
<1> SUFFICES ASSUME Feed, [FeedNext]_allVars PROVE Mapped'
  OBVIOUS
<1>0. Mapped /\ FeedTypeOK
  BY DEF Feed
<1>1. CASE PublishState
  <2>1. CASE \E j \in Joint : index_map[j] = -1
    <3>1. index_map' = [j \in Joint |-> CHOOSE i \in DOMAIN DriverOrder : DriverOrder[i] = j]
      BY <1>1, <2>1 DEF PublishState
    <3>2. ASSUME NEW j \in Joint PROVE DriverOrder[index_map'[j]] = j /\ index_map'[j] # -1
      <4> DEFINE i == CHOOSE i \in DOMAIN DriverOrder : DriverOrder[i] = j
      <4>1. i \in 1 .. Len(DriverOrder) /\ DriverOrder[i] = j
        BY NamesFound, Lists
      <4>2. index_map'[j] = i
        BY <3>1
      <4> HIDE DEF i
      <4>3. QED BY <4>1, <4>2, Lists
    <3>3. QED BY <3>2 DEF Mapped
  <2>2. CASE ~ \E j \in Joint : index_map[j] = -1
    BY <1>0, <1>1, <2>2 DEF PublishState, Mapped
  <2>3. QED BY <2>1, <2>2
<1>2. CASE Sample \/ PushTrace \/ Lock \/ Unlock
  BY <1>0, <1>2 DEF Mapped, Sample, PushTrace, Lock, Unlock, NextSample
<1>3. CASE \/ (\E j \in Joint : CopyJoint(j) \/ Receive(j)) \/ ImuBegin
           \/ (\E c \in Controller : SetImuData(c))
           \/ ControlThread \/ Switch \/ DumpTrace \/ UNCHANGED allVars
  <2>1. UNCHANGED <<index_map, fpc>>
    BY <1>3 DEF CopyJoint, Receive, ImuBegin, SetImuData, ControlThread, EstimateBegin, ReadLock,
         ReadJoint, ReadImu, EstimateEnds, Switch, DumpTrace, allVars, feedVars, loopVars
  <2>2. QED BY <1>0, <2>1 DEF Mapped
<1>4. QED BY <1>1, <1>2, <1>3 DEF FeedNext, PublishLoop

LEMMA PlacedStep == Feed /\ [FeedNext]_allVars => Placed'
<1> SUFFICES ASSUME Placed, FeedTypeOK, [FeedNext]_allVars PROVE Placed'
  BY DEF Feed
<1>1. CASE Sample \/ PublishState \/ PushTrace \/ Lock \/ Unlock
  BY <1>1 DEF Placed, FeedTypeOK, Sample, PublishState, PushTrace, Lock, Unlock, NextSample
<1>2. CASE \/ (\E j \in Joint : CopyJoint(j) \/ Receive(j)) \/ ImuBegin
           \/ (\E c \in Controller : SetImuData(c))
           \/ ControlThread \/ Switch \/ DumpTrace \/ UNCHANGED allVars
  <2>1. UNCHANGED <<fpc, at, message, delivered>>
    BY <1>2 DEF CopyJoint, Receive, ImuBegin, SetImuData, ControlThread, EstimateBegin, ReadLock,
         ReadJoint, ReadImu, EstimateEnds, Switch, DumpTrace, allVars, feedVars, loopVars
  <2>2. QED BY <2>1 DEF Placed
<1>3. QED BY <1>1, <1>2 DEF FeedNext, PublishLoop

LEMMA ServedStep == Feed /\ [FeedNext]_allVars => Served'
<1> SUFFICES ASSUME Served, FeedTypeOK, [FeedNext]_allVars PROVE Served'
  BY DEF Feed
<1>0. /\ Policy \in Controller /\ ipc \in Nat /\ owed \in Nat
      /\ imu \in [Controller -> 0 .. MaxImu] /\ imu[Policy] \in Nat
  BY FeedAssumption, Bounds DEF FeedTypeOK
<1>1. CASE ImuBegin
  BY <1>0, <1>1 DEF Served, ImuBegin
<1>2. ASSUME NEW c \in Controller, SetImuData(c) PROVE Served'
  <2>1. /\ imu' = [imu EXCEPT ![c] = ipc] /\ itodo' = itodo \ {c} /\ UNCHANGED <<ipc, due>>
        /\ owed' = IF itodo' = {} /\ Policy \in due THEN ipc ELSE owed
    BY <1>2 DEF SetImuData
  <2>2. imu'[Policy] = IF Policy = c THEN ipc ELSE imu[Policy]
    BY <1>0, <2>1
  <2>3. QED BY <1>0, <2>1, <2>2 DEF Served
<1>3. CASE \/ (\E j \in Joint : Receive(j)) \/ PublishLoop
           \/ ControlThread \/ Switch \/ DumpTrace \/ UNCHANGED allVars
  <2>1. UNCHANGED imuVars
    BY <1>3 DEF Receive, PublishLoop, Sample, PublishState, PushTrace, Lock, CopyJoint, Unlock,
         ControlThread, EstimateBegin, ReadLock, ReadJoint, ReadImu, EstimateEnds,
         Switch, DumpTrace, allVars, feedVars
  <2>2. QED BY <2>1 DEF Served, imuVars
<1>4. QED BY <1>1, <1>2, <1>3 DEF FeedNext-----------------------------------------------------------------------------
(* What CopyJoint changes is the message of one joint of the controller    *)
(* whose mutex the callback holds.                                         *)
LEMMA CopyEffect ==
  ASSUME Feed, NEW j \in Joint, CopyJoint(j)
  PROVE  /\ joint_mtx[Controllers[at]] = "feed" /\ Controllers[at] \in Controller
         /\ \A c \in Controller : c # Controllers[at] => holds'[c] = holds[c]
         /\ \A c \in Controller, j2 \in Joint :
              holds'[c][j2][2] = IF c = Controllers[at] /\ j2 = j THEN message ELSE holds[c][j2][2]
<1> DEFINE new == <<DriverOrder[index_map[j]], message>>
<1>1. Controllers[at] \in Controller
  BY Lists DEF Feed, CopyJoint, FeedTypeOK
<1>2. fpc = "copy" /\ holds' = [holds EXCEPT ![Controllers[at]][j] = new]
  BY DEF CopyJoint
<1>3. joint_mtx[Controllers[at]] = "feed"
  BY <1>1, <1>2 DEF Feed, Locked
<1>4. new[2] = message
  OBVIOUS
<1> HIDE DEF new
<1>5. \A c \in Controller, j2 \in Joint :
        holds'[c][j2] = IF c = Controllers[at] /\ j2 = j THEN new ELSE holds[c][j2]
  BY <1>1, <1>2 DEF Feed, FeedTypeOK
<1>6. \A c \in Controller : c # Controllers[at] => holds'[c] = holds[c]
  BY <1>1, <1>2 DEF Feed, FeedTypeOK
<1>7. QED BY <1>1, <1>3, <1>4, <1>5, <1>6

LEMMA LockedStep == Feed /\ [FeedNext]_allVars => Locked'
<1> SUFFICES ASSUME Feed, [FeedNext]_allVars, NEW c \in Controller
             PROVE  /\ joint_mtx'[c] = "feed" <=> fpc' = "copy" /\ c = Controllers[at']
                    /\ joint_mtx'[c] = "control" <=> epc' = "read" /\ c = Policy
                    /\ joint_mtx'[c] # "feed" =>
                         \A j, j2 \in Joint : holds'[c][j][2] = holds'[c][j2][2]
  BY DEF Locked
<1>0. /\ joint_mtx[c] = "feed" <=> fpc = "copy" /\ c = Controllers[at]
      /\ joint_mtx[c] = "control" <=> epc = "read" /\ c = Policy
      /\ joint_mtx[c] # "feed" => \A j, j2 \in Joint : holds[c][j][2] = holds[c][j2][2]
      /\ joint_mtx \in [Controller -> {"free", "feed", "control"}]
  BY DEF Feed, Locked, FeedTypeOK
<1>1. CASE Lock
  <2>1. /\ fpc = "write" /\ fpc' = "copy" /\ joint_mtx[Controllers[at]] = "free"
        /\ joint_mtx' = [joint_mtx EXCEPT ![Controllers[at]] = "feed"]
        /\ UNCHANGED <<at, holds, epc>>
    BY <1>1 DEF Lock, controlVars
  <2>2. joint_mtx'[c] = IF c = Controllers[at] THEN "feed" ELSE joint_mtx[c]
    BY <1>0, <2>1
  <2>3. QED BY <1>0, <2>1, <2>2
<1>2. ASSUME NEW j \in Joint, CopyJoint(j)
      PROVE  /\ joint_mtx'[c] = "feed" <=> fpc' = "copy" /\ c = Controllers[at']
             /\ joint_mtx'[c] = "control" <=> epc' = "read" /\ c = Policy
             /\ joint_mtx'[c] # "feed" =>
                  \A j1, j2 \in Joint : holds'[c][j1][2] = holds'[c][j2][2]
  <2>1. UNCHANGED <<joint_mtx, fpc, at, epc>>
    BY <1>2 DEF CopyJoint, loopVars, controlVars
  <2>2. joint_mtx[Controllers[at]] = "feed" /\ (c # Controllers[at] => holds'[c] = holds[c])
    BY <1>2, CopyEffect
  <2>3. QED BY <1>0, <2>1, <2>2
<1>3. CASE Unlock
  <2>1. /\ fpc = "copy" /\ fpc' \in {"write", "sample"}
        /\ joint_mtx' = [joint_mtx EXCEPT ![Controllers[at]] = "free"]
        /\ \A j \in Joint : holds[Controllers[at]][j][2] = message
        /\ UNCHANGED <<holds, epc>>
    BY <1>3 DEF Unlock, NextSample, Copied, controlVars
  <2>2. joint_mtx'[c] = IF c = Controllers[at] THEN "free" ELSE joint_mtx[c]
    BY <1>0, <2>1
  <2>3. QED BY <1>0, <2>1, <2>2
<1>4. CASE ReadLock
  <2>1. /\ epc = "lock" /\ epc' = "read" /\ joint_mtx[Policy] = "free"
        /\ joint_mtx' = [joint_mtx EXCEPT ![Policy] = "control"]
        /\ UNCHANGED <<holds, fpc, at>>
    BY <1>4 DEF ReadLock, loopVars
  <2>2. joint_mtx'[c] = IF c = Policy THEN "control" ELSE joint_mtx[c]
    BY <1>0, <2>1
  <2>3. QED BY <1>0, <2>1, <2>2
<1>5. CASE ReadJoint
  <2>1. /\ epc = "read" /\ UNCHANGED <<holds, fpc, at>>
        /\ \/ epc' = "read" /\ joint_mtx' = joint_mtx
           \/ epc' = "imu" /\ joint_mtx' = [joint_mtx EXCEPT ![Policy] = "free"]
    BY <1>5 DEF ReadJoint, loopVars
  <2>2. CASE epc' = "read" /\ joint_mtx' = joint_mtx
    BY <1>0, <2>1, <2>2
  <2>3. CASE epc' = "imu" /\ joint_mtx' = [joint_mtx EXCEPT ![Policy] = "free"]
    <3>1. joint_mtx'[c] = IF c = Policy THEN "free" ELSE joint_mtx[c]
      BY <1>0, <2>3
    <3>2. QED BY <1>0, <2>1, <2>3, <3>1
  <2>4. QED BY <2>1, <2>2, <2>3
<1>6. CASE Sample \/ PublishState \/ PushTrace
  <2>1. fpc # "copy" /\ fpc' # "copy" /\ UNCHANGED <<joint_mtx, holds, epc>>
    BY <1>6 DEF Sample, PublishState, PushTrace, controlVars
  <2>2. QED BY <1>0, <2>1
<1>7. CASE EstimateBegin \/ ReadImu \/ EstimateEnds
  <2>1. epc # "read" /\ epc' # "read" /\ UNCHANGED <<joint_mtx, holds, fpc, at>>
    BY <1>7 DEF EstimateBegin, ReadImu, EstimateEnds, loopVars
  <2>2. QED BY <1>0, <2>1
<1>8. CASE \/ (\E j \in Joint : Receive(j)) \/ ImuBegin \/ (\E d \in Controller : SetImuData(d))
           \/ Switch \/ DumpTrace \/ UNCHANGED allVars
  <2>1. UNCHANGED <<joint_mtx, holds, fpc, at, epc>>
    BY <1>8 DEF Receive, ImuBegin, SetImuData, Switch, DumpTrace, allVars, feedVars, loopVars,
         controlVars
  <2>2. QED BY <1>0, <2>1
<1>9. QED
  BY <1>1, <1>2, <1>3, <1>4, <1>5, <1>6, <1>7, <1>8 DEF FeedNext, PublishLoop, ControlThread

(* When the estimate releases the mutex it has read what Policy holds, for *)
(* all joints.                                                             *)
LEMMA ReadThrough ==
  ASSUME Feed, ReadJoint
  PROVE  /\ \A i \in 1 .. next : propri'[ControlOrder[i]] = holds[Policy][ControlOrder[i]]
         /\ \/ next' = next + 1 /\ epc' = "read"
            \/ epc' = "imu" /\ \A j \in Joint : propri'[j] = holds[Policy][j]
<1> DEFINE o == ControlOrder[next]
<1>1. /\ epc = "read" /\ propri' = [propri EXCEPT ![o] = holds[Policy][o]]
      /\ next \in 1 .. Len(ControlOrder) /\ propri \in [Joint -> Held]
  BY Lists DEF Feed, ReadJoint, FeedTypeOK
<1>2. o \in Joint
  BY <1>1, Lists
<1>3. ASSUME NEW i \in 1 .. next
      PROVE  propri'[ControlOrder[i]] = holds[Policy][ControlOrder[i]]
  <2>1. ControlOrder[i] \in Joint
    BY <1>1, Lists
  <2>2. propri'[ControlOrder[i]] = IF ControlOrder[i] = o THEN holds[Policy][o]
                                   ELSE propri[ControlOrder[i]]
    BY <1>1, <1>2, <2>1
  <2> HIDE DEF o
  <2>3. CASE ControlOrder[i] = o
    BY <2>2, <2>3
  <2>4. CASE ControlOrder[i] # o
    <3>1. i \in 1 .. next - 1
      BY <1>1, <2>4 DEF o
    <3>2. QED BY <1>1, <2>2, <2>4, <3>1 DEF Feed, Read
  <2>5. QED BY <2>3, <2>4
<1>4. CASE next < Len(ControlOrder)
  BY <1>1, <1>3, <1>4 DEF ReadJoint
<1>5. CASE ~ (next < Len(ControlOrder))
  <2>1. next = Len(ControlOrder) /\ epc' = "imu"
    <3>1. Len(ControlOrder) \in Nat
      BY Lists
    <3>2. next = Len(ControlOrder)
      BY <1>1, <1>5, <3>1
    <3>3. epc' = "imu"
      BY <1>5 DEF ReadJoint
    <3>4. QED BY <3>2, <3>3
  <2>2. QED BY <1>3, <2>1, Lists
<1>6. QED BY <1>3, <1>4, <1>5

LEMMA ReadStep == Feed /\ [FeedNext]_allVars => Read'
<1> SUFFICES ASSUME Feed, [FeedNext]_allVars PROVE Read'
  OBVIOUS
<1>0. Read /\ Policy \in Controller
  BY FeedAssumption DEF Feed
<1>1. CASE ReadLock
  BY <1>1 DEF Read, ReadLock
<1>2. CASE ReadJoint
  <2>1. holds' = holds /\ next \in Nat
    BY <1>2, Lists DEF ReadJoint, Feed, FeedTypeOK
  <2>2. joint_mtx[Policy] # "feed"
    BY <1>0, <1>2 DEF ReadJoint, Feed, Locked
  <2>3. \A j, j2 \in Joint : holds[Policy][j][2] = holds[Policy][j2][2]
    BY <1>0, <2>2 DEF Feed, Locked
  <2>4. CASE next' = next + 1 /\ epc' = "read"
    <3>1. \A i \in 1 .. next : propri'[ControlOrder[i]] = holds[Policy][ControlOrder[i]]
      BY <1>2, ReadThrough
    <3>2. next' - 1 = next
      BY <2>1, <2>4
    <3>3. QED BY <2>1, <2>4, <3>1, <3>2 DEF Read
  <2>5. CASE epc' = "imu" /\ \A j \in Joint : propri'[j] = holds[Policy][j]
    BY <2>3, <2>5 DEF Read
  <2>6. QED BY <1>2, <2>4, <2>5, ReadThrough
<1>3. ASSUME NEW j \in Joint, CopyJoint(j) PROVE Read'
  <2>1. UNCHANGED <<epc, next, propri>>
    BY <1>3 DEF CopyJoint, controlVars
  <2>2. CASE epc = "read"
    <3>1. joint_mtx[Policy] = "control"
      BY <1>0, <2>2 DEF Feed, Locked
    <3>2. holds'[Policy] = holds[Policy]
      BY <1>0, <1>3, <3>1, CopyEffect
    <3>3. QED BY <1>0, <2>1, <2>2, <3>2 DEF Read
  <2>3. CASE epc # "read"
    BY <1>0, <2>1, <2>3 DEF Read
  <2>4. QED BY <2>2, <2>3
<1>4. CASE EstimateBegin \/ ReadImu \/ EstimateEnds
  BY <1>0, <1>4 DEF Read, EstimateBegin, ReadImu, EstimateEnds
<1>5. CASE \/ (\E j \in Joint : Receive(j)) \/ Sample \/ PublishState \/ PushTrace \/ Lock \/ Unlock
           \/ ImuBegin \/ (\E d \in Controller : SetImuData(d))
           \/ Switch \/ DumpTrace \/ UNCHANGED allVars
  <2>1. UNCHANGED <<epc, next, propri, holds>>
    BY <1>5 DEF Receive, Sample, PublishState, PushTrace, Lock, Unlock, ImuBegin, SetImuData,
         Switch, DumpTrace, allVars, feedVars, controlVars
  <2>2. QED BY <1>0, <2>1 DEF Read
<1>6. QED BY <1>1, <1>2, <1>3, <1>4, <1>5 DEF FeedNext, PublishLoop, ControlThread
(* A message number is one. *)
LEMMA Numbers ==
  ASSUME FeedTypeOK
  PROVE  /\ \A c \in Controller, j \in Joint : holds[c][j][2] \in Nat
         /\ \A j \in Joint : propri[j][2] \in Nat
         /\ message \in Nat /\ delivered \in Nat /\ since.joint \in Nat /\ since.imu \in Nat
         /\ owed \in Nat /\ ipc \in Nat /\ propri_imu \in Nat
<1>1. \A h \in Held : h[2] \in Nat
  BY Bounds DEF Held, Unknown
<1>2. QED BY <1>1, Bounds DEF FeedTypeOK

(* A message is delivered when the last controller has been given it. *)
LEMMA AllGiven ==
  ASSUME Feed, fpc = "copy", Copied, ~ (at < Len(Controllers)), NEW c \in Controller, NEW j \in Joint
  PROVE  holds[c][j][2] = message
<1>1. at \in 1 .. Len(Controllers)
  BY DEF Feed, FeedTypeOK
<1>2. PICK i \in 1 .. Len(Controllers) : Controllers[i] = c
  BY Lists
<1>3. CASE i = at
  BY <1>2, <1>3 DEF Copied
<1>4. CASE i # at
  <2>1. i \in 1 .. at - 1
    BY <1>1, <1>4, Lists
  <2>2. QED BY <1>2, <2>1 DEF Feed, Given
<1>5. QED BY <1>3, <1>4

LEMMA GivenStep == Feed /\ [FeedNext]_allVars => Given'
<1> SUFFICES ASSUME Feed, [FeedNext]_allVars PROVE Given'
  OBVIOUS
<1>0. Given /\ Placed /\ message >= delivered
  BY Numbers DEF Feed, Placed
<1>1. ASSUME NEW j \in Joint, CopyJoint(j) PROVE Given'
  <2>1. UNCHANGED <<fpc, at, message, delivered>> /\ fpc = "copy" /\ at \in 1 .. Len(Controllers)
    BY <1>1 DEF CopyJoint, loopVars, Feed, FeedTypeOK
  <2>2. \A c \in Controller, j2 \in Joint :
          holds'[c][j2][2] = IF c = Controllers[at] /\ j2 = j THEN message ELSE holds[c][j2][2]
    BY <1>1, CopyEffect
  <2>3. \A c \in Controller, j2 \in Joint : holds'[c][j2][2] >= delivered
    BY <1>0, <2>2 DEF Given
  <2>4. ASSUME NEW i \in 1 .. at - 1, NEW j2 \in Joint
        PROVE  holds'[Controllers[i]][j2][2] = message
    <3>1. Controllers[i] \in Controller
      BY <2>1, Lists
    <3>2. holds[Controllers[i]][j2][2] = message
      BY <1>0, <2>1 DEF Given
    <3>3. QED BY <2>2, <3>1, <3>2
  <2>5. QED BY <2>1, <2>3, <2>4 DEF Given
<1>2. CASE Unlock
  <2>1. /\ fpc = "copy" /\ Copied /\ UNCHANGED <<holds, message>> /\ at \in 1 .. Len(Controllers)
    BY <1>2 DEF Unlock, Feed, FeedTypeOK
  <2>2. CASE at < Len(Controllers)
    <3>1. at' = at + 1 /\ fpc' = "write" /\ delivered' = delivered
      BY <1>2, <2>2 DEF Unlock
    <3>2. ASSUME NEW i \in 1 .. at' - 1, NEW j \in Joint
          PROVE  holds[Controllers[i]][j][2] = message
      <4>1. CASE i = at
        BY <2>1, <4>1 DEF Copied
      <4>2. CASE i # at
        <5>1. i \in 1 .. at - 1
          BY <2>1, <3>1, <4>2
        <5>2. QED BY <1>0, <2>1, <5>1 DEF Given
      <4>3. QED BY <4>1, <4>2
    <3>3. QED BY <1>0, <2>1, <3>1, <3>2 DEF Given
  <2>3. CASE ~ (at < Len(Controllers))
    <3>1. fpc' = "sample" /\ delivered' = message
      BY <1>2, <2>3 DEF Unlock, NextSample
    <3>2. \A c \in Controller, j \in Joint : holds[c][j][2] = message
      BY <2>1, <2>3, AllGiven
    <3>3. message \in Nat
      BY Numbers DEF Feed
    <3>4. QED BY <2>1, <3>1, <3>2, <3>3 DEF Given
  <2>4. QED BY <2>2, <2>3
<1>3. CASE Lock
  BY <1>0, <1>3 DEF Given, Lock
<1>4. CASE Sample \/ PublishState \/ PushTrace
  <2>1. /\ UNCHANGED <<holds, delivered>>
        /\ fpc' \in {"write", "copy"} => at' = 1
    BY <1>0, <1>4 DEF Sample, PublishState, PushTrace, Placed
  <2>2. QED BY <1>0, <2>1 DEF Given
<1>5. CASE \/ (\E j \in Joint : Receive(j)) \/ ImuBegin \/ (\E d \in Controller : SetImuData(d))
           \/ ControlThread \/ Switch \/ DumpTrace \/ UNCHANGED allVars
  <2>1. UNCHANGED <<fpc, at, message, delivered, holds>>
    BY <1>5 DEF Receive, ImuBegin, SetImuData, ControlThread, EstimateBegin, ReadLock, ReadJoint,
         ReadImu, EstimateEnds, Switch, DumpTrace, allVars, feedVars, loopVars
  <2>2. QED BY <1>0, <2>1 DEF Given
<1>6. QED BY <1>1, <1>2, <1>3, <1>4, <1>5 DEF FeedNext, PublishLoop

LEMMA SinceThenStep == Feed /\ [FeedNext]_allVars => SinceThen'
<1> SUFFICES ASSUME Feed, [FeedNext]_allVars PROVE SinceThen'
  OBVIOUS
<1>0. /\ SinceThen /\ Placed /\ Served /\ Given /\ Policy \in Controller
      /\ imu[Policy] \in Nat
  BY FeedAssumption, Bounds DEF Feed, FeedTypeOK
<1>n. /\ \A j \in Joint : holds[Policy][j][2] \in Nat
      /\ message \in Nat /\ delivered \in Nat /\ since.joint \in Nat /\ since.imu \in Nat
      /\ owed \in Nat /\ ipc \in Nat
  BY <1>0, Numbers DEF Feed
<1>1. CASE EstimateBegin
  BY <1>n, <1>1 DEF EstimateBegin, SinceThen, imuVars
<1>2. CASE ReadJoint
  <2>1. /\ epc = "read" /\ UNCHANGED <<since, delivered, owed>>
        /\ epc' = "imu" => \A j \in Joint : propri'[j] = holds[Policy][j]
        /\ epc' \in {"read", "imu"}
    BY <1>2, ReadThrough DEF ReadJoint, imuVars
  <2>2. \A j \in Joint : holds[Policy][j][2] >= since.joint
    BY <1>0, <1>n DEF Given, SinceThen
  <2>3. QED BY <1>0, <2>1, <2>2 DEF SinceThen
<1>3. CASE ReadLock
  BY <1>0, <1>3 DEF SinceThen, ReadLock, imuVars
<1>4. CASE ReadImu
  BY <1>0, <1>n, <1>4 DEF SinceThen, Served, ReadImu, imuVars
<1>5. CASE EstimateEnds
  BY <1>n, <1>5 DEF SinceThen, EstimateEnds, imuVars
<1>6. CASE Unlock
  <2>1. delivered' >= delivered
    BY <1>0, <1>n, <1>6 DEF Unlock, NextSample, Placed
  <2>2. UNCHANGED <<since, epc, propri, propri_imu, owed>> /\ delivered' \in Nat
    BY <1>n, <1>6 DEF Unlock, NextSample, controlVars, imuVars
  <2>3. QED BY <1>0, <1>n, <2>1, <2>2 DEF SinceThen
<1>7. ASSUME NEW c \in Controller, SetImuData(c) PROVE SinceThen'
  <2>1. owed' >= owed /\ owed' \in Nat
    BY <1>0, <1>n, <1>7 DEF SetImuData, Served
  <2>2. UNCHANGED <<since, epc, propri, propri_imu, delivered>>
    BY <1>7 DEF SetImuData, controlVars
  <2>3. QED BY <1>0, <1>n, <2>1, <2>2 DEF SinceThen
<1>8. CASE \/ (\E j \in Joint : Receive(j) \/ CopyJoint(j)) \/ Sample \/ PublishState \/ PushTrace
           \/ Lock \/ ImuBegin \/ Switch \/ DumpTrace \/ UNCHANGED allVars
  <2>1. UNCHANGED <<since, epc, propri, propri_imu, delivered, owed>>
    BY <1>8 DEF Receive, CopyJoint, Sample, PublishState, PushTrace, Lock, ImuBegin, Switch,
         DumpTrace, allVars, feedVars, controlVars, imuVars
  <2>2. QED BY <1>0, <2>1 DEF SinceThen
<1>9. QED
  BY <1>1, <1>2, <1>3, <1>4, <1>5, <1>6, <1>7, <1>8 DEF FeedNext, PublishLoop, ControlThread

LEMMA FeedInitial == FeedInit => Feed
<1> SUFFICES ASSUME FeedInit PROVE Feed
  OBVIOUS
<1>1. Policy \in Controller /\ current \subseteq Controller
  <2>1. Modes[1] \in SUBSET Controller
    BY FeedAssumption
  <2>2. QED BY <2>1, FeedAssumption DEF FeedInit
<1> USE Lists, Bounds
<1>2. FeedTypeOK
  <2>1. \A j \in Joint : sent[j] <= MaxFeedback[j]
    BY FeedAssumption DEF FeedInit
  <2>2. /\ sent \in [Joint -> Nat] /\ slot \in [Joint -> Nat \cup {Fault}]
        /\ decoded \in [Joint -> Nat]
        /\ sample \in [Joint -> [{"effort", "velocity", "position"} -> Nat]]
    BY DEF FeedInit
  <2>3. /\ holds \in [Controller -> [Joint -> Held]] /\ propri \in [Joint -> Held]
        /\ index_map \in [Joint -> {-1} \cup DOMAIN DriverOrder]
        /\ joint_mtx \in [Controller -> {"free", "feed", "control"}]
        /\ imu \in [Controller -> 0 .. MaxImu]
    BY DEF FeedInit, Held
  <2>4. since \in [joint : 0 .. MaxPush, imu : 0 .. MaxImu]
    BY DEF FeedInit
  <2>5. /\ at \in 1 .. IF fpc = "sample" THEN 3 * Len(DriverOrder) ELSE Len(Controllers)
        /\ next \in DOMAIN ControlOrder
    BY DEF FeedInit
  <2>6. QED BY <1>1, <2>1, <2>2, <2>3, <2>4, <2>5 DEF FeedInit, FeedTypeOK
<1>3. Sampled
  BY DEF FeedInit, Sampled, Fault
<1>4. Mapped /\ Placed
  BY DEF FeedInit, Mapped, Placed
<1>5. Locked
  <2>1. /\ fpc = "sample" /\ epc = "list"
        /\ \A c \in Controller : joint_mtx[c] = "free" /\ \A j \in Joint : holds[c][j] = Unknown
    BY DEF FeedInit
  <2>2. QED BY <2>1 DEF Locked
<1>6. Read /\ Given
  BY DEF FeedInit, Read, Given, Unknown
<1>7. Served /\ SinceThen
  BY <1>1 DEF FeedInit, Served, SinceThen
<1>8. QED BY <1>2, <1>3, <1>4, <1>5, <1>6, <1>7 DEF Feed

LEMMA FeedHolds == FeedSpec => []Feed
<1>1. Feed /\ [FeedNext]_allVars => Feed'
  BY FeedTypeStep, SampledStep, MappedStep, PlacedStep, LockedStep, ReadStep, GivenStep,
     ServedStep, SinceThenStep DEF Feed
<1>2. QED BY <1>1, FeedInitial, PTL DEF FeedSpec
(* Every member of the feed has its type, whatever the lists of joints,    *)
(* controllers and modes are, and the ring's have theirs.                  *)
THEOREM FeedTypeCorrect == FeedSpec => [](TypeOK /\ FeedTypeOK)
<1>1. Feed => FeedTypeOK
  BY DEF Feed
<1>2. QED BY <1>1, FeedHolds, FeedKeepsRing, RecordedHolds, PTL

(* GetEffort, GetVelocity and GetPosition parse the latest frame under a   *)
(* lock each (robstride.cpp): with frames arriving between any two   *)
(* of them, and frames of other kinds, the fields of a published sample    *)
(* are of frames in that order.                                            *)
THEOREM SampleOrderedHolds == FeedSpec => []SampleOrdered
<1>1. Feed => SampleOrdered
  BY DEF Feed, Sampled, Reading, SampleOrdered
<1>2. QED BY <1>1, FeedHolds, PTL

(* The index map of the joint state callback (control_module.cc) takes the *)
(* driver's order to the control module's for all lists with the same      *)
(* names: no controller holds one joint's state as another's.              *)
THEOREM JointsKeptHolds == FeedSpec => []JointsKept
<1>1. JointsKept /\ Feed /\ [FeedNext]_allVars => JointsKept'
  <2> SUFFICES ASSUME JointsKept, Feed, [FeedNext]_allVars PROVE JointsKept'
    OBVIOUS
  <2>1. ASSUME NEW j \in Joint, CopyJoint(j) PROVE JointsKept'
    <3> DEFINE new == <<DriverOrder[index_map[j]], message>>
    <3>1. new[1] = j
      BY <2>1 DEF Feed, Mapped, CopyJoint
    <3>2. holds' = [holds EXCEPT ![Controllers[at]][j] = new]
      BY <2>1 DEF CopyJoint
    <3> HIDE DEF new
    <3>3. \A c \in Controller, j2 \in Joint :
            holds'[c][j2] = IF c = Controllers[at] /\ j2 = j THEN new ELSE holds[c][j2]
      BY <2>1, <3>2, CopyEffect DEF Feed, FeedTypeOK
    <3>4. QED BY <3>1, <3>3 DEF JointsKept
  <2>2. CASE \/ (\E j \in Joint : Receive(j)) \/ Sample \/ PublishState \/ PushTrace \/ Lock
             \/ Unlock \/ ImuBegin \/ (\E d \in Controller : SetImuData(d))
             \/ ControlThread \/ Switch \/ DumpTrace \/ UNCHANGED allVars
    <3>1. UNCHANGED holds
      BY <2>2 DEF Receive, Sample, PublishState, PushTrace, Lock, Unlock, ImuBegin, SetImuData,
           ControlThread, EstimateBegin, ReadLock, ReadJoint, ReadImu, EstimateEnds,
           Switch, DumpTrace, allVars, feedVars
    <3>2. QED BY <3>1 DEF JointsKept
  <2>3. QED BY <2>1, <2>2 DEF FeedNext, PublishLoop
<1>2. FeedInit => JointsKept
  BY DEF FeedInit, JointsKept, Unknown
<1>3. QED BY <1>1, <1>2, FeedHolds, PTL DEF FeedSpec

(* UpdateStateEstimation reads the joints one by one under the shared lock *)
(* (rl_controller.cc), and SetJointStateData writes them under the same    *)
(* mutex: an estimate never mixes two messages.                            *)
THEOREM OneMessagePerEstimateHolds == FeedSpec => []OneMessagePerEstimate
<1>1. Feed => OneMessagePerEstimate
  BY DEF Feed, Read, OneMessagePerEstimate
<1>2. QED BY <1>1, FeedHolds, PTL

(* The joint state callback gives a message to every controller, in the    *)
(* mode or not, before the next sample (control_module.cc): an estimate is *)
(* of joint states and, where the policy was in the mode, of an IMU sample *)
(* at least as new as those complete when it began.                        *)
THEOREM EstimateIsFreshHolds == FeedSpec => []EstimateIsFresh
<1>1. Feed => EstimateIsFresh
  BY DEF Feed, SinceThen, EstimateIsFresh
<1>2. QED BY <1>1, FeedHolds, PTL
=============================================================================
