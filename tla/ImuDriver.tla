----------------------------- MODULE ImuDriver -----------------------------
(***************************************************************************)
(* The IMU driver: the reader thread assembles the frames of a tick into   *)
(* an observation and stores it under a seqlock, and the publish thread of *)
(* ImuModule reads it with getObs.                                         *)
(*                                                                         *)
(* A measured value is the tick it was measured in; tick 0 is the default  *)
(* observation.  The store of an observation and getObs's copy of it touch *)
(* one word at a time, in any order.  Memory is that of x86: the stores    *)
(* come between the two increments of the version.                         *)
(***************************************************************************)
EXTENDS Integers, Sequences

CONSTANTS
  MaxTick,   \* ticks the sensor sends, a bound of the model
  MaxLoss    \* frames that fail their CRC, a bound of the model

ASSUME ImuAssumption == MaxTick \in Nat \ {0} /\ MaxLoss \in Nat

Word == {"quat", "gyr", "acc"}
Default == [w \in Word |-> 0]

VARIABLES
  tick, rid,     \* the frame the sensor sends next
  lost,          \* frames lost so far
  pending,       \* pending_: the latest value of each kind
  has_accel, has_gyro,
  wpc, tostore,  \* commitTick: where it is, and the words not yet stored
  obs_ver, obs,  \* the seqlock
  rpc, tocopy,   \* getObs: where it is, and the words not yet copied
  v0, v1, out,   \* its locals
  committed,     \* observations committed so far (history)
  before         \* how many of them when the running getObs began (history)

sensorVars == <<tick, rid, lost>>
pendingVars == <<pending, has_accel, has_gyro>>
readerVars == <<rpc, tocopy, v0, v1, out, before>>
vars == <<sensorVars, pendingVars, wpc, tostore, obs_ver, obs, readerVars, committed>>

Init ==
  /\ tick = 1 /\ rid = "accel" /\ lost = 0
  /\ pending = Default /\ has_accel = FALSE /\ has_gyro = FALSE
  /\ wpc = "parse" /\ tostore = {}
  /\ obs_ver = 0 /\ obs = Default
  /\ rpc = "idle" /\ tocopy = {} /\ v0 = 0 /\ v1 = 0 /\ out = Default
  /\ committed = <<>> /\ before = 0
-----------------------------------------------------------------------------
(* The sensor sends acceleration, rate, angles and quaternion in each tick. *)
Sent ==
  /\ tick <= MaxTick
  /\ rid' = CASE rid = "accel" -> "gyro" [] rid = "gyro" -> "euler"
              [] rid = "euler" -> "quat" [] rid = "quat" -> "accel"
  /\ tick' = IF rid = "quat" THEN tick + 1 ELSE tick

(* A frame whose tail or CRC is wrong is skipped; nothing else changes. *)
LoseFrame ==
  /\ wpc = "parse"
  /\ lost < MaxLoss
  /\ Sent
  /\ lost' = lost + 1
  /\ UNCHANGED <<pendingVars, wpc, tostore, obs_ver, obs, readerVars, committed>>

(* parseFrame.  The quaternion is the last of a tick and commits it. *)
ParseFrame ==
  /\ wpc = "parse"
  /\ Sent
  /\ CASE rid = "accel" -> pending' = [pending EXCEPT !.acc = tick]
       [] rid = "gyro" -> pending' = [pending EXCEPT !.gyr = tick]
       [] rid = "quat" -> pending' = [pending EXCEPT !.quat = tick]
       [] rid = "euler" -> UNCHANGED pending
  /\ has_accel' = (has_accel \/ rid = "accel")
  /\ has_gyro' = (has_gyro \/ rid = "gyro")
  /\ wpc' = IF rid = "quat" /\ has_accel /\ has_gyro THEN "commit" ELSE "parse"
  /\ UNCHANGED <<lost, tostore, obs_ver, obs, readerVars, committed>>

(* commitTick *)
CommitBegin ==
  /\ wpc = "commit"
  /\ obs_ver' = obs_ver + 1
  /\ tostore' = Word
  /\ wpc' = "store"
  /\ UNCHANGED <<sensorVars, pendingVars, obs, readerVars, committed>>

StoreWord(w) ==
  /\ wpc = "store" /\ w \in tostore
  /\ obs' = [obs EXCEPT ![w] = pending[w]]
  /\ tostore' = tostore \ {w}
  /\ UNCHANGED <<sensorVars, pendingVars, wpc, obs_ver, readerVars, committed>>

(* Mutant of CommitEnd: the flags of the tick are kept. *)
CommitEndKeeps ==
  /\ wpc = "store" /\ tostore = {}
  /\ obs_ver' = obs_ver + 1
  /\ committed' = Append(committed, obs)
  /\ wpc' = "parse"
  /\ UNCHANGED <<sensorVars, pendingVars, tostore, obs, readerVars>>

CommitEnd ==
  /\ wpc = "store" /\ tostore = {}
  /\ obs_ver' = obs_ver + 1
  /\ committed' = Append(committed, obs)
  /\ has_accel' = FALSE /\ has_gyro' = FALSE
  /\ wpc' = "parse"
  /\ UNCHANGED <<sensorVars, pending, tostore, obs, readerVars>>

ReaderThread ==
  \/ LoseFrame \/ ParseFrame
  \/ CommitBegin \/ (\E w \in Word : StoreWord(w)) \/ CommitEnd
-----------------------------------------------------------------------------
(* getObs *)

(* Mutant of Call: v1 starts with what the last call left in it. *)
CallUninitialised ==
  /\ rpc = "idle"
  /\ rpc' = "load"
  /\ out' = Default
  /\ before' = Len(committed)
  /\ UNCHANGED <<sensorVars, pendingVars, wpc, tostore, obs_ver, obs, tocopy, v0, v1, committed>>

Call ==
  /\ rpc = "idle"
  /\ rpc' = "load"
  /\ v1' = 0
  /\ out' = Default
  /\ before' = Len(committed)
  /\ UNCHANGED <<sensorVars, pendingVars, wpc, tostore, obs_ver, obs, tocopy, v0, committed>>

(* An even version lets the copy begin. *)
LoadEven ==
  /\ rpc = "load"
  /\ obs_ver % 2 = 0
  /\ v0' = obs_ver
  /\ tocopy' = Word
  /\ rpc' = "copy"
  /\ UNCHANGED <<sensorVars, pendingVars, wpc, tostore, obs_ver, obs, v1, out, before, committed>>

(* An odd version continues, and continue goes to the loop's condition,    *)
(* v0 # v1, where v1 is what the last round read.                          *)
LoadOdd ==
  /\ rpc = "load"
  /\ obs_ver % 2 = 1
  /\ v0' = obs_ver
  /\ rpc' = IF v0' # v1 THEN "load" ELSE "idle"
  /\ UNCHANGED <<sensorVars, pendingVars, wpc, tostore, obs_ver, obs, tocopy, v1, out, before, committed>>

CopyWord(w) ==
  /\ rpc = "copy" /\ w \in tocopy
  /\ out' = [out EXCEPT ![w] = obs[w]]
  /\ tocopy' = tocopy \ {w}
  /\ UNCHANGED <<sensorVars, pendingVars, wpc, tostore, obs_ver, obs, rpc, v0, v1, before, committed>>

Check ==
  /\ rpc = "copy" /\ tocopy = {}
  /\ v1' = obs_ver
  /\ rpc' = IF v0 # v1' THEN "load" ELSE "idle"
  /\ UNCHANGED <<sensorVars, pendingVars, wpc, tostore, obs_ver, obs, tocopy, v0, out, before, committed>>

GetObs == Call \/ LoadEven \/ LoadOdd \/ (\E w \in Word : CopyWord(w)) \/ Check

Next == ReaderThread \/ GetObs

Spec == Init /\ [][Next]_vars
-----------------------------------------------------------------------------
(* Types. *)
Observation == [Word -> 0 .. MaxTick]
TypeOK ==
  /\ tick \in 1 .. MaxTick + 1 /\ rid \in {"accel", "gyro", "euler", "quat"}
  /\ lost \in 0 .. MaxLoss
  /\ pending \in Observation /\ has_accel \in BOOLEAN /\ has_gyro \in BOOLEAN
  /\ wpc \in {"parse", "commit", "store"} /\ tostore \in SUBSET Word
  /\ obs_ver \in 0 .. 2 * MaxTick /\ obs \in Observation
  /\ rpc \in {"idle", "load", "copy"} /\ tocopy \in SUBSET Word
  /\ v0 \in 0 .. 2 * MaxTick /\ v1 \in 0 .. 2 * MaxTick /\ out \in Observation
  /\ committed \in Seq(Observation) /\ Len(committed) <= MaxTick
  /\ before \in 0 .. Len(committed)

Returns == rpc # "idle" /\ rpc' = "idle"
Latest(n) == IF n = 0 THEN Default ELSE committed[n]

(* The version protects the copy: getObs returns anything else than the    *)
(* observation in store only while a commit is under way.                  *)
TornOnlyWhileCommitting == [][Returns => out = obs \/ wpc = "store"]_vars

(* What getObs returns is, in each of its values, at least as new as the   *)
(* observation that was complete when it was called.                       *)
ReadsAreFresh == [][Returns => \A w \in Word : out[w] >= Latest(before)[w]]_vars

(* Losing one frame never puts values of two ticks into one observation:   *)
(* values k ticks apart need 2k lost frames.                               *)
SkewNeedsLosses ==
  \A n \in DOMAIN committed : \A w \in Word :
    2 * (committed[n].quat - committed[n][w]) <= lost

(* "Seqlock write ... readers skip odd" (imu_driver.cpp): what getObs      *)
(* returns is an observation that was committed.                           *)
NoTornRead ==
  [][Returns => out \in {committed[n] : n \in DOMAIN committed} \cup {Default}]_vars
=============================================================================
