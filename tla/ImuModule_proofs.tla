-------------------------- MODULE ImuModule_proofs --------------------------
(***************************************************************************)
(* Proofs about the IMU: its driver, the change of frame, and what the     *)
(* module keeps of both, for any number of ticks and lost frames.          *)
(*                                                                         *)
(* IInv is inductive in the driver's steps:                                *)
(*   TypeOK     types and bounds;                                          *)
(*   Counted    the version counts the commits, odd during one;            *)
(*   Skewed     what the lost frames so far allow in pending_ and obs_;    *)
(*   Fresh      what a read has missed at most;                            *)
(*   Copied     what getObs's copy has in common with obs_.                *)
(***************************************************************************)
EXTENDS ImuModule, SequenceTheorems, TLAPS

(* The version is twice the commits, and one more while one is under way;  *)
(* a tick commits at most once.                                            *)
Counted ==
  /\ obs_ver = 2 * Len(committed) + (IF wpc = "store" THEN 1 ELSE 0)
  /\ Len(committed) + (IF wpc = "parse" THEN 1 ELSE 2) <= tick
  /\ wpc # "parse" => rid = "accel"

(* A tick that is over without a commit has lost its quaternion or the     *)
(* other kind, and the next frame of the kind itself is lost as well.      *)
AccelSkew ==
  has_accel =>
    lost >= 2 * (tick - pending.acc)
              + (CASE rid = "accel" -> -1
                   [] rid \in {"euler", "quat"} /\ ~ has_gyro -> 1
                   [] OTHER -> 0)

GyroSkew ==
  has_gyro =>
    lost >= 2 * (tick - pending.gyr)
              + (IF rid \in {"accel", "gyro"} THEN -1 ELSE 0)
              + (IF rid # "accel" /\ ~ has_accel THEN 1 ELSE 0)

Skewed ==
  /\ wpc = "parse" => /\ AccelSkew
                      /\ GyroSkew
                      /\ rid # "accel" /\ ~ has_accel => lost >= 1
  /\ wpc # "parse" => \A w \in Word : 2 * (pending.quat - pending[w]) <= lost
  /\ wpc = "store" => \A w \in Word \ tostore : obs[w] = pending[w]
  /\ SkewNeedsLosses

(* Values only get newer, from the wire to pending_, to obs_ and to out.   *)
Fresh ==
  /\ \A w \in Word : pending[w] <= tick /\ obs[w] <= pending[w]
  /\ \A w \in Word : Latest(Len(committed))[w] <= obs[w]
  /\ \A w \in Word : Latest(before)[w] <= obs[w]

Copied ==
  /\ rpc = "copy" =>
       /\ v0 <= obs_ver /\ v0 % 2 = 0
       /\ \A w \in Word \ tocopy : Latest(before)[w] <= out[w]
       /\ v0 = obs_ver => \A w \in Word \ tocopy : out[w] = obs[w]
  /\ rpc = "load" /\ v1 # 0 => \A w \in Word : Latest(before)[w] <= out[w]

IInv == TypeOK /\ Counted /\ Skewed /\ Fresh /\ Copied
-----------------------------------------------------------------------------
(* The observation that was complete when a call began is an observation. *)
LEMMA LatestType ==
  ASSUME TypeOK, NEW m \in 0 .. Len(committed)
  PROVE  Latest(m) \in Observation
<1>1. CASE m = 0
  BY <1>1, ImuAssumption DEF Latest, Default, Observation
<1>2. CASE m # 0
  BY <1>2 DEF Latest, TypeOK
<1> QED BY <1>1, <1>2

(* A commit leaves the observations before it alone. *)
LEMMA LatestKept ==
  ASSUME TypeOK, CommitEnd
  PROVE  /\ \A m \in 0 .. Len(committed) : Latest(m)' = Latest(m)
         /\ Latest(Len(committed))' = obs
         /\ Len(committed)' = Len(committed) + 1
<1>1. committed \in Seq(Observation) /\ obs \in Observation
  BY DEF TypeOK
<1>2. /\ Len(committed') = Len(committed) + 1
      /\ \A m \in 1 .. Len(committed) : committed'[m] = committed[m]
      /\ committed'[Len(committed) + 1] = obs
  BY <1>1 DEF CommitEnd
<1>3. Len(committed) \in Nat
  BY <1>1
<1>4. \A m \in 0 .. Len(committed) : Latest(m)' = Latest(m)
  BY <1>2, <1>3 DEF Latest
<1>5. Latest(Len(committed))' = obs
  BY <1>2, <1>3 DEF Latest
<1> QED BY <1>2, <1>4, <1>5

LEMMA BaseInit == Init => IInv
<1> SUFFICES ASSUME Init PROVE IInv
  OBVIOUS
<1>1. Len(committed) = 0 /\ committed \in Seq(Observation)
  BY DEF Init
<1>2. TypeOK
  <2>1. Default \in Observation
    BY ImuAssumption DEF Default, Observation
  <2>2. 0 \in 0 .. 2 * MaxTick /\ 1 \in 1 .. MaxTick + 1 /\ 0 \in 0 .. MaxLoss
    BY ImuAssumption
  <2>3. /\ committed \in Seq(Observation) /\ Len(committed) <= MaxTick
        /\ before \in 0 .. Len(committed)
    BY <1>1, ImuAssumption DEF Init
  <2>4. /\ tick \in 1 .. MaxTick + 1 /\ rid \in {"accel", "gyro", "euler", "quat"}
        /\ lost \in 0 .. MaxLoss
        /\ pending \in Observation /\ has_accel \in BOOLEAN /\ has_gyro \in BOOLEAN
    BY <2>1, <2>2 DEF Init
  <2>5. /\ wpc \in {"parse", "commit", "store"} /\ tostore \in SUBSET Word
        /\ obs_ver \in 0 .. 2 * MaxTick /\ obs \in Observation
        /\ rpc \in {"idle", "load", "copy"} /\ tocopy \in SUBSET Word
        /\ v0 \in 0 .. 2 * MaxTick /\ v1 \in 0 .. 2 * MaxTick /\ out \in Observation
    BY <2>1, <2>2 DEF Init
  <2> QED BY <2>3, <2>4, <2>5 DEF TypeOK
<1>3. Counted
  BY <1>1 DEF Init, Counted
<1>4. Skewed
  BY <1>1 DEF Init, Skewed, AccelSkew, GyroSkew, SkewNeedsLosses, Default
<1>5. Fresh
  BY <1>1, ImuAssumption DEF Init, Fresh, Latest, Default
<1>6. Copied
  BY DEF Init, Copied
<1> QED BY <1>2, <1>3, <1>4, <1>5, <1>6 DEF IInv
-----------------------------------------------------------------------------
(* Types and the count of commits *)
LEMMA SentType ==
  ASSUME TypeOK, Sent
  PROVE  /\ tick' \in 1 .. MaxTick + 1
         /\ rid' \in {"accel", "gyro", "euler", "quat"}
         /\ rid # "quat" => tick' = tick /\ rid' # "accel"
         /\ rid = "quat" => tick' = tick + 1 /\ rid' = "accel"
BY ImuAssumption DEF TypeOK, Sent

LEMMA BaseStep ==
  ASSUME TypeOK, Counted, [Next]_vars
  PROVE  TypeOK' /\ Counted'
<1> USE ImuAssumption
<1>1. CASE LoseFrame
  <2>1. /\ tick' \in 1 .. MaxTick + 1
        /\ rid' \in {"accel", "gyro", "euler", "quat"}
        /\ tick <= tick'
    BY <1>1, SentType DEF LoseFrame, TypeOK
  <2>2. TypeOK'
    BY <1>1, <2>1 DEF LoseFrame, TypeOK, pendingVars, readerVars
  <2>3. Counted'
    BY <1>1, <2>1 DEF LoseFrame, Counted, TypeOK, pendingVars, readerVars
  <2> QED BY <2>2, <2>3
<1>2. CASE ParseFrame
  <2>1. /\ tick' \in 1 .. MaxTick + 1
        /\ rid' \in {"accel", "gyro", "euler", "quat"}
        /\ tick <= tick' /\ tick \in 0 .. MaxTick
        /\ rid = "quat" => tick' = tick + 1 /\ rid' = "accel"
    BY <1>2, SentType DEF ParseFrame, TypeOK, Sent
  <2>2. pending' \in Observation
    BY <1>2, <2>1 DEF ParseFrame, TypeOK, Observation, Word
  <2>3. has_accel' \in BOOLEAN /\ has_gyro' \in BOOLEAN
    BY <1>2, Zenon DEF ParseFrame, TypeOK
  <2>4. wpc' \in {"parse", "commit"}
    BY <1>2 DEF ParseFrame
  <2>5. TypeOK'
    BY <1>2, <2>1, <2>2, <2>3, <2>4 DEF ParseFrame, TypeOK, readerVars
  <2>6. Counted'
    BY <1>2, <2>1 DEF ParseFrame, Counted, TypeOK, readerVars
  <2> QED BY <2>5, <2>6
<1>3. CASE CommitBegin
  <2>1. obs_ver' = 2 * Len(committed) + 1 /\ Len(committed) + 2 <= tick
    BY <1>3 DEF CommitBegin, Counted, TypeOK
  <2>2. TypeOK'
    BY <1>3, <2>1 DEF CommitBegin, TypeOK, sensorVars, pendingVars, readerVars
  <2>3. Counted'
    BY <1>3, <2>1 DEF CommitBegin, Counted, TypeOK, sensorVars, pendingVars, readerVars
  <2> QED BY <2>2, <2>3
<1>4. ASSUME NEW w \in Word, StoreWord(w) PROVE TypeOK' /\ Counted'
  <2>1. obs' \in Observation
    BY <1>4 DEF StoreWord, TypeOK, Observation
  <2>2. TypeOK'
    BY <1>4, <2>1 DEF StoreWord, TypeOK, sensorVars, pendingVars, readerVars
  <2>3. Counted'
    BY <1>4 DEF StoreWord, Counted, sensorVars, pendingVars, readerVars
  <2> QED BY <2>2, <2>3
<1>5. CASE CommitEnd
  <2>1. /\ committed' \in Seq(Observation)
        /\ Len(committed') = Len(committed) + 1
    BY <1>5 DEF CommitEnd, TypeOK
  <2>2. obs_ver' = 2 * Len(committed') /\ Len(committed) + 2 <= tick
    BY <1>5, <2>1 DEF CommitEnd, Counted, TypeOK
  <2>3. /\ Len(committed') <= MaxTick
        /\ obs_ver' \in 0 .. 2 * MaxTick
        /\ before' \in 0 .. Len(committed')
    BY <1>5, <2>1, <2>2 DEF CommitEnd, TypeOK, sensorVars, readerVars
  <2>4. TypeOK'
    BY <1>5, <2>1, <2>3 DEF CommitEnd, TypeOK, sensorVars, readerVars
  <2>5. Counted'
    BY <1>5, <2>1, <2>2 DEF CommitEnd, Counted, TypeOK, sensorVars, readerVars
  <2> QED BY <2>4, <2>5
<1>6. CASE GetObs
  <2>1. /\ UNCHANGED <<tick, rid, lost, pending, has_accel, has_gyro, wpc, tostore, obs_ver, obs>>
        /\ UNCHANGED committed
    BY <1>6 DEF GetObs, Call, LoadEven, LoadOdd, CopyWord, Check, sensorVars, pendingVars
  <2>2. rpc' \in {"idle", "load", "copy"} /\ tocopy' \in SUBSET Word
    BY <1>6 DEF GetObs, Call, LoadEven, LoadOdd, CopyWord, Check, TypeOK
  <2>3. v0' \in 0 .. 2 * MaxTick /\ v1' \in 0 .. 2 * MaxTick
    BY <1>6 DEF GetObs, Call, LoadEven, LoadOdd, CopyWord, Check, TypeOK
  <2>4. out' \in Observation
    <3>1. Default \in Observation
      BY DEF Default, Observation
    <3>2. ASSUME NEW w \in Word, CopyWord(w) PROVE out' \in Observation
      BY <3>2 DEF CopyWord, TypeOK, Observation
    <3> QED BY <1>6, <3>1, <3>2 DEF GetObs, Call, LoadEven, LoadOdd, Check, TypeOK
  <2>5. before' \in 0 .. Len(committed)
    BY <1>6 DEF GetObs, Call, LoadEven, LoadOdd, CopyWord, Check, TypeOK
  <2>6. TypeOK'
    BY <2>1, <2>2, <2>3, <2>4, <2>5 DEF TypeOK
  <2>7. Counted'
    BY <2>1 DEF Counted
  <2> QED BY <2>6, <2>7
<1>7. CASE UNCHANGED vars
  BY <1>7 DEF vars, sensorVars, pendingVars, readerVars, TypeOK, Counted
<1> QED
  BY <1>1, <1>2, <1>3, <1>4, <1>5, <1>6, <1>7 DEF Next, ReaderThread
-----------------------------------------------------------------------------
(* What lost frames can do *)

LEMMA SkewedFrame ==
  ASSUME Skewed,
         UNCHANGED <<tick, rid, lost, pending, has_accel, has_gyro, wpc, tostore, obs, committed>>
  PROVE  Skewed'
BY DEF Skewed, AccelSkew, GyroSkew, SkewNeedsLosses

LEMMA SkewedLose ==
  ASSUME TypeOK, Skewed, LoseFrame
  PROVE  Skewed'
<1>1. /\ wpc = "parse" /\ wpc' = "parse" /\ lost' = lost + 1 /\ lost \in Nat /\ tick \in Nat
      /\ UNCHANGED <<pending, has_accel, has_gyro, committed>>
      /\ pending.acc \in Nat /\ pending.gyr \in Nat
      /\ has_accel \in BOOLEAN /\ has_gyro \in BOOLEAN
  BY ImuAssumption DEF LoseFrame, TypeOK, pendingVars, readerVars, Observation, Word
<1>2. \/ rid = "accel" /\ rid' = "gyro" /\ tick' = tick
      \/ rid = "gyro" /\ rid' = "euler" /\ tick' = tick
      \/ rid = "euler" /\ rid' = "quat" /\ tick' = tick
      \/ rid = "quat" /\ rid' = "accel" /\ tick' = tick + 1
  BY DEF LoseFrame, Sent, TypeOK
<1>3. AccelSkew'
  BY <1>1, <1>2 DEF Skewed, AccelSkew
<1>4. GyroSkew'
  BY <1>1, <1>2 DEF Skewed, GyroSkew
<1>5. SkewNeedsLosses'
  <2>1. \A m \in DOMAIN committed : committed[m] \in Observation
    BY DEF TypeOK
  <2>2. \A x \in Observation : x.quat \in Nat /\ \A w \in Word : x[w] \in Nat
    BY ImuAssumption DEF Observation, Word
  <2> QED BY <1>1, <2>1, <2>2 DEF Skewed, SkewNeedsLosses
<1> QED BY <1>1, <1>3, <1>4, <1>5 DEF Skewed

LEMMA SkewedParse ==
  ASSUME TypeOK, Skewed, ParseFrame
  PROVE  Skewed'
<1>1. /\ wpc = "parse" /\ lost' = lost /\ lost \in Nat /\ tick \in Nat
      /\ wpc' = IF rid = "quat" /\ has_accel /\ has_gyro THEN "commit" ELSE "parse"
      /\ UNCHANGED committed
      /\ pending.acc \in Nat /\ pending.gyr \in Nat /\ pending.quat \in Nat
      /\ pending \in Observation
  BY ImuAssumption DEF ParseFrame, TypeOK, readerVars, Observation, Word
<1>2. \/ rid = "accel" /\ rid' = "gyro" /\ tick' = tick
      \/ rid = "gyro" /\ rid' = "euler" /\ tick' = tick
      \/ rid = "euler" /\ rid' = "quat" /\ tick' = tick
      \/ rid = "quat" /\ rid' = "accel" /\ tick' = tick + 1
  BY DEF ParseFrame, Sent, TypeOK
<1>3. /\ pending'.acc = IF rid = "accel" THEN tick ELSE pending.acc
      /\ pending'.gyr = IF rid = "gyro" THEN tick ELSE pending.gyr
      /\ pending'.quat = IF rid = "quat" THEN tick ELSE pending.quat
  BY <1>1, <1>2 DEF ParseFrame, Observation, Word
<1>4. /\ has_accel' <=> has_accel \/ rid = "accel"
      /\ has_gyro' <=> has_gyro \/ rid = "gyro"
  BY DEF ParseFrame
<1>5. wpc' = "parse" => AccelSkew'
  BY <1>1, <1>2, <1>3, <1>4 DEF Skewed, AccelSkew
<1>6. wpc' = "parse" => GyroSkew'
  BY <1>1, <1>2, <1>3, <1>4 DEF Skewed, GyroSkew
<1>7. wpc' = "parse" /\ rid' # "accel" /\ ~ has_accel' => lost' >= 1
  BY <1>1, <1>2, <1>4 DEF Skewed
<1>8. wpc' = "commit" => \A w \in Word : 2 * (pending'.quat - pending'[w]) <= lost'
  BY <1>1, <1>2, <1>3 DEF Skewed, AccelSkew, GyroSkew, Word
<1>9. SkewNeedsLosses'
  BY <1>1 DEF Skewed, SkewNeedsLosses
<1> QED BY <1>1, <1>5, <1>6, <1>7, <1>8, <1>9 DEF Skewed

LEMMA SkewedCommit ==
  ASSUME TypeOK, Counted, Skewed,
         CommitBegin \/ (\E w \in Word : StoreWord(w)) \/ CommitEnd
  PROVE  Skewed'
<1>1. CASE CommitBegin
  <2>1. UNCHANGED <<lost, pending, committed>> /\ wpc = "commit" /\ wpc' = "store" /\ tostore' = Word
    BY <1>1 DEF CommitBegin, sensorVars, pendingVars
  <2>2. SkewNeedsLosses'
    BY <2>1 DEF Skewed, SkewNeedsLosses
  <2> QED BY <2>1, <2>2 DEF Skewed
<1>2. ASSUME NEW w \in Word, StoreWord(w) PROVE Skewed'
  <2>1. /\ UNCHANGED <<lost, pending, committed>> /\ wpc = "store" /\ wpc' = "store"
        /\ tostore' = tostore \ {w} /\ obs' = [obs EXCEPT ![w] = pending[w]]
    BY <1>2 DEF StoreWord, sensorVars, pendingVars
  <2>2. SkewNeedsLosses'
    BY <2>1 DEF Skewed, SkewNeedsLosses
  <2>3. \A x \in Word \ tostore' : obs'[x] = pending'[x]
    BY <2>1 DEF Skewed, TypeOK, Observation
  <2> QED BY <2>1, <2>2, <2>3 DEF Skewed
<1>3. CASE CommitEnd
  <2>1. /\ UNCHANGED <<lost, pending>> /\ wpc = "store" /\ wpc' = "parse" /\ tostore = {}
        /\ has_accel' = FALSE /\ has_gyro' = FALSE /\ rid' = "accel"
        /\ committed' = Append(committed, obs)
    BY <1>3 DEF CommitEnd, sensorVars, Counted
  <2>2. /\ committed \in Seq(Observation)
        /\ DOMAIN committed' = 1 .. Len(committed) + 1
        /\ \A m \in 1 .. Len(committed) : committed'[m] = committed[m]
        /\ committed'[Len(committed) + 1] = obs
    BY <2>1 DEF TypeOK
  <2>3. \A w \in Word : obs[w] = pending[w]
    BY <2>1 DEF Skewed
  <2>4. SkewNeedsLosses'
    <3> SUFFICES ASSUME NEW m \in DOMAIN committed', NEW w \in Word
                 PROVE  2 * (committed'[m].quat - committed'[m][w]) <= lost'
      BY DEF SkewNeedsLosses
    <3>1. CASE m \in 1 .. Len(committed)
      BY <2>1, <2>2, <3>1 DEF Skewed, SkewNeedsLosses
    <3>2. CASE m = Len(committed) + 1
      <4>1. obs.quat = pending.quat /\ obs[w] = pending[w]
        BY <2>3 DEF Word
      <4> QED BY <2>1, <2>2, <3>2, <4>1 DEF Skewed
    <3> QED BY <2>2, <3>1, <3>2
  <2> QED BY <2>1, <2>4 DEF Skewed, AccelSkew, GyroSkew
<1> QED BY <1>1, <1>2, <1>3
-----------------------------------------------------------------------------
(* What getObs sees *)

LEMMA FreshStep ==
  ASSUME TypeOK, Counted, Skewed, Fresh, [Next]_vars
  PROVE  Fresh'
<1> USE ImuAssumption
<1>0. /\ \A x \in Observation, w \in Word : x[w] \in Nat
      /\ pending \in Observation /\ obs \in Observation
      /\ tick \in Nat /\ Len(committed) \in Nat
  BY DEF TypeOK, Observation
<1>1. ASSUME UNCHANGED <<pending, obs, committed, before, tick>> PROVE Fresh'
  BY <1>1 DEF Fresh, Latest
<1>2. ASSUME LoseFrame \/ ParseFrame PROVE Fresh'
  <2>1. UNCHANGED <<obs, committed, before>> /\ tick <= tick' /\ tick' \in Nat
    <3>1. Sent
      BY <1>2 DEF LoseFrame, ParseFrame
    <3>2. tick' = tick \/ tick' = tick + 1
      BY <3>1 DEF Sent
    <3>3. tick <= tick' /\ tick' \in Nat
      BY <1>0, <3>2
    <3>4. UNCHANGED <<obs, committed, before>>
      BY <1>2 DEF LoseFrame, ParseFrame, readerVars
    <3> QED BY <3>3, <3>4
  <2>2. \A w \in Word : pending'[w] <= tick' /\ obs[w] <= pending'[w]
    <3>1. CASE pending' = pending
      BY <1>0, <2>1, <3>1 DEF Fresh
    <3>2. CASE \E w \in Word : pending' = [pending EXCEPT ![w] = tick]
      <4>1. PICK w \in Word : pending' = [pending EXCEPT ![w] = tick]
        BY <3>2
      <4>2. \A x \in Word : pending'[x] = IF x = w THEN tick ELSE pending[x]
        BY <1>0, <4>1 DEF Observation
      <4> QED BY <1>0, <2>1, <4>2 DEF Fresh
    <3> QED BY <1>2, <3>1, <3>2 DEF LoseFrame, ParseFrame, pendingVars, Word, TypeOK
  <2> QED BY <2>1, <2>2 DEF Fresh, Latest
<1>3. ASSUME NEW w \in Word, StoreWord(w) PROVE Fresh'
  <2>1. /\ UNCHANGED <<pending, committed, before, tick>>
        /\ \A x \in Word : obs'[x] = IF x = w THEN pending[x] ELSE obs[x]
    BY <1>0, <1>3 DEF StoreWord, sensorVars, pendingVars, readerVars, Observation
  <2>2. Latest(Len(committed)) \in Observation /\ Latest(before) \in Observation
    BY LatestType DEF TypeOK
  <2>3. \A x \in Word : obs[x] <= obs'[x] /\ obs'[x] <= pending[x] /\ obs'[x] \in Nat
    BY <1>0, <2>1 DEF Fresh
  <2>4. \A x \in Word : Latest(Len(committed))[x] <= obs'[x] /\ Latest(before)[x] <= obs'[x]
    BY <1>0, <2>2, <2>3 DEF Fresh
  <2> QED BY <2>1, <2>3, <2>4 DEF Fresh, Latest
<1>4. CASE CommitEnd
  <2>1. UNCHANGED <<pending, obs, before, tick>>
    BY <1>4 DEF CommitEnd, sensorVars, readerVars
  <2>2. before \in 0 .. Len(committed)
    BY DEF TypeOK
  <2>3. Latest(before)' = Latest(before) /\ Latest(Len(committed))' = obs
    BY <1>4, <2>1, <2>2, LatestKept DEF Latest
  <2> QED BY <1>0, <2>1, <2>3 DEF Fresh
<1>5. CASE Call
  <2>1. UNCHANGED <<pending, obs, committed, tick>> /\ before' = Len(committed)
    BY <1>5 DEF Call, sensorVars, pendingVars
  <2> QED BY <2>1 DEF Fresh, Latest
<1> QED
  BY <1>1, <1>2, <1>3, <1>4, <1>5
  DEF Next, ReaderThread, GetObs, CommitBegin, LoadEven, LoadOdd, CopyWord, Check,
      vars, sensorVars, pendingVars, readerVars

(* A store, or the end of a commit, meets a copy only with a version that  *)
(* the copy did not begin with.                                            *)
LEMMA CopiedWriter ==
  ASSUME TypeOK, Counted, Copied, ReaderThread
  PROVE  Copied'
<1> USE ImuAssumption
<1>0. obs_ver \in Nat /\ Len(committed) \in Nat /\ v0 \in Nat /\ before \in 0 .. Len(committed)
  BY DEF TypeOK
<1>1. UNCHANGED readerVars
  BY DEF ReaderThread, LoseFrame, ParseFrame, CommitBegin, StoreWord, CommitEnd
<1>2. Latest(before)' = Latest(before)
  BY <1>0, <1>1, LatestKept
  DEF ReaderThread, LoseFrame, ParseFrame, CommitBegin, StoreWord, CommitEnd, readerVars, Latest
<1>3. \/ obs_ver' = obs_ver /\ obs' = obs
      \/ obs_ver' = obs_ver + 1
      \/ obs_ver' = obs_ver /\ wpc = "store"
  BY DEF ReaderThread, LoseFrame, ParseFrame, CommitBegin, StoreWord, CommitEnd
<1>4. wpc = "store" => obs_ver % 2 = 1
  BY <1>0 DEF Counted
<1> QED BY <1>0, <1>1, <1>2, <1>3, <1>4 DEF Copied, readerVars

LEMMA CopiedReader ==
  ASSUME TypeOK, Counted, Fresh, Copied, GetObs
  PROVE  Copied'
<1> USE ImuAssumption
<1>1. /\ UNCHANGED <<obs_ver, obs, committed>>
      /\ obs_ver \in Nat /\ v0 \in Nat
      /\ out \in Observation /\ obs \in Observation
  BY DEF GetObs, Call, LoadEven, LoadOdd, CopyWord, Check, TypeOK
<1>2. CASE Call
  BY <1>2 DEF Call, Copied
<1>3. CASE LoadEven
  BY <1>1, <1>3 DEF LoadEven, Copied
<1>4. CASE LoadOdd
  BY <1>1, <1>4 DEF LoadOdd, Copied, Latest
<1>5. ASSUME NEW w \in Word, CopyWord(w) PROVE Copied'
  <2>1. /\ rpc = "copy" /\ UNCHANGED <<rpc, v0, v1, before>> /\ tocopy' = tocopy \ {w}
        /\ \A x \in Word : out'[x] = IF x = w THEN obs[x] ELSE out[x]
    BY <1>1, <1>5 DEF CopyWord, Observation
  <2>2. \A x \in Word \ tocopy' : Latest(before)[x] <= out'[x]
    BY <2>1 DEF Copied, Fresh
  <2>3. v0 = obs_ver => \A x \in Word \ tocopy' : out'[x] = obs[x]
    BY <2>1 DEF Copied
  <2> QED BY <1>1, <2>1, <2>2, <2>3 DEF Copied, Latest
<1>6. CASE Check
  BY <1>1, <1>6 DEF Check, Copied, Latest
<1> QED BY <1>2, <1>3, <1>4, <1>5, <1>6 DEF GetObs

LEMMA IInvStep == IInv /\ [Next]_vars => IInv'
<1> SUFFICES ASSUME IInv, [Next]_vars PROVE IInv'
  OBVIOUS
<1> USE DEF IInv
<1>1. TypeOK' /\ Counted'
  BY BaseStep
<1>2. Skewed'
  <2>1. CASE GetObs \/ UNCHANGED vars
    BY <2>1, SkewedFrame
    DEF GetObs, Call, LoadEven, LoadOdd, CopyWord, Check, vars, sensorVars, pendingVars
  <2> QED BY <2>1, SkewedLose, SkewedParse, SkewedCommit DEF Next, ReaderThread
<1>3. Fresh'
  BY FreshStep
<1>4. Copied'
  <2>1. CASE UNCHANGED vars
    BY <2>1 DEF vars, readerVars, Copied, Latest
  <2> QED BY <2>1, CopiedWriter, CopiedReader DEF Next
<1> QED BY <1>1, <1>2, <1>3, <1>4

LEMMA IInvHolds == Spec => []IInv
  BY BaseInit, IInvStep, PTL DEF Spec
-----------------------------------------------------------------------------
(* Types and bounds hold: a tick commits at most once. *)
THEOREM TypeCorrect == Spec => []TypeOK
  BY IInvHolds, PTL DEF IInv

(* Values k ticks apart in one observation need 2k lost frames, for any    *)
(* number of ticks and losses.                                             *)
THEOREM SkewNeedsLossesHolds == Spec => []SkewNeedsLosses
<1>1. IInv => SkewNeedsLosses
  BY DEF IInv, Skewed
<1> QED BY <1>1, IInvHolds, PTL

(* getObs returns something else than the stored observation only while a  *)
(* commit is under way.                                                    *)
THEOREM TornOnlyWhileCommittingHolds == Spec => TornOnlyWhileCommitting
<1>1. IInv /\ [Next]_vars => [Returns => out = obs \/ wpc = "store"]_vars
  <2> SUFFICES ASSUME IInv, Next, Returns PROVE out = obs \/ wpc = "store"
    OBVIOUS
  <2>1. CASE LoadOdd
    BY <2>1 DEF LoadOdd, IInv, Counted, TypeOK
  <2>2. CASE Check
    <3>1. \A w \in Word : out[w] = obs[w]
      BY <2>2 DEF Check, Returns, IInv, Copied
    <3> QED BY <3>1 DEF IInv, TypeOK, Observation
  <2> QED
    BY <2>1, <2>2
    DEF Next, ReaderThread, LoseFrame, ParseFrame, CommitBegin, StoreWord, CommitEnd,
        GetObs, Call, LoadEven, CopyWord, Returns, readerVars
<1> QED BY <1>1, IInvHolds, PTL DEF Spec, TornOnlyWhileCommitting

(* Whatever getObs returns, torn or not, is at least as new in each value  *)
(* as the observation that was complete when it was called.                *)
THEOREM ReadsAreFreshHolds == Spec => ReadsAreFresh
<1>1. IInv /\ [Next]_vars => [Returns => \A w \in Word : out[w] >= Latest(before)[w]]_vars
  <2> SUFFICES ASSUME IInv, Next, Returns PROVE \A w \in Word : out[w] >= Latest(before)[w]
    OBVIOUS
  <2>1. CASE LoadOdd
    BY <2>1 DEF LoadOdd, IInv, Copied, Returns
  <2>2. CASE Check
    BY <2>2 DEF Check, IInv, Copied
  <2> QED
    BY <2>1, <2>2
    DEF Next, ReaderThread, LoseFrame, ParseFrame, CommitBegin, StoreWord, CommitEnd,
        GetObs, Call, LoadEven, CopyWord, Returns, readerVars
<1> QED BY <1>1, IInvHolds, PTL DEF Spec, ReadsAreFresh
-----------------------------------------------------------------------------
(* The change of frame keeps every vector where it is in the world: a fact *)
(* of quaternion algebra, for every orientation and every vector.          *)
LEMMA MulType ==
  ASSUME NEW a \in Quat, NEW b \in Quat
  PROVE  Mul(a, b) \in Quat
BY DEF Mul, Quat

LEMMA ConjType ==
  ASSUME NEW a \in Quat
  PROVE  Conj(a) \in Quat
BY DEF Conj, Quat

LEMMA MulAssoc ==
  ASSUME NEW a \in Quat, NEW b \in Quat, NEW c \in Quat
  PROVE  Mul(Mul(a, b), c) = Mul(a, Mul(b, c))
<1>1. PICK a1, a2, a3, a4 \in Int : a = [w |-> a1, x |-> a2, y |-> a3, z |-> a4]
  BY DEF Quat
<1>2. PICK b1, b2, b3, b4 \in Int : b = [w |-> b1, x |-> b2, y |-> b3, z |-> b4]
  BY DEF Quat
<1>3. PICK c1, c2, c3, c4 \in Int : c = [w |-> c1, x |-> c2, y |-> c3, z |-> c4]
  BY DEF Quat
<1>4. Mul(Mul(a, b), c).w = Mul(a, Mul(b, c)).w
  BY <1>1, <1>2, <1>3 DEF Mul
<1>5. Mul(Mul(a, b), c).x = Mul(a, Mul(b, c)).x
  BY <1>1, <1>2, <1>3 DEF Mul
<1>6. Mul(Mul(a, b), c).y = Mul(a, Mul(b, c)).y
  BY <1>1, <1>2, <1>3 DEF Mul
<1>7. Mul(Mul(a, b), c).z = Mul(a, Mul(b, c)).z
  BY <1>1, <1>2, <1>3 DEF Mul
<1> QED
  BY <1>4, <1>5, <1>6, <1>7 DEF Mul

LEMMA ConjMul ==
  ASSUME NEW a \in Quat, NEW b \in Quat
  PROVE  Conj(Mul(a, b)) = Mul(Conj(b), Conj(a))
<1>1. PICK a1, a2, a3, a4 \in Int : a = [w |-> a1, x |-> a2, y |-> a3, z |-> a4]
  BY DEF Quat
<1>2. PICK b1, b2, b3, b4 \in Int : b = [w |-> b1, x |-> b2, y |-> b3, z |-> b4]
  BY DEF Quat
<1> QED
  BY <1>1, <1>2 DEF Mul, Conj

(* Init's qB undoes ApplyVec. *)
LEMMA BodySigns ==
  ASSUME NEW s \in Signs, NEW v \in Vec
  PROVE  /\ qB(s) \in Quat /\ Pure(ApplyVec(s, v)) \in Quat /\ Pure(v) \in Quat
         /\ Rotated(qB(s), ApplyVec(s, v)) = Pure(v)
<1>1. PICK e, f, g \in Int : v = [x |-> e, y |-> f, z |-> g]
  BY DEF Vec
<1>2. \/ s = [x |-> 1, y |-> 1, z |-> 1]
      \/ s = [x |-> 1, y |-> -1, z |-> -1]
      \/ s = [x |-> -1, y |-> 1, z |-> -1]
      \/ s = [x |-> -1, y |-> -1, z |-> 1]
  BY DEF Signs
<1>3. CASE s = [x |-> 1, y |-> 1, z |-> 1]
  BY <1>1, <1>3 DEF qB, Pure, ApplyVec, Rotated, Mul, Conj, Quat
<1>4. CASE s = [x |-> 1, y |-> -1, z |-> -1]
  BY <1>1, <1>4 DEF qB, Pure, ApplyVec, Rotated, Mul, Conj, Quat
<1>5. CASE s = [x |-> -1, y |-> 1, z |-> -1]
  BY <1>1, <1>5 DEF qB, Pure, ApplyVec, Rotated, Mul, Conj, Quat
<1>6. CASE s = [x |-> -1, y |-> -1, z |-> 1]
  BY <1>1, <1>6 DEF qB, Pure, ApplyVec, Rotated, Mul, Conj, Quat
<1> QED
  BY <1>2, <1>3, <1>4, <1>5, <1>6

(* Init's qW is the change of the world. *)
LEMMA WorldTurn ==
  ASSUME NEW down \in BOOLEAN, NEW u \in Quat
  PROVE  qW(down) \in Quat /\ Mul(Mul(qW(down), u), Conj(qW(down))) = World(down, u)
<1>1. PICK a, b, c, d \in Int : u = [w |-> a, x |-> b, y |-> c, z |-> d]
  BY DEF Quat
<1>2. CASE down
  BY <1>1, <1>2 DEF qW, Mul, Conj, World, Quat
<1>3. CASE ~ down
  BY <1>1, <1>3 DEF qW, Mul, Conj, World, Quat
<1> QED
  BY <1>2, <1>3

(* A product rotates by its factors in turn. *)
LEMMA RotateTwice ==
  ASSUME NEW a \in Quat, NEW b \in Quat, NEW c \in Quat
  PROVE  Mul(Mul(Mul(a, b), c), Conj(Mul(a, b))) = Mul(Mul(a, Mul(Mul(b, c), Conj(b))), Conj(a))
<1> DEFINE bc == Mul(b, c)
<1>1. bc \in Quat /\ Conj(a) \in Quat /\ Conj(b) \in Quat /\ Mul(bc, Conj(b)) \in Quat /\ Mul(a, bc) \in Quat
  BY MulType, ConjType
<1> HIDE DEF bc
<1>2. Mul(Mul(a, b), c) = Mul(a, bc)
  BY MulAssoc DEF bc
<1>3. Mul(Mul(a, bc), Mul(Conj(b), Conj(a))) = Mul(Mul(Mul(a, bc), Conj(b)), Conj(a))
  BY <1>1, MulAssoc
<1>4. Mul(Mul(a, bc), Conj(b)) = Mul(a, Mul(bc, Conj(b)))
  BY <1>1, MulAssoc
<1> QED
  BY <1>2, <1>3, <1>4, ConjMul DEF bc

(* ImuFrameFix: whatever body_signs Init accepts, world_z_down and         *)
(* quat_inverse, the published vector and the published orientation stand  *)
(* for the same vector of the world as the sensor's own, for every         *)
(* orientation and every vector.                                           *)
THEOREM FrameFixKeepsWorld ==
  ASSUME NEW s \in Signs, NEW down \in BOOLEAN, NEW inverse \in BOOLEAN,
         NEW q \in Quat, NEW v \in Vec
  PROVE  SameWorldVector(s, down, inverse, q, v)
<1> DEFINE p == IF inverse THEN Conj(q) ELSE q
           W == qW(down)
           B == qB(s)
           S == Pure(ApplyVec(s, v))
           U == Mul(Mul(p, Pure(v)), Conj(p))
<1>1. p \in Quat
  BY ConjType
<1>2. B \in Quat /\ S \in Quat /\ Pure(v) \in Quat /\ Mul(Mul(B, S), Conj(B)) = Pure(v)
  BY BodySigns DEF Rotated
<1>3. U \in Quat /\ Mul(p, Pure(v)) \in Quat
  BY <1>1, <1>2, MulType, ConjType
<1>4. W \in Quat /\ Mul(Mul(W, U), Conj(W)) = World(down, U)
  BY <1>3, WorldTurn
<1>5. Rotated(ApplyQuat(s, down, inverse, q), ApplyVec(s, v))
        = Mul(Mul(Mul(Mul(W, p), B), S), Conj(Mul(Mul(W, p), B)))
  BY DEF Rotated, ApplyQuat
<1>6. World(down, Rotated(IF inverse THEN Conj(q) ELSE q, v)) = World(down, U)
  BY DEF Rotated
<1> HIDE DEF p, W, B, S, U
<1>7. Mul(W, p) \in Quat
  BY <1>1, <1>4, MulType
<1>8. Mul(Mul(Mul(Mul(W, p), B), S), Conj(Mul(Mul(W, p), B)))
        = Mul(Mul(Mul(W, p), Pure(v)), Conj(Mul(W, p)))
  BY <1>2, <1>7, RotateTwice
<1>9. Mul(Mul(Mul(W, p), Pure(v)), Conj(Mul(W, p))) = Mul(Mul(W, U), Conj(W))
  BY <1>1, <1>2, <1>4, RotateTwice DEF U
<1> QED
  BY <1>4, <1>5, <1>6, <1>8, <1>9 DEF SameWorldVector
-----------------------------------------------------------------------------
(* What the module keeps of its driver, and what its Shutdown puts at      *)
(* risk.                                                                   *)
(* The publish thread exists from Start on, the driver until Shutdown has  *)
(* let go of it, and an iteration that is_running_ did not catch is over.  *)
Lives ==
  /\ life \in {"made", "initialized", "failed", "started", "close", "join", "shut"}
  /\ life \in {"made", "initialized", "failed"} => ppc = "none"
  /\ life \in {"initialized", "started", "close", "join"} => imu
  /\ is_running => life = "started"
  /\ life \in {"close", "join", "shut"} /\ ~ caught => ppc \in {"test", "ended"}
  /\ ppc = "crashed" => life = "shut"

LEMMA LivesStep == Lives /\ [ModuleNext]_allVars => Lives'
<1> SUFFICES ASSUME Lives, [ModuleNext]_allVars PROVE Lives'
  OBVIOUS
<1> USE DEF Lives
<1>1. CASE Initialize
  BY <1>1 DEF Initialize, Open, driver
<1>2. CASE Start
  BY <1>2 DEF Start, driver
<1>3. CASE ShutdownFlag
  <2>1. life = "started" /\ life' = "close" /\ imu' = imu /\ ppc' = ppc /\ ~ is_running'
    BY <1>3 DEF ShutdownFlag
  <2>2. ~ caught' => ppc = "test"
    BY <1>3, Zenon DEF ShutdownFlag
  <2>3. QED BY <2>1, <2>2
<1>4. CASE CloseFlag \/ JoinAndReset
  BY <1>4 DEF CloseFlag, JoinAndReset, driver
<1>5. CASE Read \/ ReaderEnds
  BY <1>5 DEF Read, ReaderEnds, lifeVars
<1>6. CASE Test
  BY <1>6 DEF Test, driver
<1>7. CASE CallObs
  BY <1>7 DEF CallObs, driver
<1>8. CASE StepObs
  BY <1>8 DEF StepObs, lifeVars
<1>9. CASE Crash
  BY <1>9 DEF Crash, driver
<1>10. CASE Publish
  BY <1>10 DEF Publish, driver
<1>11. CASE UNCHANGED allVars
  BY <1>11 DEF allVars, lifeVars
<1>12. QED
  BY <1>1, <1>2, <1>3, <1>4, <1>5, <1>6, <1>7, <1>8, <1>9, <1>10, <1>11
     DEF ModuleNext, MainThread, PublishLoop

LEMMA LivesHolds == ModuleSpec => []Lives
<1>1. ModuleInit => Lives
  BY DEF ModuleInit, Lives
<1>2. QED BY <1>1, LivesStep, PTL DEF ModuleSpec
-----------------------------------------------------------------------------
(* The module uses its driver as the driver expects: whatever open, close, *)
(* the life cycle and PublishLoop do (imu_module.cc), its observation is   *)
(* written and read in steps of ImuDriver only.                            *)
THEOREM ModuleKeepsDriver == ModuleSpec => Spec
<1>1. ModuleInit => Init
  BY DEF ModuleInit
<1>2. [ModuleNext]_allVars => [Next]_vars
  <2> SUFFICES ASSUME [ModuleNext]_allVars PROVE [Next]_vars
    OBVIOUS
  <2>1. CASE Read
    BY <2>1 DEF Read, Next
  <2>2. CASE CallObs \/ StepObs
    BY <2>2 DEF CallObs, StepObs, Next, GetObs
  <2>3. CASE MainThread \/ ReaderEnds \/ Test \/ Crash \/ Publish
    BY <2>3 DEF MainThread, Initialize, Start, ShutdownFlag, CloseFlag, JoinAndReset,
                ReaderEnds, Test, Crash, Publish
  <2>4. CASE UNCHANGED allVars
    BY <2>4 DEF allVars
  <2>5. QED BY <2>1, <2>2, <2>3, <2>4 DEF ModuleNext, PublishLoop
<1>3. QED BY <1>1, <1>2, PTL DEF ModuleSpec, Spec

(* Its own state has its types: a message is an observation the driver     *)
(* returned (PublishLoop).                                                 *)
LEMMA ModuleTypeStep ==
  ASSUME ModuleTypeOK, TypeOK', [ModuleNext]_allVars
  PROVE  ModuleTypeOK'
<1>1. imu_msg' = imu_msg \/ imu_msg' = out
  BY DEF ModuleNext, MainThread, Initialize, Start, ShutdownFlag, CloseFlag, JoinAndReset, Read, ReaderEnds,
         PublishLoop, Test, CallObs, StepObs, Crash, Publish, allVars, lifeVars
<1>2. imu_msg' \in Observation
  BY <1>1 DEF ModuleTypeOK, TypeOK
<1>3. CASE MainThread
  <2>1. CASE ShutdownFlag
    <3>1. caught' \in BOOLEAN
      BY <2>1, Zenon DEF ShutdownFlag
    <3>2. QED
      BY <1>2, <2>1, <3>1 DEF ModuleTypeOK, ShutdownFlag, driver
  <2>2. CASE Initialize \/ Start \/ CloseFlag \/ JoinAndReset
    BY <1>2, <2>2 DEF ModuleTypeOK, Initialize, Open, Start, CloseFlag, JoinAndReset, driver
  <2>3. QED
    BY <1>3, <2>1, <2>2 DEF MainThread
<1>4. CASE Read \/ ReaderEnds \/ StepObs \/ UNCHANGED allVars
  BY <1>2, <1>4 DEF ModuleTypeOK, Read, ReaderEnds, StepObs, allVars, lifeVars, driver
<1>5. CASE Test \/ CallObs \/ Crash \/ Publish
  BY <1>2, <1>5 DEF ModuleTypeOK, Test, CallObs, Crash, Publish, driver
<1>6. QED
  BY <1>3, <1>4, <1>5 DEF ModuleNext, PublishLoop

(* Types of the module, for any number of ticks and lost frames. *)
THEOREM ModuleTypeCorrect == ModuleSpec => []ModuleTypeOK
<1>1. ModuleInit /\ TypeOK => ModuleTypeOK
  BY DEF ModuleInit, Init, TypeOK, ModuleTypeOK
<1>2. QED
  BY <1>1, ModuleTypeStep, ModuleKeepsDriver, TypeCorrect, PTL DEF ModuleSpec

(* So values k ticks apart in one observation need 2k lost frames in the   *)
(* module as well, which PublishLoop then publishes.                       *)
THEOREM ModuleSkewNeedsLosses == ModuleSpec => []SkewNeedsLosses
  BY ModuleKeepsDriver, SkewNeedsLossesHolds, PTL

(* And what PublishLoop reads is at least as new as the observation that   *)
(* was complete when it called getObs, in a Shutdown too.                  *)
THEOREM ModuleReadsAreFresh == ModuleSpec => ReadsAreFresh
  BY ModuleKeepsDriver, ReadsAreFreshHolds, PTL

(* imu_module.cc destroys the driver without joining publish_thread_: only *)
(* the iteration that was under way when is_running_ was cleared can meet  *)
(* a driver that is gone.                                                  *)
THEOREM OnlyCaughtIterationCrashesHolds == ModuleSpec => []OnlyCaughtIterationCrashes
<1>1. Lives => OnlyCaughtIterationCrashes
  BY DEF Lives, OnlyCaughtIterationCrashes
<1>2. QED BY <1>1, LivesHolds, PTL

(* The frame fix that Initialize sets up turns vectors and orientation     *)
(* alike, which FrameFixKeepsWorld says of all integers.                   *)
THEOREM FrameFixAgreesHolds == ModuleSpec => []FrameFixAgrees
<1>1. FrameFixAgrees
  <2> SUFFICES ASSUME NEW s \in Signs, NEW down \in BOOLEAN, NEW inverse \in BOOLEAN,
                      NEW q \in [w : -1 .. 1, x : -1 .. 1, y : -1 .. 1, z : -1 .. 1],
                      NEW v \in {u \in [x : 0 .. 1, y : 0 .. 1, z : 0 .. 1] : u.x + u.y + u.z = 1}
               PROVE  SameWorldVector(s, down, inverse, q, v)
    BY DEF FrameFixAgrees
  <2>1. q \in Quat /\ v \in Vec
    BY DEF Quat, Vec
  <2>2. QED BY <2>1, FrameFixKeepsWorld
<1>2. QED BY <1>1, PTL
=============================================================================
