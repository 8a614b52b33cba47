----------------------------- MODULE ImuModule -----------------------------
(***************************************************************************)
(* ImuModule around its driver (imu_module.cc): Initialize opens the       *)
(* driver, Start begins the publish thread, and Shutdown, called by the    *)
(* main thread, closes the driver and destroys it while the publish thread *)
(* may be anywhere in its loop: nothing joins that thread.                 *)
(***************************************************************************)
EXTENDS ImuDriver, ImuFrame

VARIABLES
  life,          \* where the main thread is
  stop_flag, reader,   \* the driver's reader thread and its stop flag
  is_running, imu,     \* is_running_, and whether imu_ holds a driver
  ppc,           \* where PublishLoop is
  imu_msg,       \* its message, the last one published
  caught         \* PublishLoop was past its test when is_running_ was cleared (history)

driver == <<stop_flag, reader>>
lifeVars == <<life, driver, is_running, imu, ppc, imu_msg, caught>>

ModuleInit ==
  /\ Init
  /\ life = "made" /\ stop_flag = TRUE /\ reader = "none"
  /\ is_running = FALSE /\ imu = FALSE
  /\ ppc = "none" /\ imu_msg = Default /\ caught = FALSE
-----------------------------------------------------------------------------
(* The main thread *)

(* ImuDriver::open: the thread begins before the sensor is configured. *)
Open == stop_flag' = FALSE /\ reader' = "runs"

(* A bad body_signs throws; a port that does not open returns false. *)
Initialize ==
  /\ life = "made"
  /\ \/ life' = "initialized" /\ imu' = TRUE /\ Open
     \/ life' = "failed" /\ UNCHANGED <<imu, driver>>
  /\ UNCHANGED <<vars, is_running, ppc, imu_msg, caught>>

Start ==
  /\ life = "initialized"
  /\ life' = "started"
  /\ is_running' = TRUE /\ ppc' = "test"
  /\ UNCHANGED <<vars, driver, imu, imu_msg, caught>>

(* Mutant of ShutdownFlag: is_running_ is left set until the end. *)
ShutdownFlagLate ==
  /\ life = "started"
  /\ life' = "close"
  /\ UNCHANGED <<vars, is_running, driver, imu, ppc, imu_msg, caught>>

ShutdownFlag ==
  /\ life = "started"
  /\ life' = "close"
  /\ is_running' = FALSE
  /\ caught' = (ppc # "test")
  /\ UNCHANGED <<vars, driver, imu, ppc, imu_msg>>

(* ImuDriver::close raises the stop flag, joins the reader thread and      *)
(* closes the port; Shutdown then lets go of the driver.                   *)
CloseFlag ==
  /\ life = "close"
  /\ life' = "join"
  /\ stop_flag' = TRUE
  /\ UNCHANGED <<vars, reader, is_running, imu, ppc, imu_msg, caught>>

JoinAndReset ==
  /\ life = "join"
  /\ reader = "ended"
  /\ life' = "shut" /\ imu' = FALSE
  /\ UNCHANGED <<vars, driver, is_running, ppc, imu_msg, caught>>

MainThread == Initialize \/ Start \/ ShutdownFlag \/ CloseFlag \/ JoinAndReset
-----------------------------------------------------------------------------
(* readerLoop.  The flag is read between two reads of the port, and a read *)
(* may bring any number of frames.                                         *)
Read ==
  /\ reader = "runs"
  /\ ReaderThread
  /\ UNCHANGED lifeVars

ReaderEnds ==
  /\ reader = "runs" /\ wpc = "parse"
  /\ stop_flag
  /\ reader' = "ended"
  /\ UNCHANGED <<vars, life, stop_flag, is_running, imu, ppc, imu_msg, caught>>
-----------------------------------------------------------------------------
(* PublishLoop *)
Test ==
  /\ ppc = "test"
  /\ ppc' = IF is_running THEN "call" ELSE "ended"
  /\ UNCHANGED <<vars, life, driver, is_running, imu, imu_msg, caught>>

CallObs ==
  /\ ppc = "call" /\ imu
  /\ Call
  /\ ppc' = "obs"
  /\ UNCHANGED <<life, driver, is_running, imu, imu_msg, caught>>

(* The driver may be destroyed during the call; its memory may then still  *)
(* hold what it held.                                                      *)
StepObs ==
  /\ ppc = "obs" /\ rpc # "idle"
  /\ LoadEven \/ LoadOdd \/ (\E w \in Word : CopyWord(w)) \/ Check
  /\ UNCHANGED lifeVars

Crash ==
  /\ ~imu
  /\ ppc = "call" \/ (ppc = "obs" /\ rpc # "idle")
  /\ ppc' = "crashed"
  /\ UNCHANGED <<vars, life, driver, is_running, imu, imu_msg, caught>>

(* Mutant of Publish: the message keeps its rates from one tick to the next. *)
PublishMixed ==
  /\ ppc = "obs" /\ rpc = "idle"
  /\ ppc' = "test"
  /\ imu_msg' = [out EXCEPT !.gyr = imu_msg.gyr]
  /\ UNCHANGED <<vars, life, driver, is_running, imu, caught>>

Publish ==
  /\ ppc = "obs" /\ rpc = "idle"
  /\ ppc' = "test"
  /\ imu_msg' = out
  /\ UNCHANGED <<vars, life, driver, is_running, imu, caught>>

PublishLoop == Test \/ CallObs \/ StepObs \/ Crash \/ Publish

ModuleNext == MainThread \/ Read \/ ReaderEnds \/ PublishLoop

allVars == <<vars, lifeVars>>

(* Threads that can step do.  Nothing obliges the sensor to send or the    *)
(* main thread to shut down, but a commit and a shutdown once begun go on. *)
Fairness ==
  /\ WF_allVars(Read /\ wpc # "parse")
  /\ WF_allVars(ReaderEnds)
  /\ WF_allVars(CloseFlag) /\ WF_allVars(JoinAndReset)
  /\ WF_allVars(PublishLoop)

ModuleSpec == ModuleInit /\ [][ModuleNext]_allVars /\ Fairness
-----------------------------------------------------------------------------
(* Types, the driver's and the module's. *)
ModuleTypeOK ==
  /\ TypeOK
  /\ life \in {"made", "initialized", "failed", "started", "close", "join", "shut"}
  /\ stop_flag \in BOOLEAN /\ reader \in {"none", "runs", "ended"}
  /\ is_running \in BOOLEAN /\ imu \in BOOLEAN /\ caught \in BOOLEAN
  /\ ppc \in {"none", "test", "call", "obs", "ended", "crashed"}
  /\ imu_msg \in Observation

(* Shutdown destroys the driver under the publish thread only if that      *)
(* thread was inside an iteration when is_running_ was cleared: one        *)
(* iteration at most is at risk, and never one that began later.           *)
OnlyCaughtIterationCrashes == ppc = "crashed" => caught

(* The loop gets past the seqlock: while it runs, the latest observation   *)
(* is published as it was committed, or another one follows it.            *)
LatestIsPublished ==
  \A n \in 1 .. MaxTick :
    [](Len(committed) = n /\ ppc # "none"
         => <>(Len(committed) # n \/ imu_msg = committed[n] \/ ~is_running))

(* Once Initialize has set frame_fix_ up, it turns vectors and orientation *)
(* alike (imu_frame.h): for every configuration, the turns of a cube and   *)
(* the three axes.                                                         *)
FrameFixAgrees ==
  life = "initialized" =>
    \A s \in Signs, down \in BOOLEAN, inverse \in BOOLEAN :
      \A q \in [w : -1 .. 1, x : -1 .. 1, y : -1 .. 1, z : -1 .. 1] :
        \A v \in {u \in [x : 0 .. 1, y : 0 .. 1, z : 0 .. 1] : u.x + u.y + u.z = 1} :
          SameWorldVector(s, down, inverse, q, v)
=============================================================================
