-------------------------- MODULE SimModule_proofs --------------------------
(***************************************************************************)
(* The threads of the simulator keep out of each other's way: safety of    *)
(* SimModule for any lists of joints.                                      *)
(***************************************************************************)
EXTENDS SimModule, TLAPS

(* The viewer's loop is over exactly when exitrequest says so.             *)
Ended == rpc = "ended" <=> exitrequest = 2

(* Shutdown goes beyond the wait only when the render thread has ended.    *)
Freeing ==
  /\ mpc \in {"free", "down"} => rpc = "ended"
  /\ model = "freed" => mpc = "down"

(* The control thread holds the mutex while it steps, and steps a model.   *)
Holding ==
  /\ mtx = "control" <=> cpc \in {"step", "publish"}
  /\ mtx = "control" => model = "live" /\ shown /\ mpc \in {"up", "exit", "await", "free", "gave_up"}

(* Start hands the model over to the render thread before it goes on.      *)
Loading ==
  /\ mpc = "start" => rpc = "none"
  /\ rpc \in {"none", "load"} => mpc \in {"start", "wait"} /\ ~ is_render_thread_running
  /\ mpc = "loading" => loadrequest \in {1, 2} \/ shown
  /\ mpc \notin {"start", "wait", "loading", "crashed"} => shown
  /\ mpc \notin {"start", "wait", "down", "crashed"} => model = "live"
  /\ running => mpc = "up"

IInv == TypeOK /\ Ended /\ Freeing /\ Holding /\ Loading

LEMMA InitIInv == Init => IInv
<1> SUFFICES ASSUME Init PROVE IInv
  OBVIOUS
<1>1. TypeOK
  <2>1. loadrequest \in 0 .. 3 /\ exitrequest \in 0 .. 2
    BY DEF Init
  <2>2. {running, is_render_thread_running, closed, shown, warm} \subseteq BOOLEAN
    BY Zenon DEF Init
  <2>3. QED BY <2>1, <2>2 DEF Init, TypeOK
<1>2. Ended /\ Freeing /\ Holding
  BY DEF Init, Ended, Freeing, Holding
<1>3. Loading
  BY DEF Init, Loading
<1>4. QED BY <1>1, <1>2, <1>3 DEF IInv

LEMMA RenderStep ==
  ASSUME IInv, Prepare \/ RenderLoop
  PROVE  IInv'
<1> USE DEF IInv, TypeOK, Ended, Freeing, Holding, Loading, viewerVars, cmdVars
<1>1. CASE Prepare
  BY <1>1 DEF Prepare
<1>2. CASE Test
  BY <1>2 DEF Test
<1>3. CASE Frame
  <2>1. \/ loadrequest = 1 /\ loadrequest' = 0 /\ shown' = TRUE
        \/ loadrequest = 2 /\ loadrequest' = 1 /\ shown' = shown
        \/ loadrequest \notin {1, 2} /\ loadrequest' = loadrequest /\ shown' = shown
    BY <1>3 DEF Frame, LoadStep, LoadOnRenderThread
  <2>2. \/ exitrequest' = exitrequest /\ closed' = closed
        \/ exitrequest' = exitrequest /\ closed' = TRUE
        \/ exitrequest' = 1 /\ closed' = closed
    BY <1>3 DEF Frame, PollEvents
  <2>3. rpc = "frame" /\ rpc' = "draw"
    BY <1>3 DEF Frame
  <2>4. UNCHANGED <<mpc, running, is_render_thread_running, model, cmdVars>>
    BY <1>3 DEF Frame
  <2>5. TypeOK'
    <3>1. loadrequest' \in 0 .. 3 /\ exitrequest' \in 0 .. 2
      BY <2>1, <2>2
    <3>2. closed' \in BOOLEAN /\ shown' \in BOOLEAN
      BY <2>1, <2>2, Zenon
    <3>3. QED BY <2>3, <2>4, <3>1, <3>2
  <2>6. Ended'
    BY <2>2, <2>3
  <2>7. Freeing'
    BY <2>3, <2>4
  <2>8. Holding'
    BY <2>1, <2>4
  <2>9. Loading'
    BY <2>1, <2>3, <2>4
  <2>10. QED BY <2>5, <2>6, <2>7, <2>8, <2>9
<1>4. CASE Draw
  BY <1>4 DEF Draw
<1>5. CASE Leave
  BY <1>5 DEF Leave
<1>6. QED BY <1>1, <1>2, <1>3, <1>4, <1>5 DEF RenderLoop

LEMMA MainThreadStep ==
  ASSUME IInv, Main \/ ShutdownFlag
  PROVE  IInv'
<1> USE DEF IInv, TypeOK, Ended, Freeing, Holding, Loading, viewerVars, cmdVars, MainStep
<1>1. CASE Launch
  BY <1>1 DEF Launch
<1>2. CASE Load
  BY <1>2 DEF Load
<1>3. CASE NoModel
  BY <1>3 DEF NoModel
<1>4. CASE Loaded
  BY <1>4 DEF Loaded
<1>5. CASE Started
  BY <1>5 DEF Started
<1>6. CASE ShutdownFlag
  BY <1>6 DEF ShutdownFlag
<1>7. CASE ShutdownExit
  BY <1>7 DEF ShutdownExit
<1>8. CASE ShutdownSeen
  BY <1>8 DEF ShutdownSeen
<1>9. CASE ShutdownGivesUp
  BY <1>9 DEF ShutdownGivesUp
<1>10. CASE ShutdownFree
  BY <1>10 DEF ShutdownFree
<1>11. QED
  BY <1>1, <1>2, <1>3, <1>4, <1>5, <1>6, <1>7, <1>8, <1>9, <1>10 DEF Main

LEMMA ControlStep ==
  ASSUME IInv, WarmUp \/ CmdBegin \/ CmdCallback
  PROVE  IInv'
<1> USE DEF IInv, TypeOK, Ended, Freeing, Holding, Loading, viewerVars, CmdStep
<1>1. CASE WarmUp
  BY <1>1 DEF WarmUp
<1>2. CASE CmdBegin
  BY <1>2 DEF CmdBegin
<1>3. CASE CmdLock
  BY <1>3 DEF CmdLock
<1>4. CASE Step
  BY <1>4 DEF Step
<1>5. CASE Publish
  BY <1>5 DEF Publish
<1>6. QED BY <1>1, <1>2, <1>3, <1>4, <1>5 DEF CmdCallback

LEMMA InvariantStep == IInv /\ [Next]_simVars => IInv'
<1>1. ASSUME IInv, UNCHANGED simVars PROVE IInv'
  BY <1>1 DEF simVars, viewerVars, cmdVars, IInv, TypeOK, Ended, Freeing, Holding, Loading
<1>2. QED BY <1>1, RenderStep, MainThreadStep, ControlStep DEF Next

THEOREM Invariant == Spec => []IInv
BY InitIInv, InvariantStep, PTL DEF Spec

(* Types; exitrequest and loadrequest stay within their documented values. *)
THEOREM TypeCorrect == Spec => []TypeOK
BY Invariant, PTL DEF IInv

(* "Skip freeing MuJoCo model/data to avoid use-after-free"                *)
(* (sim_module.cc:110): no frame and no step ever reads a freed model.     *)
THEOREM NoUseAfterFreeHolds == Spec => []NoUseAfterFree
<1>1. IInv => NoUseAfterFree
  BY DEF IInv, Freeing, Holding, NoUseAfterFree
<1>2. QED BY <1>1, Invariant, PTL

(* CmdCallback looks at running_ and d_ again under the mutex              *)
(* (sim_module.cc:138): it steps only a model that Start is done with.     *)
THEOREM StepsWholeModelHolds == Spec => []StepsWholeModel
<1>1. IInv => StepsWholeModel
  BY DEF IInv, Holding, StepsWholeModel
<1>2. QED BY <1>1, Invariant, PTL

(* WriteMotorCmd (sim_module.cc:176): whatever the orders of the two lists *)
(* are, each joint follows its own command.                                *)
THEOREM OwnCommandHolds == Spec => []OwnCommand
<1>1. Init => OwnCommand
  BY DEF Init, OwnCommand
<1>2. OwnCommand /\ [Next]_simVars => OwnCommand'
  <2> SUFFICES ASSUME OwnCommand, [Next]_simVars PROVE OwnCommand'
    OBVIOUS
  <2>1. CASE UNCHANGED target_q
    BY <2>1 DEF OwnCommand
  <2>2. CASE Step
    <3>1. ASSUME NEW j \in Names(CmdJoints) PROVE CmdJoints[Position(CmdJoints, j)] = j
      BY DEF Names, Position
    <3>2. ASSUME NEW j \in Names(ModelJoints) \cap Names(CmdJoints) PROVE target_q'[j] = j
      <4>1. joint_state_index_map'[j] = Position(CmdJoints, j)
        BY <2>2 DEF Step, WriteMotorCmd
      <4>2. target_q'[j] = CmdJoints[joint_state_index_map'[j]]
        BY <2>2 DEF Step, WriteMotorCmd
      <4>3. QED BY <3>1, <4>1, <4>2
    <3>3. DOMAIN target_q' = Names(ModelJoints)
      BY <2>2 DEF Step, WriteMotorCmd
    <3>4. QED BY <3>2, <3>3 DEF OwnCommand
  <2>3. CASE Prepare \/ RenderLoop
    BY <2>1, <2>3 DEF Prepare, RenderLoop, Test, Frame, Draw, Leave, cmdVars
  <2>4. CASE Main \/ ShutdownFlag
    BY <2>1, <2>4 DEF Main, ShutdownFlag, Launch, Load, NoModel, Loaded, Started, ShutdownExit,
                      ShutdownSeen, ShutdownGivesUp, ShutdownFree, MainStep, cmdVars
  <2>5. CASE WarmUp \/ CmdBegin \/ CmdLock \/ Publish
    BY <2>1, <2>5 DEF WarmUp, CmdBegin, CmdLock, Publish
  <2>6. CASE UNCHANGED simVars
    BY <2>1, <2>6 DEF simVars, cmdVars
  <2>7. QED BY <2>2, <2>3, <2>4, <2>5, <2>6 DEF Next, CmdCallback
<1>3. QED BY <1>1, <1>2, PTL DEF Spec

(* "If the window has been closed, RenderLoop has set 2 already: do not    *)
(* overwrite" (sim_module.cc:104): Shutdown waits in vain, and leaves the  *)
(* model, only for a render thread that is still in its loop.              *)
THEOREM GivesUpOnlyOnRenderHolds == Spec => GivesUpOnlyOnRender
<1>1. IInv /\ [Next]_simVars => [mpc' = "gave_up" => mpc = "gave_up" \/ rpc # "ended"]_simVars
  <2> SUFFICES ASSUME IInv, [Next]_simVars, mpc' = "gave_up", mpc # "gave_up"
               PROVE  rpc # "ended"
    OBVIOUS
  <2>1. CASE ShutdownGivesUp
    BY <2>1 DEF ShutdownGivesUp, IInv, Ended
  <2>2. CASE UNCHANGED mpc
    BY <2>2
  <2>3. CASE Prepare \/ RenderLoop
    BY <2>2, <2>3 DEF Prepare, RenderLoop, Test, Frame, Draw, Leave
  <2>4. CASE WarmUp \/ CmdBegin \/ CmdCallback
    BY <2>2, <2>4 DEF WarmUp, CmdBegin, CmdCallback, CmdLock, Step, Publish, CmdStep
  <2>5. CASE Launch \/ Load \/ NoModel \/ Loaded \/ Started \/ ShutdownFlag
    BY <2>5 DEF Launch, Load, NoModel, Loaded, Started, ShutdownFlag, MainStep
  <2>6. CASE ShutdownExit \/ ShutdownSeen \/ ShutdownFree
    BY <2>6 DEF ShutdownExit, ShutdownSeen, ShutdownFree, MainStep
  <2>7. CASE UNCHANGED simVars
    BY <2>2, <2>7 DEF simVars
  <2>8. QED BY <2>1, <2>3, <2>4, <2>5, <2>6, <2>7 DEF Next, Main
<1>2. QED BY <1>1, Invariant, PTL DEF Spec, GivesUpOnlyOnRender
=============================================================================
