----------------------------- MODULE SimModule ------------------------------
(***************************************************************************)
(* The simulator that stands in for the robot: SimModule (sim_module.cc)   *)
(* around the viewer's RenderLoop (simulate.cc).                           *)
(*                                                                         *)
(* Three threads share one MuJoCo model: the main thread (Start waits for  *)
(* the render thread to load the model into the viewer, Shutdown frees     *)
(* it), the render thread, which reads the model in every frame, and the   *)
(* control thread, whose CmdCallback steps it and publishes the result     *)
(* under the viewer's mutex.  The window may be closed at any frame.       *)
(*                                                                         *)
(* What a thread does in one hold of the mutex is one step, unless it      *)
(* publishes.  Physics and drawing are external.                           *)
(***************************************************************************)
EXTENDS Naturals, Sequences

CONSTANTS
  ModelJoints,  \* joint_names_, in the model's order
  CmdJoints     \* the names of a JointCommand, in the controller's order

VARIABLES
  mpc, rpc, cpc,              \* main, render and control thread
  running,                    \* running_
  is_render_thread_running,
  model,                      \* m_ and d_ of the module: "none", "live", "freed"
  mtx,                        \* sim_->mtx between steps: "free" or "control"
  loadrequest, exitrequest,   \* of the viewer
  closed,                     \* the window is to close
  shown,                      \* the viewer holds the model
  warm,                       \* three seconds since Initialize
  joint_state_index_map,
  target_q                    \* joint -> the joint whose command it follows

viewerVars == <<loadrequest, exitrequest, closed, shown>>
cmdVars == <<cpc, mtx, warm, joint_state_index_map, target_q>>
simVars == <<mpc, rpc, running, is_render_thread_running, model, viewerVars, cmdVars>>

Init ==
  /\ mpc = "start" /\ rpc = "none" /\ cpc = "idle"
  /\ running = FALSE /\ is_render_thread_running = FALSE
  /\ model = "none" /\ mtx = "free"
  /\ loadrequest = 0 /\ exitrequest = 0 /\ closed = FALSE /\ shown = FALSE
  /\ warm = FALSE
  /\ joint_state_index_map = <<>> /\ target_q = <<>>

Alive == mpc # "crashed"   \* the process
-----------------------------------------------------------------------------
(* The render thread *)

(* The job: a viewer, "loading", and the model, unless it cannot be read. *)
Prepare ==
  /\ rpc = "load"
  /\ loadrequest' = 3
  /\ model' \in {"none", "live"}
  /\ is_render_thread_running' = TRUE
  /\ rpc' = "test"
  /\ UNCHANGED <<mpc, running, exitrequest, closed, shown, cmdVars>>

Test ==
  /\ rpc = "test"
  /\ rpc' = IF closed \/ exitrequest # 0 THEN "leave" ELSE "frame"
  /\ UNCHANGED <<mpc, running, is_render_thread_running, model, viewerVars, cmdVars>>

(* PollEvents: nothing, the window is closed, or Quit is chosen. *)
PollEvents ==
  \/ UNCHANGED <<closed, exitrequest>>
  \/ closed' = TRUE /\ UNCHANGED exitrequest
  \/ exitrequest' = 1 /\ UNCHANGED closed

(* The viewer takes the model over, and Load is notified. *)
LoadOnRenderThread == loadrequest' = 0 /\ shown' = TRUE

(* Mutant of LoadStep: the request is taken, the model is not. *)
LoadStepForgets ==
  IF loadrequest \in {1, 2}
  THEN loadrequest' = 1 /\ UNCHANGED shown
  ELSE UNCHANGED <<loadrequest, shown>>

(* One frame shows "LOADING...", the next loads. *)
LoadStep ==
  CASE loadrequest = 1 -> LoadOnRenderThread
    [] loadrequest = 2 -> loadrequest' = 1 /\ UNCHANGED shown
    [] OTHER -> UNCHANGED <<loadrequest, shown>>

Frame ==
  /\ rpc = "frame" /\ mtx = "free"
  /\ LoadStep /\ PollEvents
  /\ rpc' = "draw"
  /\ UNCHANGED <<mpc, running, is_render_thread_running, model, cmdVars>>

(* Render, outside of the mutex. *)
Draw ==
  /\ rpc = "draw"
  /\ rpc' = "test"
  /\ UNCHANGED <<mpc, running, is_render_thread_running, model, viewerVars, cmdVars>>

Leave ==
  /\ rpc = "leave" /\ mtx = "free"
  /\ exitrequest' = 2
  /\ rpc' = "ended"
  /\ UNCHANGED <<mpc, running, is_render_thread_running, model, loadrequest, closed, shown, cmdVars>>

RenderLoop == Alive /\ (Test \/ Frame \/ Draw \/ Leave)
-----------------------------------------------------------------------------
(* The main thread: Start *)

MainStep(from, to) ==
  /\ mpc = from /\ mpc' = to
  /\ UNCHANGED cmdVars

Launch ==
  /\ MainStep("start", "wait")
  /\ rpc' = "load"
  /\ UNCHANGED <<running, is_render_thread_running, model, viewerVars>>

(* Load asks the render thread, and waits on cond_loadrequest. *)
Load ==
  /\ MainStep("wait", "loading")
  /\ is_render_thread_running /\ model = "live" /\ mtx = "free"
  /\ loadrequest' = 2
  /\ UNCHANGED <<rpc, running, is_render_thread_running, model, exitrequest, closed, shown>>

(* Without a model there are no joint names to read: m_ is null. *)
NoModel ==
  /\ MainStep("wait", "crashed")
  /\ is_render_thread_running /\ model = "none" /\ mtx = "free"
  /\ loadrequest' = 0
  /\ UNCHANGED <<rpc, running, is_render_thread_running, model, exitrequest, closed, shown>>

Loaded ==
  /\ MainStep("loading", "names")
  /\ loadrequest = 0 /\ mtx = "free"
  /\ UNCHANGED <<rpc, running, is_render_thread_running, model, viewerVars>>

(* The joints' names and vectors, then running_. *)
Started ==
  /\ MainStep("names", "up")
  /\ running' = TRUE
  /\ UNCHANGED <<rpc, is_render_thread_running, model, viewerVars>>
-----------------------------------------------------------------------------
(* The main thread: Shutdown *)

ShutdownFlag ==
  /\ MainStep("up", "exit")
  /\ running' = FALSE
  /\ UNCHANGED <<rpc, is_render_thread_running, model, viewerVars>>

(* compare_exchange *)
ShutdownExit ==
  /\ MainStep("exit", "await")
  /\ exitrequest' = IF exitrequest = 0 THEN 1 ELSE exitrequest
  /\ UNCHANGED <<rpc, running, is_render_thread_running, model, loadrequest, closed, shown>>

ShutdownSeen ==
  /\ MainStep("await", "free")
  /\ exitrequest = 2
  /\ UNCHANGED <<rpc, running, is_render_thread_running, model, viewerVars>>

(* Mutant of ShutdownGivesUp: after two seconds the model is freed anyway. *)
ShutdownGivesUpAndFrees ==
  /\ MainStep("await", "free")
  /\ exitrequest # 2
  /\ UNCHANGED <<rpc, running, is_render_thread_running, model, viewerVars>>

(* Two seconds have passed: Shutdown returns and frees nothing. *)
ShutdownGivesUp ==
  /\ MainStep("await", "gave_up")
  /\ exitrequest # 2
  /\ UNCHANGED <<rpc, running, is_render_thread_running, model, viewerVars>>

ShutdownFree ==
  /\ MainStep("free", "down")
  /\ mtx = "free"
  /\ model' = "freed"
  /\ UNCHANGED <<rpc, running, is_render_thread_running, viewerVars>>

Main ==
  Launch \/ Load \/ NoModel \/ Loaded \/ Started
    \/ ShutdownExit \/ ShutdownSeen \/ ShutdownGivesUp \/ ShutdownFree
-----------------------------------------------------------------------------
(* The control thread: CmdCallback *)

WarmUp ==
  /\ ~ warm
  /\ warm' = TRUE
  /\ UNCHANGED <<mpc, rpc, running, is_render_thread_running, model, viewerVars,
                 cpc, mtx, joint_state_index_map, target_q>>

CmdStep(from, to) ==
  /\ cpc = from /\ cpc' = to
  /\ UNCHANGED <<mpc, rpc, running, is_render_thread_running, model, viewerVars, warm>>

CmdBegin ==
  /\ CmdStep("idle", "lock")
  /\ running /\ warm
  /\ UNCHANGED <<mtx, joint_state_index_map, target_q>>

(* running_ and d_ are looked at again under the mutex. *)
CmdLock ==
  /\ cpc = "lock" /\ mtx = "free"
  /\ \/ /\ running /\ model = "live"
        /\ CmdStep("lock", "step")
        /\ mtx' = "control"
     \/ /\ ~ (running /\ model = "live")
        /\ CmdStep("lock", "idle")
        /\ UNCHANGED mtx
  /\ UNCHANGED <<joint_state_index_map, target_q>>

Names(s) == {s[n] : n \in DOMAIN s}
Position(s, j) == CHOOSE n \in DOMAIN s : s[n] = j

(* The map is written from the command's names, and read for the model's:  *)
(* a name it does not hold reads as the first index.                       *)
WriteMotorCmd ==
  /\ joint_state_index_map' = [j \in Names(CmdJoints) |-> Position(CmdJoints, j)]
  /\ target_q' = [j \in Names(ModelJoints) |->
                    CmdJoints[IF j \in Names(CmdJoints) THEN joint_state_index_map'[j] ELSE 1]]

(* The motors' commands, a step of the physics, and the sensors. *)
Step ==
  /\ CmdStep("step", "publish")
  /\ WriteMotorCmd
  /\ UNCHANGED mtx

(* Both messages are handled inline, the mutex held. *)
Publish ==
  /\ CmdStep("publish", "idle")
  /\ mtx' = "free"
  /\ UNCHANGED <<joint_state_index_map, target_q>>

CmdCallback == Alive /\ (CmdLock \/ Step \/ Publish)

Next == (Alive /\ (Prepare \/ Main \/ ShutdownFlag \/ WarmUp \/ CmdBegin)) \/ RenderLoop \/ CmdCallback

(* All threads go on; nobody owes a command, a closed window or a shutdown. *)
Fairness ==
  /\ WF_simVars(Alive /\ Prepare)
  /\ WF_simVars(RenderLoop)
  /\ WF_simVars(Alive /\ Main)
  /\ WF_simVars(CmdCallback)

Spec == Init /\ [][Next]_simVars /\ Fairness
-----------------------------------------------------------------------------
(* Types. *)
TypeOK ==
  /\ mpc \in {"start", "wait", "loading", "names", "up", "exit", "await", "free",
              "down", "gave_up", "crashed"}
  /\ rpc \in {"none", "load", "test", "frame", "draw", "leave", "ended"}
  /\ cpc \in {"idle", "lock", "step", "publish"}
  /\ running \in BOOLEAN /\ is_render_thread_running \in BOOLEAN
  /\ model \in {"none", "live", "freed"} /\ mtx \in {"free", "control"}
  /\ loadrequest \in 0 .. 3 /\ exitrequest \in 0 .. 2
  /\ closed \in BOOLEAN /\ shown \in BOOLEAN /\ warm \in BOOLEAN

(* Shutdown frees the model only when no frame and no step can still read  *)
(* it ("before freeing m_/d_", "to avoid use-after-free").                 *)
NoUseAfterFree ==
  model = "freed" => rpc = "ended" /\ cpc \notin {"step", "publish"}

(* A command steps only a model that Start has finished with: loaded into  *)
(* the viewer, its joints named.                                           *)
StepsWholeModel ==
  cpc \in {"step", "publish"} => model = "live" /\ shown /\ mpc \notin {"start", "wait", "loading", "names"}

(* A joint of the model that the command names follows its own entry,      *)
(* whatever the two orders are.                                            *)
OwnCommand ==
  \A j \in DOMAIN target_q \cap Names(CmdJoints) : target_q[j] = j

(* Shutdown gives up freeing only while the render thread is still there:  *)
(* a window closed before must not be mistaken for one that hangs.         *)
GivesUpOnlyOnRender ==
  [][mpc' = "gave_up" => mpc = "gave_up" \/ rpc # "ended"]_simVars

(* Start returns, unless the window is closed before the model is in it:   *)
(* Load waits for a frame that then never comes.                           *)
StartReturns ==
  mpc = "wait" ~> (mpc \in {"up", "crashed"} \/ rpc = "ended")
=============================================================================
