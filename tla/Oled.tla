-------------------------------- MODULE Oled --------------------------------
(***************************************************************************)
(* OledModule: the UI loop that takes the events of GpioThreadFunc from    *)
(* the queue, moves through the menu, sleeps when left alone and draws on  *)
(* the panel, the stats thread, and the life cycle from Initialize to      *)
(* Shutdown, which blanks the panel without waiting for the UI loop.       *)
(*                                                                         *)
(* A frame is the page it shows.  A write to the panel may fail, and no    *)
(* caller looks at the result.                                             *)
(***************************************************************************)
EXTENDS KeySource

CONSTANTS
  Menu,        \* kMenuItems: the screens in their order
  NumJoints,   \* joints in a message of /joint_states
  MaxScroll,   \* bound: where the unclamped offset of "Joystick" is held
  MaxQueue     \* bound: the operator waits while this many events are queued

Screen == {"JointState", "IMU", "Joystick", "Log", "SBC"}
ASSUME OledAssumption ==
  /\ Menu \in Seq(Screen) /\ Len(Menu) > 0 /\ NumJoints \in Nat /\ MaxScroll \in Nat
  /\ MaxQueue \in Nat

NoEvent == "none"
Blank   == <<"blank">>
Old     == <<"old">>
NoBar   == [y |-> 10, h |-> 0]

VARIABLES
  mpc,      \* the main thread: "new", "ready", "failed", "started", "push", "join", "returned"
  lpc,      \* MainLoop: "init", "pop", "recheck", "handle", "clear", "draw", "stopped"
  spc,      \* StatsThreadFunc: "init", "run", "ended"
  ev,       \* ev_opt
  ui,       \* ui_ctx_
  idle,     \* sleep_timeout_ has passed since touch()
  joints,   \* shared_data_.joints.size()
  panel,    \* the display: switched on, the page in its memory
  bar,      \* the scroll bar last drawn
  failed,   \* the kinds of write whose last one failed
  late      \* Shutdown blanked the panel during an iteration of MainLoop

uiVars   == <<lpc, ev, ui, idle, panel, bar, failed>>
oledVars == <<mpc, lpc, spc, ev, ui, idle, joints, panel, bar, failed, late>>
vars     == <<sourceVars, oledVars>>

Init ==
  /\ SourceInit
  /\ mpc = "new" /\ lpc = "init" /\ spc = "init"
  /\ ev = NoEvent /\ idle = FALSE /\ joints = 0
  /\ ui = [state |-> "SLEEPING", menu_sel |-> 0, screen_idx |-> 0, scroll_offset |-> 0]
  /\ panel = [on |-> TRUE, shown |-> Old]
  /\ bar = NoBar /\ failed = {} /\ late = FALSE
-----------------------------------------------------------------------------
(* OledDriver and I2CDevice: w is what the panel becomes if the writes of  *)
(* the given kinds ("sleep", "frame") get through, each on its own.  A     *)
(* frame that does not leaves a page that is out of date.                  *)
Write(kinds, w) ==
  \E lost \in SUBSET kinds :
    /\ panel' = [on    |-> IF "sleep" \in kinds \ lost THEN w.on ELSE panel.on,
                 shown |-> IF "frame" \in lost THEN Old
                          ELSE IF "frame" \in kinds THEN w.shown ELSE panel.shown]
    /\ failed' = (failed \ kinds) \cup lost

(* renderUI: the page of a state. *)
Frame(u) ==
  CASE u.state = "SLEEPING" -> Blank
    [] u.state = "MAIN"     -> <<"MAIN">>
    [] u.state = "MENU"     -> <<"MENU", u.menu_sel>>
    [] u.state = "SCREEN"   -> <<"SCREEN", u.screen_idx, u.scroll_offset>>

Shown(u) == Menu[u.screen_idx + 1]
MaxOf(a, b) == IF a > b THEN a ELSE b
MinOf(a, b) == IF a < b THEN a ELSE b

(* The height a screen would need, of the 54 rows below the title. *)
ContentH(screen) ==
  CASE screen = "JointState" -> ((joints + 1) \div 2) * 17
    [] screen = "IMU"        -> 60
    [] screen = "SBC"        -> 58
    [] OTHER                 -> 0

(* Mutant of Clamp: the renderer draws at whatever offset it is given. *)
ClampNot(u) == u.scroll_offset

(* Each screen clamps the offset to its content as it is now; renderLog to *)
(* its lines, of which there are none (nothing calls pushLog), and         *)
(* renderJoystick not at all.                                              *)
Clamp(u) ==
  IF Shown(u) = "Joystick" THEN u.scroll_offset
  ELSE MinOf(u.scroll_offset, MaxOf(0, ContentH(Shown(u)) - 54))

drawScrollbar(u) ==
  LET h == ContentH(Shown(u))
      b == MaxOf(6, (54 * 54) \div h)
  IN  IF h <= 54 THEN NoBar
      ELSE [y |-> 10 + (u.scroll_offset * (54 - b)) \div (h - 54), h |-> b]
-----------------------------------------------------------------------------
(* MainLoop *)

(* handleEvent on a UI that is awake. *)
Navigate(e) ==
  LET n == Len(Menu)
  IN  CASE ui.state = "MAIN" /\ e # "BTN_BACK" -> [ui EXCEPT !.state = "MENU"]
        [] ui.state = "MENU" /\ e = "ENC_CW"   -> [ui EXCEPT !.menu_sel = (@ + 1) % n]
        [] ui.state = "MENU" /\ e = "ENC_CCW"  -> [ui EXCEPT !.menu_sel = (@ + n - 1) % n]
        [] ui.state = "MENU" /\ e = "ENC_PUSH" ->
             [ui EXCEPT !.screen_idx = ui.menu_sel, !.state = "SCREEN", !.scroll_offset = 0]
        [] ui.state = "MENU" /\ e = "BTN_BACK" -> [ui EXCEPT !.state = "MAIN"]
        [] ui.state = "SCREEN" /\ e = "ENC_CW" ->
             [ui EXCEPT !.scroll_offset = MinOf(@ + 8, MaxScroll)]
        [] ui.state = "SCREEN" /\ e = "ENC_CCW" ->
             [ui EXCEPT !.scroll_offset = MaxOf(0, @ - 8)]
        [] ui.state = "SCREEN" /\ e \in {"ENC_PUSH", "BTN_BACK"} ->
             [ui EXCEPT !.state = "MENU", !.scroll_offset = 0]
        [] OTHER -> ui

(* Mutant of Pop: for (;;), woken by nothing but an event.                  *)
PopForever ==
  /\ lpc = "pop" /\ q # <<>>
  /\ ev' = Head(q) /\ q' = Tail(q) /\ lpc' = "recheck"
  /\ UNCHANGED <<source, run_flag, mpc, spc, ui, idle, joints, panel, bar, failed, late>>

(* while (run_flag_) and pop(200ms): an event, or none after 200 ms. *)
Pop ==
  /\ lpc = "pop"
  /\ \/ ~ run_flag /\ lpc' = "stopped" /\ UNCHANGED <<ev, q>>
     \/ /\ run_flag /\ lpc' = "recheck"
        /\ \/ q # <<>> /\ ev' = Head(q) /\ q' = Tail(q)
           \/ q = <<>> /\ ev' = NoEvent /\ UNCHANGED q
  /\ UNCHANGED <<source, run_flag, mpc, spc, ui, idle, joints, panel, bar, failed, late>>

(* handleEvent: any event touches the context, and the one that finds the  *)
(* UI asleep does nothing but wake it.                                     *)
handleEvent ==
  /\ idle' = FALSE
  /\ IF ui.state = "SLEEPING"
       THEN /\ ui' = [ui EXCEPT !.state = "MAIN"]
            /\ Write({"sleep"}, [on |-> TRUE])
            /\ lpc' = "clear"
       ELSE /\ ui' = Navigate(ev)
            /\ lpc' = "draw" /\ UNCHANGED <<panel, failed>>

(* Mutant of Recheck: run_flag_ is not looked at again after the wait. *)
RecheckNot ==
  /\ lpc = "recheck"
  /\ lpc' = "handle"
  /\ UNCHANGED <<sourceVars, mpc, spc, ev, ui, idle, joints, panel, bar, failed, late>>

(* if (!run_flag_) break; *)
Recheck ==
  /\ lpc = "recheck"
  /\ lpc' = IF run_flag THEN "handle" ELSE "stopped"
  /\ UNCHANGED <<sourceVars, mpc, spc, ev, ui, idle, joints, panel, bar, failed, late>>

Handle ==
  /\ lpc = "handle" /\ ev' = NoEvent
  /\ IF ev # NoEvent THEN handleEvent
     ELSE lpc' = "draw" /\ UNCHANGED <<ui, idle, panel, failed>>
  /\ UNCHANGED <<sourceVars, mpc, spc, joints, bar, late>>

(* What was queued up to now, the bounces of the waking press and whatever *)
(* else, Shutdown's BTN_BACK too.                                          *)
ClearQueue ==
  /\ lpc = "clear"
  /\ lpc' = "draw" /\ q' = <<>>
  /\ UNCHANGED <<source, run_flag, mpc, spc, ev, ui, idle, joints, panel, bar, failed, late>>

AutoSleep ==
  /\ lpc = "draw" /\ ui.state # "SLEEPING" /\ idle
  /\ ui' = [ui EXCEPT !.state = "SLEEPING"]
  /\ Write({"sleep", "frame"}, [on |-> FALSE, shown |-> Blank])
  /\ bar' = NoBar /\ lpc' = "pop"
  /\ UNCHANGED <<sourceVars, mpc, spc, ev, idle, joints, late>>

(* renderUI of a snapshot, or nothing when asleep. *)
Render ==
  /\ lpc = "draw" /\ ~ (ui.state # "SLEEPING" /\ idle)
  /\ lpc' = "pop"
  /\ IF ui.state = "SLEEPING" THEN UNCHANGED <<ui, panel, bar, failed>>
     ELSE LET u == IF ui.state = "SCREEN" THEN [ui EXCEPT !.scroll_offset = Clamp(ui)] ELSE ui
          IN  /\ ui' = u
              /\ bar' = IF u.state = "SCREEN" THEN drawScrollbar(u) ELSE NoBar
              /\ Write({"frame"}, [shown |-> Frame(u)])
  /\ UNCHANGED <<sourceVars, mpc, spc, ev, idle, joints, late>>

MainLoop == Pop \/ Recheck \/ Handle \/ ClearQueue \/ AutoSleep \/ Render
-----------------------------------------------------------------------------
(* The two threads of the module, the subscription and the clock *)

(* The operator's events and GpioThreadFunc. *)
GpioThread ==
  /\ Open \/ (Len(q) < MaxQueue /\ Produce) \/ Leave
  /\ UNCHANGED oledVars

(* StatsThreadFunc: a period's readings are published under the mutex. *)
StatsThread ==
  /\ spc = "run" /\ ~ run_flag
  /\ spc' = "ended"
  /\ UNCHANGED <<sourceVars, mpc, uiVars, joints, late>>

(* The subscription of /joint_states. *)
JointStates ==
  /\ mpc = "started" /\ joints # NumJoints
  /\ joints' = NumJoints
  /\ UNCHANGED <<sourceVars, mpc, spc, uiVars, late>>

(* sleep_timeout_ passes. *)
Expire ==
  /\ ui.state # "SLEEPING" /\ ~ idle
  /\ idle' = TRUE
  /\ UNCHANGED <<sourceVars, mpc, lpc, spc, ev, ui, joints, panel, bar, failed, late>>
-----------------------------------------------------------------------------
(* The main thread *)

(* The I2C device is opened and the panel initialised, switched on and     *)
(* cleared; a failure of any of it, or of a subscription, ends here.       *)
Initialize ==
  /\ mpc = "new"
  /\ \/ mpc' = "ready" /\ Write({"frame"}, [shown |-> Blank])
     \/ mpc' = "failed" /\ UNCHANGED <<panel, failed>>
  /\ UNCHANGED <<sourceVars, lpc, spc, ev, ui, idle, joints, bar, late>>

Start ==
  /\ mpc = "ready"
  /\ mpc' = "started" /\ lpc' = "pop" /\ spc' = "run" /\ Launch
  /\ ui' = [ui EXCEPT !.state = "SLEEPING"]
  /\ Write({"sleep"}, [on |-> FALSE])
  /\ UNCHANGED <<ev, idle, joints, bar, late>>

ShutdownFlag ==
  /\ mpc = "started"
  /\ mpc' = "push" /\ Halt
  /\ UNCHANGED <<uiVars, spc, joints, late>>

ShutdownPush ==
  /\ mpc = "push"
  /\ mpc' = "join" /\ Wake
  /\ UNCHANGED <<uiVars, spc, joints, late>>

(* Once the two threads of the module are joined the panel is blanked and  *)
(* switched off; MainLoop, on its executor, is not waited for.             *)
ShutdownBlank ==
  /\ mpc = "join" /\ source = "ended" /\ spc = "ended"
  /\ mpc' = "returned"
  /\ Write({"sleep", "frame"}, [on |-> FALSE, shown |-> Blank])
  /\ late' = (lpc \in {"handle", "clear", "draw"})
  /\ UNCHANGED <<sourceVars, lpc, spc, ev, ui, idle, joints, bar>>

Shutdown == ShutdownPush \/ ShutdownBlank

Next ==
  \/ GpioThread \/ MainLoop \/ StatsThread \/ JointStates \/ Expire
  \/ Initialize \/ Start \/ ShutdownFlag \/ Shutdown

Ends == Leave /\ UNCHANGED oledVars

(* The threads run, time passes, and a Shutdown that has begun goes on.    *)
(* Nothing obliges the operator, nor the framework to begin or to end.     *)
Spec ==
  /\ Init /\ [][Next]_vars
  /\ WF_vars(Open /\ UNCHANGED oledVars) /\ WF_vars(Ends) /\ WF_vars(MainLoop)
  /\ WF_vars(StatsThread) /\ WF_vars(Expire) /\ WF_vars(Shutdown)
-----------------------------------------------------------------------------
(* Types; a screen index always names a screen. *)
TypeOK ==
  /\ source \in {"init", "open", "poll", "ended"} /\ q \in Seq(Event) /\ run_flag \in BOOLEAN
  /\ mpc \in {"new", "ready", "failed", "started", "push", "join", "returned"}
  /\ lpc \in {"init", "pop", "recheck", "handle", "clear", "draw", "stopped"}
  /\ spc \in {"init", "run", "ended"}
  /\ ev \in Event \cup {NoEvent} /\ idle \in BOOLEAN /\ joints \in {0, NumJoints}
  /\ ui \in [state : {"SLEEPING", "MAIN", "MENU", "SCREEN"},
             menu_sel : 0 .. Len(Menu) - 1, screen_idx : 0 .. Len(Menu) - 1,
             scroll_offset : 0 .. MaxScroll]
  /\ panel.on \in BOOLEAN
  /\ failed \subseteq {"sleep", "frame"} /\ late \in BOOLEAN

(* handleEvent leaves the upper limit of the offset to the renderer, whose *)
(* content may have changed since: the scroll bar stays in its track, and  *)
(* no clamped screen is left scrolled beyond its content.                  *)
BarInTrack ==
  /\ bar.y >= 10 /\ bar.y + bar.h <= 64
  /\ lpc = "pop" /\ ui.state = "SCREEN" /\ Shown(ui) # "Joystick" =>
       ui.scroll_offset <= MaxOf(0, ContentH(Shown(ui)) - 54)

(* "Blank display on shutdown": MainLoop is not joined, but it looks at    *)
(* run_flag_ again after each wait, so that the panel stays off unless     *)
(* Shutdown caught it past that test, or a write failed.                   *)
DarkAfterShutdown ==
  mpc = "returned" /\ ~ late /\ failed = {} => ~ panel.on /\ panel.shown = Blank

(* Shutdown returns and MainLoop ends, although the event pushed to wake   *)
(* the loop can be among those ClearQueue throws away.                     *)
ShutdownReturns == mpc = "join" ~> (mpc = "returned" /\ lpc = "stopped")
=============================================================================
