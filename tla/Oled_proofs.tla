---------------------------- MODULE Oled_proofs ----------------------------
(***************************************************************************)
(* Proofs about the display: the UI loop, the scroll bar and Shutdown, for *)
(* any menu, number of joints and queue; and the controls whose events it  *)
(* takes, which implement KeySource.                                       *)
(***************************************************************************)
EXTENDS Oled, Gpio, SequenceTheorems, TLAPS

(* The life of the module: from Shutdown on the flag stays cleared, and    *)
(* the UI loop has begun before.                                           *)
Life ==
  /\ mpc \in {"push", "join", "returned"} => ~ run_flag
  /\ mpc \in {"started", "push", "join", "returned"} => lpc # "init"
  /\ mpc \in {"new", "ready", "failed"} => lpc = "init" /\ ui.state = "SLEEPING"

(* Nothing draws on a panel that was blanked in time. *)
Darkened ==
  mpc = "returned" /\ ~ late =>
    /\ lpc \in {"pop", "recheck", "stopped"}
    /\ failed = {} => ~ panel.on /\ panel.shown = Blank

IInv == TypeOK /\ Life /\ Darkened /\ BarInTrack

(* The quotient of a part of the content is the same part of the track. *)
LEMMA Quotient ==
  ASSUME NEW s \in Nat, NEW d \in Nat \ {0}, NEW c \in Nat, s <= d
  PROVE  (s * c) \div d \in 0 .. c
<1> DEFINE k == (s * c) \div d
           r == (s * c) % d
<1>1. s * c \in Nat /\ s * c <= d * c
  BY Z3
<1>2. k \in Int /\ r \in 0 .. d - 1 /\ s * c = k * d + r
  BY <1>1
<1> HIDE DEF k, r
<1>3. k <= c
  <2>1. SUFFICES ASSUME k >= c + 1 PROVE FALSE
    BY <1>2
  <2>2. k * d >= (c + 1) * d
    BY <1>2, <2>1
  <2>3. QED
    BY <1>1, <1>2, <2>2
<1>4. k >= 0
  <2>1. SUFFICES ASSUME k <= -1 PROVE FALSE
    BY <1>2
  <2>2. k * d <= (-1) * d
    BY <1>2, <2>1
  <2>3. QED
    BY <1>1, <1>2, <2>2
<1>5. QED
  BY <1>2, <1>3, <1>4 DEF k

(* The height of a screen's content. *)
LEMMA Heights ==
  ASSUME joints \in Nat, NEW screen \in Screen
  PROVE  ContentH(screen) \in Nat
  BY DEF ContentH, Screen

(* The bar of an offset within the content lies in the track. *)
LEMMA BarDrawn ==
  ASSUME joints \in Nat, NEW u, Shown(u) \in Screen, u.scroll_offset \in Nat,
         ContentH(Shown(u)) > 54 => u.scroll_offset <= ContentH(Shown(u)) - 54
  PROVE  drawScrollbar(u).y >= 10 /\ drawScrollbar(u).y + drawScrollbar(u).h <= 64
<1> DEFINE h == ContentH(Shown(u))
           b == MaxOf(6, (54 * 54) \div h)
           s == u.scroll_offset
<1>1. h \in Nat
  BY Heights
<1> HIDE DEF h
<1>2. CASE h <= 54
  BY <1>2 DEF drawScrollbar, NoBar, h
<1>3. CASE h > 54
  <2>1. (54 * 54) \div h \in 0 .. 53
    BY <1>1, <1>3
  <2>2. b \in 6 .. 53 /\ 54 - b \in Nat
    BY <2>1 DEF MaxOf
  <2>3. s \in Nat /\ h - 54 \in Nat \ {0} /\ s <= h - 54
    BY <1>1, <1>3 DEF h
  <2> HIDE DEF b, s
  <2>4. (s * (54 - b)) \div (h - 54) \in 0 .. (54 - b)
    BY <2>2, <2>3, Quotient
  <2>5. drawScrollbar(u) = [y |-> 10 + (s * (54 - b)) \div (h - 54), h |-> b]
    BY <1>3, <1>1 DEF drawScrollbar, h, b, s
  <2>6. QED
    BY <2>2, <2>4, <2>5
<1>4. QED
  BY <1>1, <1>2, <1>3

(* A write leaves the panel with a switch that is on or off. *)
LEMMA Written ==
  ASSUME TypeOK, NEW kinds \in SUBSET {"sleep", "frame"}, NEW w, Write(kinds, w),
         "sleep" \in kinds => w.on \in BOOLEAN
  PROVE  panel'.on \in BOOLEAN /\ failed' \subseteq {"sleep", "frame"}
  BY DEF TypeOK, Write

(* A blanking of which nothing failed leaves the panel dark. *)
LEMMA Blanked ==
  ASSUME TypeOK, Write({"sleep", "frame"}, [on |-> FALSE, shown |-> Blank]), failed' = {}
  PROVE  ~ panel'.on /\ panel'.shown = Blank
  BY DEF TypeOK, Write

(* handleEvent keeps the indices within the menu, forwards and backwards. *)
LEMMA Navigated ==
  ASSUME TypeOK, NEW e \in Event
  PROVE  Navigate(e) \in [state : {"SLEEPING", "MAIN", "MENU", "SCREEN"},
                          menu_sel : 0 .. Len(Menu) - 1, screen_idx : 0 .. Len(Menu) - 1,
                          scroll_offset : 0 .. MaxScroll]
<1> DEFINE n == Len(Menu)
           UI == [state : {"SLEEPING", "MAIN", "MENU", "SCREEN"},
                  menu_sel : 0 .. Len(Menu) - 1, screen_idx : 0 .. Len(Menu) - 1,
                  scroll_offset : 0 .. MaxScroll]
<1>1. n \in Nat \ {0} /\ MaxScroll \in Nat /\ ui \in UI
  BY OledAssumption DEF TypeOK
<1>2. ui.menu_sel \in 0 .. n - 1 /\ ui.scroll_offset \in 0 .. MaxScroll
  BY <1>1
<1>3. (ui.menu_sel + 1) % n \in 0 .. n - 1 /\ (ui.menu_sel + n - 1) % n \in 0 .. n - 1
  BY <1>1, <1>2
<1>4. /\ MinOf(ui.scroll_offset + 8, MaxScroll) \in 0 .. MaxScroll
      /\ MaxOf(0, ui.scroll_offset - 8) \in 0 .. MaxScroll
  BY <1>1, <1>2 DEF MinOf, MaxOf
<1>5. /\ [ui EXCEPT !.state = "MENU"] \in UI
      /\ [ui EXCEPT !.state = "MAIN"] \in UI
      /\ [ui EXCEPT !.menu_sel = (@ + 1) % n] \in UI
      /\ [ui EXCEPT !.menu_sel = (@ + n - 1) % n] \in UI
      /\ [ui EXCEPT !.screen_idx = ui.menu_sel, !.state = "SCREEN", !.scroll_offset = 0] \in UI
      /\ [ui EXCEPT !.scroll_offset = MinOf(@ + 8, MaxScroll)] \in UI
      /\ [ui EXCEPT !.scroll_offset = MaxOf(0, @ - 8)] \in UI
      /\ [ui EXCEPT !.state = "MENU", !.scroll_offset = 0] \in UI
  <2>1. /\ [ui EXCEPT !.state = "MENU"] \in UI
        /\ [ui EXCEPT !.state = "MAIN"] \in UI
    BY <1>1
  <2>2. /\ [ui EXCEPT !.menu_sel = (@ + 1) % n] \in UI
        /\ [ui EXCEPT !.menu_sel = (@ + n - 1) % n] \in UI
    BY <1>1, <1>3
  <2>3. [ui EXCEPT !.screen_idx = ui.menu_sel, !.state = "SCREEN", !.scroll_offset = 0] \in UI
    <3>1. [ui EXCEPT !.screen_idx = ui.menu_sel] \in UI
      BY <1>1, <1>2
    <3>2. \A u \in UI : [u EXCEPT !.state = "SCREEN"] \in UI
      OBVIOUS
    <3>3. \A u \in UI : [u EXCEPT !.scroll_offset = 0] \in UI
      BY <1>1
    <3>4. [ui EXCEPT !.screen_idx = ui.menu_sel, !.state = "SCREEN", !.scroll_offset = 0]
            = [[[ui EXCEPT !.screen_idx = ui.menu_sel] EXCEPT !.state = "SCREEN"] EXCEPT !.scroll_offset = 0]
      OBVIOUS
    <3> HIDE DEF UI
    <3>5. QED
      BY <3>1, <3>2, <3>3, <3>4
  <2>4. /\ [ui EXCEPT !.scroll_offset = MinOf(@ + 8, MaxScroll)] \in UI
        /\ [ui EXCEPT !.scroll_offset = MaxOf(0, @ - 8)] \in UI
    BY <1>1, <1>4
  <2>5. [ui EXCEPT !.state = "MENU", !.scroll_offset = 0] \in UI
    <3>1. [ui EXCEPT !.state = "MENU"] \in UI
      BY <1>1
    <3>2. \A u \in UI : [u EXCEPT !.scroll_offset = 0] \in UI
      BY <1>1
    <3>3. [ui EXCEPT !.state = "MENU", !.scroll_offset = 0] = [[ui EXCEPT !.state = "MENU"] EXCEPT !.scroll_offset = 0]
      OBVIOUS
    <3> HIDE DEF UI
    <3>4. QED
      BY <3>1, <3>2, <3>3
  <2>6. QED
    BY <2>1, <2>2, <2>3, <2>4, <2>5
<1> HIDE DEF UI
<1>6. QED
  BY <1>1, <1>5 DEF Navigate, UI

(* Clamping stays below the bound and within the content. *)
LEMMA Clamped ==
  ASSUME TypeOK
  PROVE  /\ Shown(ui) \in Screen /\ joints \in Nat
         /\ Clamp(ui) \in 0 .. MaxScroll
         /\ Shown(ui) # "Joystick" => Clamp(ui) <= MaxOf(0, ContentH(Shown(ui)) - 54)
<1>1. /\ Menu \in Seq(Screen) /\ MaxScroll \in Nat /\ NumJoints \in Nat
      /\ ui.screen_idx \in 0 .. Len(Menu) - 1 /\ ui.scroll_offset \in 0 .. MaxScroll
      /\ joints \in {0, NumJoints}
  BY OledAssumption DEF TypeOK
<1>2. Shown(ui) \in Screen /\ joints \in Nat
  BY <1>1 DEF Shown
<1>3. ContentH(Shown(ui)) \in Nat
  BY <1>2, Heights
<1>4. QED
  BY <1>1, <1>2, <1>3 DEF Clamp, MinOf, MaxOf

(* Types hold before Initialize. *)
LEMMA TypesInit == Init => TypeOK
<1> SUFFICES ASSUME Init PROVE TypeOK
  OBVIOUS
<1>1. 0 \in 0 .. Len(Menu) - 1 /\ 0 \in 0 .. MaxScroll
  BY OledAssumption
<1>2. q \in Seq(Event) /\ source = "init" /\ run_flag = TRUE
  BY DEF Init, SourceInit
<1>3. /\ mpc = "new" /\ lpc = "init" /\ spc = "init" /\ ev = NoEvent /\ idle = FALSE /\ joints = 0
      /\ ui = [state |-> "SLEEPING", menu_sel |-> 0, screen_idx |-> 0, scroll_offset |-> 0]
      /\ panel = [on |-> TRUE, shown |-> Old] /\ failed = {} /\ late = FALSE
  BY DEF Init
<1>4. panel.on \in BOOLEAN
  BY <1>3
<1>5. QED
  BY <1>1, <1>2, <1>3, <1>4 DEF TypeOK

(* Every operation of the module keeps the types. *)
LEMMA TypesStep == TypeOK /\ [Next]_vars => TypeOK'
<1> SUFFICES ASSUME TypeOK, [Next]_vars PROVE TypeOK'
  OBVIOUS
<1> DEFINE UI == [state : {"SLEEPING", "MAIN", "MENU", "SCREEN"},
                  menu_sel : 0 .. Len(Menu) - 1, screen_idx : 0 .. Len(Menu) - 1,
                  scroll_offset : 0 .. MaxScroll]
<1>1. /\ source \in {"init", "open", "poll", "ended"} /\ q \in Seq(Event) /\ run_flag \in BOOLEAN
      /\ mpc \in {"new", "ready", "failed", "started", "push", "join", "returned"}
      /\ lpc \in {"init", "pop", "recheck", "handle", "clear", "draw", "stopped"}
      /\ spc \in {"init", "run", "ended"}
      /\ ev \in Event \cup {NoEvent} /\ idle \in BOOLEAN /\ joints \in {0, NumJoints}
      /\ ui \in UI /\ panel.on \in BOOLEAN
      /\ failed \subseteq {"sleep", "frame"} /\ late \in BOOLEAN
  BY DEF TypeOK
<1>2. \A st \in {"SLEEPING", "MAIN", "MENU", "SCREEN"} : [ui EXCEPT !.state = st] \in UI
  BY <1>1
<1> HIDE DEF UI
<1>3. CASE GpioThread
  <2>1. UNCHANGED oledVars
    BY <1>3 DEF GpioThread
  <2>2. source' \in {"init", "open", "poll", "ended"} /\ q' \in Seq(Event) /\ run_flag' \in BOOLEAN
    <3>1. CASE Open
      <4>1. source' \in {"poll", "ended"} /\ q' = q
        BY <3>1 DEF Open
      <4>2. run_flag' \in BOOLEAN
        BY <1>1, <3>1 DEF Open
      <4>3. QED
        BY <1>1, <4>1, <4>2
    <3>2. CASE Produce
      <4>1. UNCHANGED <<source, run_flag>> /\ \E e \in Event : q' = Append(q, e)
        BY <3>2 DEF Produce, push
      <4>2. q' \in Seq(Event)
        BY <1>1, <4>1
      <4>3. QED
        BY <1>1, <4>1, <4>2
    <3>3. CASE Leave
      BY <1>1, <3>3 DEF Leave
    <3>4. QED
      BY <1>3, <3>1, <3>2, <3>3 DEF GpioThread
  <2>3. QED
    BY <1>1, <2>1, <2>2 DEF oledVars, TypeOK, UI
<1>4. CASE Pop
  <2>1. /\ lpc' \in {"stopped", "recheck"} /\ q' \in Seq(Event) /\ ev' \in Event \cup {NoEvent}
    <3>1. q # <<>> => Head(q) \in Event /\ Tail(q) \in Seq(Event)
      BY <1>1
    <3>2. QED
      BY <1>1, <1>4, <3>1 DEF Pop
  <2>2. QED
    BY <1>1, <1>4, <2>1 DEF Pop, TypeOK, UI
<1>5. CASE Recheck
  BY <1>1, <1>5 DEF Recheck, sourceVars, TypeOK, UI
<1>6. CASE Handle
  <2>1. UNCHANGED <<sourceVars, mpc, spc, joints, bar, late>> /\ ev' = NoEvent
    BY <1>6 DEF Handle
  <2>2. lpc' \in {"draw", "clear"} /\ idle' \in BOOLEAN
    BY <1>1, <1>6 DEF Handle, handleEvent
  <2>3. ui' \in UI
    <3>1. ev \in Event => Navigate(ev) \in UI
      BY Navigated DEF UI
    <3>2. QED
      BY <1>1, <1>2, <1>6, <3>1 DEF Handle, handleEvent
  <2>4. panel'.on \in BOOLEAN /\ failed' \subseteq {"sleep", "frame"}
    <3>1. Write({"sleep"}, [on |-> TRUE]) \/ UNCHANGED <<panel, failed>>
      BY <1>6 DEF Handle, handleEvent
    <3>2. CASE Write({"sleep"}, [on |-> TRUE])
      BY <3>2, Written
    <3>3. QED
      BY <1>1, <3>1, <3>2
  <2>5. QED
    BY <1>1, <2>1, <2>2, <2>3, <2>4 DEF sourceVars, TypeOK, UI
<1>7. CASE ClearQueue
  BY <1>1, <1>7 DEF ClearQueue, TypeOK, UI
<1>8. CASE AutoSleep
  <2>1. panel'.on \in BOOLEAN /\ failed' \subseteq {"sleep", "frame"}
    BY <1>8, Written DEF AutoSleep
  <2>2. ui' \in UI
    BY <1>2, <1>8 DEF AutoSleep
  <2>3. QED
    BY <1>1, <1>8, <2>1, <2>2 DEF AutoSleep, sourceVars, TypeOK, UI
<1>9. CASE Render
  <2>1. panel'.on \in BOOLEAN /\ failed' \subseteq {"sleep", "frame"}
    <3>1. UNCHANGED <<panel, failed>> \/ \E w : Write({"frame"}, w)
      BY <1>9 DEF Render
    <3>2. QED
      BY <1>1, <3>1, Written
  <2>2. ui' \in UI
    <3>1. [ui EXCEPT !.scroll_offset = Clamp(ui)] \in UI
      BY <1>1, Clamped DEF UI
    <3>2. QED
      BY <1>1, <1>9, <3>1 DEF Render
  <2>3. QED
    BY <1>1, <1>9, <2>1, <2>2 DEF Render, sourceVars, TypeOK, UI
<1>10. CASE StatsThread
  BY <1>1, <1>10 DEF StatsThread, sourceVars, uiVars, TypeOK, UI
<1>11. CASE JointStates
  BY <1>1, <1>11 DEF JointStates, sourceVars, uiVars, TypeOK, UI
<1>12. CASE Expire
  BY <1>1, <1>12 DEF Expire, sourceVars, TypeOK, UI
<1>13. CASE Initialize
  <2>1. panel'.on \in BOOLEAN /\ failed' \subseteq {"sleep", "frame"}
    <3>1. UNCHANGED <<panel, failed>> \/ \E w : Write({"frame"}, w)
      BY <1>13 DEF Initialize
    <3>2. QED
      BY <1>1, <3>1, Written
  <2>2. QED
    BY <1>1, <1>13, <2>1 DEF Initialize, sourceVars, TypeOK, UI
<1>14. CASE Start
  <2>1. panel'.on \in BOOLEAN /\ failed' \subseteq {"sleep", "frame"}
    BY <1>14, Written DEF Start
  <2>2. ui' \in UI
    BY <1>2, <1>14 DEF Start
  <2>3. QED
    BY <1>1, <1>14, <2>1, <2>2 DEF Start, Launch, TypeOK, UI
<1>15. CASE ShutdownFlag
  <2>1. run_flag' \in BOOLEAN /\ UNCHANGED <<source, q, uiVars, spc, joints, late>> /\ mpc' = "push"
    BY <1>15 DEF ShutdownFlag, Halt
  <2>2. QED
    BY <1>1, <2>1 DEF uiVars, TypeOK, UI
<1>16. CASE ShutdownPush
  <2>1. q' \in Seq(Event)
    BY <1>1, <1>16 DEF ShutdownPush, Wake, push, Event
  <2>2. QED
    BY <1>1, <1>16, <2>1 DEF ShutdownPush, Wake, uiVars, TypeOK, UI
<1>17. CASE ShutdownBlank
  <2>1. panel'.on \in BOOLEAN /\ failed' \subseteq {"sleep", "frame"}
    BY <1>17, Written DEF ShutdownBlank
  <2>2. QED
    BY <1>1, <1>17, <2>1 DEF ShutdownBlank, sourceVars, TypeOK, UI
<1>18. CASE UNCHANGED vars
  BY <1>1, <1>18 DEF vars, sourceVars, oledVars, TypeOK, UI
<1>19. QED
  BY <1>3, <1>4, <1>5, <1>6, <1>7, <1>8, <1>9, <1>10, <1>11, <1>12, <1>13, <1>14, <1>15, <1>16, <1>17, <1>18
     DEF Next, MainLoop, Shutdown

(* The life of the module, step by step. *)
LEMMA LifeStep == TypeOK /\ Life /\ [Next]_vars => Life'
<1> SUFFICES ASSUME TypeOK, Life, [Next]_vars PROVE Life'
  OBVIOUS
<1>1. CASE GpioThread
  <2>1. run_flag' = run_flag \/ run_flag' = FALSE
    BY <1>1 DEF GpioThread, Open, Produce, Leave
  <2>2. QED
    BY <1>1, <2>1 DEF Life, GpioThread, oledVars
<1>2. CASE Pop
  BY <1>2 DEF Life, Pop
<1>3. CASE Recheck
  BY <1>3 DEF Life, Recheck, sourceVars
<1>4. CASE Handle
  BY <1>4 DEF Life, Handle, handleEvent, sourceVars
<1>5. CASE ClearQueue \/ AutoSleep \/ Render
  BY <1>5 DEF Life, ClearQueue, AutoSleep, Render, sourceVars
<1>6. CASE StatsThread \/ JointStates \/ Expire
  BY <1>6 DEF Life, StatsThread, JointStates, Expire, sourceVars, uiVars
<1>7. CASE Initialize \/ Start
  BY <1>7 DEF Life, Initialize, Start, sourceVars
<1>8. CASE ShutdownFlag \/ ShutdownPush \/ ShutdownBlank
  BY <1>8 DEF Life, ShutdownFlag, ShutdownPush, ShutdownBlank, Halt, Wake, sourceVars, uiVars
<1>9. CASE UNCHANGED vars
  BY <1>9 DEF Life, vars, sourceVars, oledVars
<1>10. QED
  BY <1>1, <1>2, <1>3, <1>4, <1>5, <1>6, <1>7, <1>8, <1>9 DEF Next, MainLoop, Shutdown

(* Once the panel is dark in time it stays so. *)
LEMMA DarkenedStep == TypeOK /\ Life /\ Darkened /\ [Next]_vars => Darkened'
<1> SUFFICES ASSUME TypeOK, Life, Darkened, [Next]_vars, (mpc = "returned" /\ ~ late)'
             PROVE  /\ lpc' \in {"pop", "recheck", "stopped"}
                    /\ failed' = {} => ~ panel'.on /\ panel'.shown = Blank
  BY DEF Darkened
<1>1. CASE ShutdownBlank
  <2>1. lpc \notin {"handle", "clear", "draw"} /\ lpc' = lpc /\ mpc = "join"
    BY <1>1 DEF ShutdownBlank
  <2>2. lpc \in {"pop", "recheck", "stopped"}
    BY <2>1 DEF Life, TypeOK
  <2>3. failed' = {} => ~ panel'.on /\ panel'.shown = Blank
    BY <1>1, Blanked DEF ShutdownBlank
  <2>4. QED
    BY <2>1, <2>2, <2>3
<1>2. CASE ~ ShutdownBlank
  <2>1. mpc = "returned" /\ ~ late
    BY <1>2 DEF Next, MainLoop, Shutdown, GpioThread, Pop, Recheck, Handle, ClearQueue, AutoSleep, Render,
                StatsThread, JointStates, Expire, Initialize, Start, ShutdownFlag, ShutdownPush, vars, oledVars
  <2>2. lpc \in {"pop", "recheck", "stopped"} /\ ~ run_flag
    BY <2>1 DEF Darkened, Life
  <2>3. UNCHANGED <<panel, failed>> /\ lpc' \in {"pop", "recheck", "stopped"}
    BY <1>2, <2>1, <2>2 DEF Next, MainLoop, Shutdown, GpioThread, Pop, Recheck, Handle, ClearQueue, AutoSleep, Render,
                StatsThread, JointStates, Expire, Initialize, Start, ShutdownFlag, ShutdownPush, vars, oledVars, uiVars
  <2>4. QED
    BY <2>1, <2>3 DEF Darkened
<1>3. QED
  BY <1>1, <1>2

(* A screen is left where its content allows, and content only grows. *)
LEMMA BarStep == TypeOK /\ Life /\ BarInTrack /\ [Next]_vars => BarInTrack'
<1> SUFFICES ASSUME TypeOK, Life, BarInTrack, [Next]_vars PROVE BarInTrack'
  OBVIOUS
<1> DEFINE Track(b) == b.y >= 10 /\ b.y + b.h <= 64
           Left == lpc = "pop" /\ ui.state = "SCREEN" /\ Shown(ui) # "Joystick" =>
                     ui.scroll_offset <= MaxOf(0, ContentH(Shown(ui)) - 54)
<1>1. Track(bar) /\ Left /\ Track(NoBar)
  BY DEF BarInTrack, NoBar
<1>2. Track(bar)' /\ Left' => BarInTrack'
  BY DEF BarInTrack
<1>3. CASE Render
  <2>1. lpc' = "pop" /\ joints' = joints
    BY <1>3 DEF Render
  <2>2. CASE ui.state = "SLEEPING"
    <3>1. UNCHANGED <<ui, bar>>
      BY <1>3, <2>2 DEF Render
    <3>2. QED
      BY <1>1, <2>2, <3>1 DEF BarInTrack
  <2>3. CASE ui.state # "SLEEPING" /\ ui.state # "SCREEN"
    <3>1. ui' = ui /\ bar' = NoBar
      BY <1>3, <2>3 DEF Render
    <3>2. QED
      BY <1>1, <2>3, <3>1 DEF BarInTrack
  <2>4. CASE ui.state = "SCREEN"
    <3> DEFINE u == [ui EXCEPT !.scroll_offset = Clamp(ui)]
    <3>1. ui' = u /\ bar' = drawScrollbar(u)
      BY <1>3, <2>4 DEF Render
    <3>2. /\ Shown(ui) \in Screen /\ joints \in Nat /\ MaxScroll \in Nat
          /\ Clamp(ui) \in 0 .. MaxScroll
          /\ Shown(ui) # "Joystick" => Clamp(ui) <= MaxOf(0, ContentH(Shown(ui)) - 54)
      BY Clamped, OledAssumption
    <3>3. u.scroll_offset = Clamp(ui) /\ Shown(u) = Shown(ui)
      BY DEF TypeOK, Shown
    <3> HIDE DEF u
    <3>4. ContentH(Shown(u)) \in Nat
      BY <3>2, <3>3, Heights
    <3>5. ContentH(Shown(u)) > 54 => Clamp(ui) <= ContentH(Shown(u)) - 54
      <4>1. ContentH("Joystick") = 0
        BY DEF ContentH
      <4>2. QED
        BY <3>2, <3>3, <3>4, <4>1 DEF MaxOf
    <3>6. Track(bar')
      BY <3>1, <3>2, <3>3, <3>5, BarDrawn
    <3>7. Left'
      <4>1. \A x \in Screen : ContentH(x)' = ContentH(x)
        BY <2>1 DEF ContentH
      <4>2. Shown(ui') = Shown(ui)
        BY <3>1, <3>3
      <4>3. QED
        BY <3>1, <3>2, <3>3, <4>1, <4>2 DEF Shown
    <3>8. QED
      BY <1>2, <3>6, <3>7
  <2>5. QED
    BY <2>2, <2>3, <2>4
<1>4. CASE JointStates
  <2>1. joints = 0 /\ joints' \in Nat /\ UNCHANGED <<lpc, ui, bar>>
    BY <1>4, OledAssumption DEF JointStates, TypeOK, uiVars
  <2>2. Shown(ui) \in Screen /\ Shown(ui)' = Shown(ui)
    BY <2>1, Clamped DEF Shown
  <2>3. \A x \in Screen : ContentH(x) \in Nat /\ ContentH(x)' \in Nat /\ ContentH(x) <= ContentH(x)'
    BY <2>1 DEF ContentH, Screen
  <2>4. Left'
    BY <1>1, <2>1, <2>2, <2>3 DEF MaxOf, TypeOK
  <2>5. QED
    BY <1>1, <1>2, <2>1, <2>4
<1>5. CASE AutoSleep
  <2>1. bar' = NoBar /\ ui'.state = "SLEEPING"
    BY <1>5 DEF AutoSleep, TypeOK
  <2>2. QED
    BY <1>1, <2>1 DEF BarInTrack
<1>6. CASE Start
  <2>1. bar' = bar /\ ui'.state = "SLEEPING"
    BY <1>6 DEF Start, TypeOK
  <2>2. QED
    BY <1>1, <2>1 DEF BarInTrack
<1>7. CASE UNCHANGED <<bar, ui, joints>> /\ lpc' \in {lpc, "stopped", "recheck", "handle", "draw"}
  <2>1. Left'
    <3>1. ContentH(Shown(ui))' = ContentH(Shown(ui)) /\ Shown(ui)' = Shown(ui)
      BY <1>7 DEF ContentH, Shown
    <3>2. QED
      BY <1>1, <1>7, <3>1
  <2>2. QED
    BY <1>1, <1>2, <1>7, <2>1
<1>8. CASE bar' = bar /\ lpc' # "pop"
  BY <1>1, <1>8 DEF BarInTrack
<1>9. QED
  BY <1>3, <1>4, <1>5, <1>6, <1>7, <1>8
     DEF Next, MainLoop, Shutdown, GpioThread, Pop, Recheck, Handle, handleEvent, ClearQueue,
         StatsThread, Expire, Initialize, ShutdownFlag, ShutdownPush, ShutdownBlank, vars, oledVars, uiVars

(* The panel may show anything before Initialize; no bar is drawn. *)
LEMMA InitIInv == Init => IInv
<1> SUFFICES ASSUME Init PROVE IInv
  OBVIOUS
<1>1. TypeOK
  BY TypesInit
<1>2. Life /\ Darkened
  BY DEF Init, Life, Darkened
<1>3. BarInTrack
  BY DEF Init, BarInTrack, NoBar
<1>4. QED
  BY <1>1, <1>2, <1>3 DEF IInv

(* The inductive invariant: types, the life of the module, and what the    *)
(* panel shows, asleep, awake and blanked.                                 *)
THEOREM Invariant == Spec => []IInv
<1>1. IInv /\ [Next]_vars => IInv'
  BY TypesStep, LifeStep, DarkenedStep, BarStep DEF IInv
<1>2. QED
  BY <1>1, InitIInv, PTL DEF Spec

(* Types; a screen index names a screen, for any menu (oled_module.cc).    *)
THEOREM TypeCorrect == Spec => []TypeOK
BY Invariant, PTL DEF IInv

(* The scroll bar stays in its track and a clamped screen within its       *)
(* content, whatever arrives while it is shown (ui_renderer.cc).           *)
THEOREM BarInTrackHolds == Spec => []BarInTrack
BY Invariant, PTL DEF IInv

(* After Shutdown the panel is dark unless an iteration was under way past *)
(* its last test of run_flag_, or a write failed (OledModule::Shutdown).   *)
THEOREM DarkAfterShutdownHolds == Spec => []DarkAfterShutdown
<1>1. IInv => DarkAfterShutdown
  BY DEF IInv, Darkened, DarkAfterShutdown
<1>2. QED
  BY <1>1, Invariant, PTL
-----------------------------------------------------------------------------
(* The controls. *)

(* Where the line of a contact stands once it has settled, and that a      *)
(* contact is held by the operator who handles it.                         *)
Contacts ==
  /\ chatter \/ closed => hand \in Contact
  /\ \A c \in Contact : (chatter /\ hand = c) \/ (pin[c] = 0 <=> hand = c /\ closed)

(* A press of the push contact is unanswered as long as the thread takes   *)
(* the contact for open, as it does before it first reads it, and through  *)
(* the sleep in which it was made; so is one whose release came in the     *)
(* sleep.  A level to confirm differs from the last one.                   *)
InSleep == gpc = "confirm" /\ chatter /\ began
Unanswered ==
  /\ gpc \in {"init", "open"} => last["sw"] = 1
  /\ hand = "sw" /\ (closed \/ InSleep) /\ last["sw"] = 1 => due["sw"] # "none"
  /\ hand = "sw" /\ closed /\ InSleep => due["sw"] # "none"
  /\ gpc = "confirm" => swState # last["sw"]

(* CLK, and DT beside it, by the phases since CLK was last read without an *)
(* edge: it was high then, so that after one phase the edge tells the way. *)
OnePhase ==
  /\ pin["clk"] = 0
  /\ \/ hand = "ENC_CW" /\ pin["dt"] = 0
     \/ hand = "ENC_CCW" /\ pin["dt"] = 1
Edge ==
  /\ gpc \in {"init", "open"} => last["clk"] = 1
  /\ gpc # "dt" /\ last["clk"] = 1 =>
       /\ moved = 0 => pin["clk"] = 1
       /\ moved = 1 /\ pin["clk"] = 0 => OnePhase
  /\ gpc = "dt" => moved # 0 /\ (moved = 1 => OnePhase)

GpioInv == GpioTypeOK /\ Contacts /\ Unanswered /\ Edge

(* pushEvent adds one event of its kind, and answers at most its contact.  *)
LEMMA PushEvent ==
  ASSUME GpioTypeOK, NEW e \in Source!Event, pushEvent(e)
  PROVE  /\ queue' \in Seq(Source!Event) /\ due' \in [Contact -> {"none", "may", "must"}]
         /\ \A d : Pushed(d) => d = e
<1>1. queue' \in Seq(Source!Event) /\ Len(queue') = Len(queue) + 1 /\ queue'[Len(queue')] = e
  BY DEF GpioTypeOK, pushEvent
<1>2. due' \in [Contact -> {"none", "may", "must"}]
  BY DEF GpioTypeOK, pushEvent, Contact
<1>3. QED
  BY <1>1, <1>2 DEF Pushed

(* A step that only takes from the queue pushes nothing. *)
LEMMA NothingPushed ==
  ASSUME GpioTypeOK, queue' = queue \/ (queue # <<>> /\ queue' = Tail(queue))
  PROVE  queue' \in Seq(Source!Event) /\ \A d : ~ Pushed(d)
<1>1. queue \in Seq(Source!Event)
  BY DEF GpioTypeOK
<1>2. CASE queue' = queue
  BY <1>1, <1>2 DEF Pushed
<1>3. CASE queue # <<>> /\ queue' = Tail(queue)
  <2>1. queue' \in Seq(Source!Event) /\ Len(queue') = Len(queue) - 1 /\ Len(queue) \in Nat
    BY <1>1, <1>3
  <2>2. QED
    BY <2>1 DEF Pushed
<1>4. QED
  BY <1>2, <1>3

(* Nothing is pressed and nothing has been read before Start. *)
LEMMA GpioStart == GpioInit => GpioInv
<1> SUFFICES ASSUME GpioInit PROVE GpioInv
  OBVIOUS
<1>1. GpioTypeOK
  <2>1. /\ pin \in [Line -> 0 .. 1] /\ last \in [Line \ {"dt"} -> 0 .. 1] /\ due \in [Contact -> {"none", "may", "must"}]
        /\ queue \in Seq(Source!Event)
    BY DEF GpioInit, Line, Contact
  <2>2. /\ hand = "free" /\ ~ closed /\ closed \in BOOLEAN /\ ~ chatter /\ chatter \in BOOLEAN /\ began \in BOOLEAN /\ moved = 0
        /\ gpc = "init" /\ swState = 1 /\ running \in BOOLEAN
    BY DEF GpioInit
  <2>3. QED
    BY <2>1, <2>2 DEF GpioTypeOK
<1>2. Contacts /\ Unanswered /\ Edge
  BY DEF GpioInit, Contacts, Unanswered, Edge, Line, Contact
<1>3. QED
  BY <1>1, <1>2 DEF GpioInv

(* What a move of the operator leaves alone, and the contacts' levels. *)
LEMMA HandStep == GpioInv /\ Hand => GpioInv'
<1> SUFFICES ASSUME GpioInv, Hand PROVE GpioInv'
  OBVIOUS
<1> USE DEF Line, Contact
<1>1. /\ GpioTypeOK /\ Contacts /\ Unanswered /\ Edge
      /\ UNCHANGED <<gpc, last, swState, queue, running>>
  BY DEF GpioInv, Hand, pollVars
<1>2. ASSUME NEW dir \in {"ENC_CW", "ENC_CCW"}, Turn(dir) PROVE GpioInv'
  <2>1. PICK i \in 1 .. 4 :
          /\ Phases(dir)[i] = <<pin["clk"], pin["dt"]>>
          /\ pin' = [pin EXCEPT !["clk"] = Phases(dir)[(i % 4) + 1][1], !["dt"] = Phases(dir)[(i % 4) + 1][2]]
          /\ hand' = IF Phases(dir)[(i % 4) + 1] = <<1, 1>> THEN "free" ELSE dir
    BY <1>2 DEF Turn
  <2>2. /\ hand \in {"free", dir} /\ UNCHANGED <<closed, chatter, began, due>>
        /\ moved' = IF moved = 2 THEN 2 ELSE moved + 1
    BY <1>2 DEF Turn
  <2>3. /\ hand' \in {"free", dir}
        /\ \A c \in Contact : pin'[c] = pin[c]
        /\ pin'["clk"] \in 0 .. 1 /\ pin'["dt"] \in 0 .. 1
        /\ pin["clk"] = 1 /\ pin'["clk"] = 0 =>
             hand' = dir /\ pin'["dt"] = (IF dir = "ENC_CW" THEN 0 ELSE 1)
    <3>1. i = 1 \/ i = 2 \/ i = 3 \/ i = 4
      OBVIOUS
    <3>2. pin \in [Line -> 0 .. 1]
      BY <1>1 DEF GpioTypeOK
    <3>3. CASE dir = "ENC_CW"
      BY <2>1, <3>1, <3>2, <3>3 DEF Phases
    <3>4. CASE dir = "ENC_CCW"
      BY <2>1, <3>1, <3>2, <3>4 DEF Phases
    <3>5. QED
      BY <3>3, <3>4
  <2>4. pin' \in [Line -> 0 .. 1]
    BY <1>1, <2>1, <2>3 DEF GpioTypeOK
  <2>5. GpioTypeOK'
    BY <1>1, <2>2, <2>3, <2>4 DEF GpioTypeOK
  <2>6. Contacts' /\ Unanswered'
    BY <1>1, <2>2, <2>3 DEF Contacts, Unanswered, InSleep
  <2>7. Edge'
    BY <1>1, <2>2, <2>3 DEF Edge, OnePhase, GpioTypeOK
  <2>8. QED
    BY <2>5, <2>6, <2>7 DEF GpioInv
<1>3. ASSUME NEW c \in Contact, Press(c) PROVE GpioInv'
  <2>1. /\ hand = "free" /\ hand' = c /\ closed' = TRUE /\ chatter' = TRUE /\ began' = TRUE /\ moved' = moved
        /\ pin' = [pin EXCEPT ![c] = 0] /\ due' = [due EXCEPT ![c] = IF last[c] = 1 THEN "must" ELSE "may"]
    BY <1>3 DEF Press
  <2>2. GpioTypeOK'
    <3>1. pin' \in [Line -> 0 .. 1]
      BY <1>1, <2>1 DEF GpioTypeOK
    <3>2. due' \in [Contact -> {"none", "may", "must"}]
      BY <1>1, <2>1 DEF GpioTypeOK
    <3>3. QED
      BY <1>1, <2>1, <3>1, <3>2 DEF GpioTypeOK
  <2>3. Contacts'
    BY <1>1, <2>1 DEF Contacts, GpioTypeOK
  <2>4. Unanswered'
    <3>1. c = "sw" => due'["sw"] \in {"must", "may"}
      BY <1>1, <2>1 DEF GpioTypeOK
    <3>2. QED
      BY <1>1, <2>1, <3>1 DEF Unanswered, InSleep
  <2>5. Edge'
    BY <1>1, <2>1 DEF Edge, OnePhase, GpioTypeOK
  <2>6. QED
    BY <2>2, <2>3, <2>4, <2>5 DEF GpioInv
<1>4. ASSUME NEW c \in Contact, Release(c) PROVE GpioInv'
  <2>1. /\ hand = c /\ closed /\ hand' = c /\ closed' = FALSE /\ chatter' = TRUE /\ began' = TRUE
        /\ pin' = [pin EXCEPT ![c] = 1] /\ UNCHANGED <<due, moved>>
    BY <1>4 DEF Release
  <2>2. GpioTypeOK'
    <3>1. pin' \in [Line -> 0 .. 1]
      BY <1>1, <2>1 DEF GpioTypeOK
    <3>2. due' \in [Contact -> {"none", "may", "must"}]
      BY <1>1, <2>1 DEF GpioTypeOK
    <3>3. QED
      BY <1>1, <2>1, <3>1, <3>2 DEF GpioTypeOK
  <2>3. Contacts'
    BY <1>1, <2>1 DEF Contacts, GpioTypeOK
  <2>4. Unanswered'
    BY <1>1, <2>1 DEF Unanswered, InSleep
  <2>5. Edge'
    BY <1>1, <2>1 DEF Edge, OnePhase, GpioTypeOK
  <2>6. QED
    BY <2>2, <2>3, <2>4, <2>5 DEF GpioInv
<1>5. CASE Bounce \/ Settle
  <2>1. /\ chatter /\ hand \in Contact /\ UNCHANGED <<closed, began, due, moved>>
        /\ \A l \in Line : l # hand => pin'[l] = pin[l]
        /\ pin' \in [Line -> 0 .. 1]
    BY <1>1, <1>5 DEF Bounce, Settle, Contacts, GpioTypeOK
  <2>2. \/ hand' = hand /\ chatter'
        \/ ~ chatter' /\ pin'[hand] = (IF closed THEN 0 ELSE 1) /\ hand' = IF closed THEN hand ELSE "free"
    BY <1>1, <1>5, <2>1 DEF Bounce, Settle, GpioTypeOK
  <2>3. chatter' \in BOOLEAN
    BY <1>1, <1>5 DEF Bounce, Settle, GpioTypeOK
  <2>4. GpioTypeOK'
    BY <1>1, <2>1, <2>2, <2>3 DEF GpioTypeOK
  <2>5. Contacts' /\ Unanswered'
    BY <1>1, <2>1, <2>2 DEF Contacts, Unanswered, InSleep
  <2>6. Edge'
    BY <1>1, <2>1, <2>2 DEF Edge, OnePhase
  <2>7. QED
    BY <2>4, <2>5, <2>6 DEF GpioInv
<1>6. QED
  BY <1>2, <1>3, <1>4, <1>5 DEF Hand, Operator

(* An event of another kind does not answer the push contact. *)
LEMMA OtherEvent ==
  ASSUME NEW e, e # "ENC_PUSH", pushEvent(e)
  PROVE  due'["sw"] = due["sw"]
  BY ZenonT(20) DEF pushEvent, Contact

(* What a step of GpioThreadFunc leaves to the operator. *)
LEMMA ThreadStep == GpioInv /\ GpioThreadFunc => GpioInv'
<1> SUFFICES ASSUME GpioInv, GpioThreadFunc PROVE GpioInv'
  OBVIOUS
<1> USE DEF Line, Contact
<1>1. GpioTypeOK /\ Contacts /\ Unanswered /\ Edge
  BY DEF GpioInv
<1>2. UNCHANGED <<pin, hand, closed, chatter>> /\ began' \in {began, FALSE}
  BY DEF GpioThreadFunc, OpenPins, ReadClk, ReadDt, ReadSw, ConfirmSw, ReadBack, SleepBack, handVars
<1>3. Contacts'
  BY <1>1, <1>2 DEF Contacts, handVars
<1>4. CASE OpenPins
  <2>1. /\ gpc = "open" /\ UNCHANGED <<moved, swState, queue>>
        /\ \/ gpc' = "clk" /\ last' = [l \in DOMAIN last |-> pin[l]] /\ running' = running
              /\ due' = [c \in Contact |-> IF due[c] = "must" /\ pin[c] = 0 THEN "may" ELSE due[c]]
           \/ gpc' = "ended" /\ running' = FALSE /\ UNCHANGED <<last, due>>
    BY <1>4 DEF OpenPins, firstRead
  <2>2. DOMAIN last = {"clk", "sw", "back"}
    BY <1>1 DEF GpioTypeOK
  <2>3. GpioTypeOK'
    <3>1. last' \in [Line \ {"dt"} -> 0 .. 1]
      BY <1>1, <2>1, <2>2 DEF GpioTypeOK
    <3>2. due' \in [Contact -> {"none", "may", "must"}]
      BY <1>1, <2>1 DEF GpioTypeOK
    <3>3. QED
      BY <1>1, <1>2, <2>1, <3>1, <3>2 DEF GpioTypeOK, handVars
  <2>4. Unanswered'
    <3>1. /\ due["sw"] # "none" => due'["sw"] # "none"
          /\ last["sw"] = 1 /\ gpc' # "confirm"
      BY <1>1, <2>1 DEF Unanswered
    <3>2. QED
      BY <1>1, <1>2, <2>1, <3>1 DEF Unanswered, InSleep, handVars
  <2>5. Edge'
    BY <1>1, <1>2, <2>1, <2>2 DEF Edge, OnePhase, handVars
  <2>6. QED
    BY <1>3, <2>3, <2>4, <2>5 DEF GpioInv
<1>5. CASE ReadClk
  <2>1. /\ gpc = "clk" /\ UNCHANGED <<due, swState, queue, running>>
        /\ \/ gpc' = "ended" /\ UNCHANGED <<last, moved>>
           \/ LET falling == pin["clk"] # last["clk"] /\ pin["clk"] = 0
              IN  /\ gpc' = IF falling THEN "dt" ELSE "sw"
                  /\ last' = [last EXCEPT !["clk"] = pin["clk"]]
                  /\ moved' = IF falling THEN moved ELSE 0
    BY <1>5 DEF ReadClk
  <2>2. GpioTypeOK'
    <3>1. /\ last' \in [Line \ {"dt"} -> 0 .. 1] /\ moved' \in 0 .. 2
          /\ gpc' \in {"init", "open", "confirm", "settle", "ended"} \cup Line
      BY <1>1, <2>1 DEF GpioTypeOK
    <3>2. QED
      BY <1>1, <1>2, <2>1, <3>1 DEF GpioTypeOK
  <2>3. Unanswered'
    BY <1>1, <1>2, <2>1 DEF Unanswered, InSleep, handVars, GpioTypeOK
  <2>4. Edge'
    BY <1>1, <1>2, <2>1 DEF Edge, OnePhase, handVars, GpioTypeOK
  <2>5. QED
    BY <1>3, <2>2, <2>3, <2>4 DEF GpioInv
<1>6. CASE ReadDt
  <2>1. PICK e \in {"ENC_CW", "ENC_CCW"} : pushEvent(e)
    BY <1>6 DEF ReadDt
  <2>2. gpc = "dt" /\ gpc' = "sw" /\ UNCHANGED <<moved, last, swState, running>>
    BY <1>6 DEF ReadDt
  <2>3. queue' \in Seq(Source!Event) /\ due' \in [Contact -> {"none", "may", "must"}] /\ due'["sw"] = due["sw"]
    <3>1. e \in Source!Event /\ e # "ENC_PUSH"
      BY DEF Source!Event
    <3>2. due'["sw"] = due["sw"]
      BY <2>1, <3>1, OtherEvent
    <3>3. QED
      BY <1>1, <2>1, <3>1, <3>2, PushEvent
  <2>4. GpioTypeOK'
    BY <1>1, <1>2, <2>2, <2>3 DEF GpioTypeOK, handVars
  <2>5. Unanswered' /\ Edge'
    BY <1>1, <1>2, <2>2, <2>3 DEF Unanswered, InSleep, Edge, OnePhase, handVars
  <2>6. QED
    BY <1>3, <2>4, <2>5 DEF GpioInv
<1>7. CASE ReadSw
  <2>1. GpioTypeOK'
    BY <1>1, <1>2, <1>7 DEF ReadSw, GpioTypeOK, handVars
  <2>2. Unanswered' /\ Edge'
    BY <1>1, <1>2, <1>7 DEF ReadSw, Unanswered, InSleep, Edge, OnePhase, handVars
  <2>3. QED
    BY <1>3, <2>1, <2>2 DEF GpioInv
<1>8. CASE ConfirmSw
  <2>1. /\ gpc = "confirm" /\ (chatter /\ hand = "sw" => began)
        /\ gpc' = "back" /\ UNCHANGED <<moved, swState, running>>
    BY <1>8 DEF ConfirmSw
  <2>2. CASE pin["sw"] = swState /\ swState = 0
    <3>1. pushEvent("ENC_PUSH") /\ last' = [last EXCEPT !["sw"] = 0]
      BY <1>8, <2>2 DEF ConfirmSw
    <3>2. queue' \in Seq(Source!Event) /\ due' \in [Contact -> {"none", "may", "must"}]
      BY <1>1, <3>1, PushEvent DEF Source!Event
    <3>3. GpioTypeOK'
      <4>1. last' \in [Line \ {"dt"} -> 0 .. 1]
        BY <1>1, <3>1 DEF GpioTypeOK
      <4>2. began' \in BOOLEAN
        BY <1>1, <1>2 DEF GpioTypeOK
      <4>3. QED
        BY <1>1, <1>2, <2>1, <3>2, <4>1, <4>2 DEF GpioTypeOK
    <3>4. Unanswered' /\ Edge'
      BY <1>1, <1>2, <2>1, <3>1 DEF Unanswered, InSleep, Edge, OnePhase, handVars, GpioTypeOK
    <3>5. QED
      BY <1>3, <3>3, <3>4 DEF GpioInv
  <2>3. CASE ~ (pin["sw"] = swState /\ swState = 0)
    <3>1. /\ UNCHANGED <<queue, due>>
          /\ last' = last \/ (pin["sw"] = 1 /\ last' = [last EXCEPT !["sw"] = 1])
      BY <1>1, <1>8, <2>3 DEF ConfirmSw, GpioTypeOK
    <3>2. GpioTypeOK'
      BY <1>1, <1>2, <2>1, <3>1 DEF GpioTypeOK, handVars
    <3>3. pin["sw"] = 1 /\ hand = "sw" /\ closed => due["sw"] # "none"
      BY <1>1, <2>1 DEF Contacts, Unanswered, InSleep
    <3>4. Unanswered' /\ Edge'
      BY <1>1, <1>2, <2>1, <3>1, <3>3 DEF Unanswered, InSleep, Edge, OnePhase, handVars, GpioTypeOK
    <3>5. QED
      BY <1>3, <3>2, <3>4 DEF GpioInv
  <2>4. QED
    BY <2>2, <2>3
<1>9. CASE ReadBack
  <2>1. /\ gpc = "back" /\ gpc' \in {"settle", "clk"} /\ UNCHANGED <<moved, swState, running>>
        /\ last' = [last EXCEPT !["back"] = pin["back"]]
    BY <1>9 DEF ReadBack
  <2>2. queue' \in Seq(Source!Event) /\ due' \in [Contact -> {"none", "may", "must"}] /\ due'["sw"] = due["sw"]
    <3>1. CASE UNCHANGED <<queue, due>>
      BY <1>1, <3>1 DEF GpioTypeOK
    <3>2. CASE pushEvent("BTN_BACK")
      <4>1. queue' \in Seq(Source!Event) /\ due' \in [Contact -> {"none", "may", "must"}]
        BY <1>1, <3>2, PushEvent DEF Source!Event
      <4>2. due'["sw"] = due["sw"]
        BY <3>2, OtherEvent
      <4>3. QED
        BY <4>1, <4>2
    <3>3. QED
      BY <1>9, <3>1, <3>2 DEF ReadBack
  <2>3. GpioTypeOK'
    BY <1>1, <1>2, <2>1, <2>2 DEF GpioTypeOK, handVars
  <2>4. Unanswered' /\ Edge'
    BY <1>1, <1>2, <2>1, <2>2 DEF Unanswered, InSleep, Edge, OnePhase, handVars, GpioTypeOK
  <2>5. QED
    BY <1>3, <2>3, <2>4 DEF GpioInv
<1>10. CASE SleepBack
  <2>1. GpioTypeOK'
    BY <1>1, <1>2, <1>10 DEF SleepBack, GpioTypeOK, handVars
  <2>2. Unanswered' /\ Edge'
    BY <1>1, <1>2, <1>10 DEF SleepBack, Unanswered, InSleep, Edge, OnePhase, handVars
  <2>3. QED
    BY <1>3, <2>1, <2>2 DEF GpioInv
<1>11. QED
  BY <1>4, <1>5, <1>6, <1>7, <1>8, <1>9, <1>10 DEF GpioThreadFunc

(* The rest of OledModule takes events and clears the flag. *)
LEMMA ModuleStep == GpioInv /\ (Module \/ UNCHANGED gpioVars) => GpioInv'
<1> SUFFICES ASSUME GpioInv, Module \/ UNCHANGED gpioVars PROVE GpioInv'
  OBVIOUS
<1>1. GpioTypeOK /\ Contacts /\ Unanswered /\ Edge
  BY DEF GpioInv
<1>2. /\ UNCHANGED <<handVars, due, moved, last, swState>>
      /\ gpc' = gpc \/ (gpc = "init" /\ gpc' = "open")
      /\ queue' = queue \/ (queue # <<>> /\ queue' = Tail(queue))
      /\ running' = running \/ running' = FALSE
  BY DEF Module, gpioVars, pollVars
<1>3. queue' \in Seq(Source!Event)
  BY <1>1, <1>2, NothingPushed
<1>4. GpioTypeOK'
  BY <1>1, <1>2, <1>3 DEF GpioTypeOK, handVars
<1>5. Contacts'
  BY <1>1, <1>2 DEF Contacts, handVars
<1>6. Unanswered' /\ Edge'
  BY <1>1, <1>2 DEF Unanswered, InSleep, Edge, OnePhase, handVars
<1>7. QED
  BY <1>4, <1>5, <1>6 DEF GpioInv

(* The inductive invariant of the controls and the thread that polls them. *)
THEOREM GpioInvariant == GpioSpec => []GpioInv
<1>1. GpioInv /\ [GpioNext]_gpioVars => GpioInv'
  BY HandStep, ThreadStep, ModuleStep DEF GpioNext
<1>2. QED
  BY <1>1, GpioStart, PTL DEF GpioSpec

(* Types, for any queue (GpioThreadFunc). *)
THEOREM GpioTypeCorrect == GpioSpec => []GpioTypeOK
<1>1. GpioInv => GpioTypeOK
  BY DEF GpioInv
<1>2. QED
  BY <1>1, GpioInvariant, PTL

(* What a step pushes. *)
LEMMA PushStep ==
  ASSUME GpioInv, [GpioNext]_gpioVars
  PROVE  /\ Pushed("ENC_PUSH") => due["sw"] # "none"
         /\ \A dir \in {"ENC_CW", "ENC_CCW"} : Pushed(dir) /\ moved < 2 => hand = dir
<1>1. GpioTypeOK /\ Contacts /\ Unanswered /\ Edge
  BY DEF GpioInv
<1>2. CASE queue' = queue \/ (queue # <<>> /\ queue' = Tail(queue))
  BY <1>1, <1>2, NothingPushed
<1>3. CASE ReadDt
  <2> DEFINE e == IF pin["dt"] # 0 THEN "ENC_CCW" ELSE "ENC_CW"
  <2>1. e \in Source!Event /\ e # "ENC_PUSH"
    BY DEF Source!Event
  <2>2. pushEvent(e) /\ gpc = "dt"
    BY <1>3 DEF ReadDt
  <2>3. \A d : Pushed(d) => d = e
    BY <1>1, <2>1, <2>2, PushEvent
  <2>4. moved < 2 => hand = e
    BY <1>1, <2>2 DEF Edge, OnePhase, GpioTypeOK
  <2> HIDE DEF e
  <2>5. QED
    BY <2>1, <2>3, <2>4
<1>4. CASE ConfirmSw /\ pushEvent("ENC_PUSH")
  <2>1. \A d : Pushed(d) => d = "ENC_PUSH"
    BY <1>1, <1>4, PushEvent DEF Source!Event
  <2>2. CASE pin["sw"] = swState /\ swState = 0
    <3>1. gpc = "confirm" /\ (chatter /\ hand = "sw" => began)
      BY <1>4 DEF ConfirmSw
    <3>2. hand = "sw" /\ (closed \/ (chatter /\ began))
      BY <1>1, <2>2, <3>1 DEF Contacts, Contact
    <3>3. last["sw"] = 1
      BY <1>1, <2>2, <3>1 DEF Unanswered, InSleep, GpioTypeOK, Line, Contact
    <3>4. due["sw"] # "none"
      BY <1>1, <3>1, <3>2, <3>3 DEF Unanswered, InSleep
    <3>5. QED
      BY <2>1, <3>4
  <2>3. CASE ~ (pin["sw"] = swState /\ swState = 0)
    <3>1. queue' = queue
      BY <1>4, <2>3 DEF ConfirmSw
    <3>2. QED
      BY <1>2, <3>1
  <2>4. QED
    BY <2>2, <2>3
<1>5. CASE ReadBack /\ pushEvent("BTN_BACK")
  <2>1. \A d : Pushed(d) => d = "BTN_BACK"
    BY <1>1, <1>5, PushEvent DEF Source!Event
  <2>2. QED
    BY <2>1
<1>6. QED
  <2>1. CASE GpioThreadFunc
    BY <1>2, <1>3, <1>4, <1>5, <2>1
       DEF GpioThreadFunc, OpenPins, firstRead, ReadClk, ReadSw, ConfirmSw, ReadBack, SleepBack
  <2>2. CASE ~ GpioThreadFunc
    BY <1>2, <2>2 DEF GpioNext, Hand, Module, gpioVars
  <2>3. QED
    BY <2>1, <2>2

(* A press is answered by one ENC_PUSH at most, and its release by none,   *)
(* however the contact chatters (oled_module.cc:276-292).                  *)
THEOREM OnePushPerPressHolds == GpioSpec => OnePushPerPress
<1>1. GpioInv /\ [GpioNext]_gpioVars => [Pushed("ENC_PUSH") => due["sw"] # "none"]_gpioVars
  BY PushStep
<1>2. QED
  BY <1>1, GpioInvariant, PTL DEF GpioSpec, OnePushPerPress

(* A turn of one phase at most since the last read without an edge is      *)
(* reported in its direction (oled_module.cc:267-274).                     *)
THEOREM DirectionRightHolds == GpioSpec => DirectionRight
<1>1. GpioInv /\ [GpioNext]_gpioVars =>
        [\A dir \in {"ENC_CW", "ENC_CCW"} : Pushed(dir) /\ moved < 2 => hand = dir]_gpioVars
  BY PushStep
<1>2. QED
  BY <1>1, GpioInvariant, PTL DEF GpioSpec, DirectionRight

(* Before Start the thread is the source that has yet to open its lines.   *)
LEMMA SourceStart == GpioInit => Source!SourceInit
  BY DEF GpioInit, Source!SourceInit

(* A step of the thread is one of the source, and a move of the operator   *)
(* is none.                                                                *)
LEMMA SourceStep == [GpioNext]_gpioVars => [Source!SourceNext]_(Source!sourceVars)
<1> SUFFICES ASSUME [GpioNext]_gpioVars PROVE [Source!SourceNext]_(Source!sourceVars)
  OBVIOUS
<1> DEFINE src == IF gpc \in {"init", "open", "ended"} THEN gpc ELSE "poll"
<1>1. CASE Hand \/ UNCHANGED gpioVars
  BY <1>1 DEF Hand, gpioVars, pollVars, Source!sourceVars
<1>2. CASE Module
  BY <1>2 DEF Module, Source!sourceVars, Source!SourceNext, Source!Launch, Source!pop, Source!Halt
<1>3. CASE OpenPins
  BY <1>3 DEF OpenPins, firstRead, Source!SourceNext, Source!Open
<1>4. CASE ReadClk
  BY <1>4 DEF ReadClk, Source!sourceVars, Source!SourceNext, Source!Leave
<1>5. ASSUME NEW e \in Source!Event, pushEvent(e), src = "poll", src' = "poll", running' = running
      PROVE  Source!SourceNext
  BY <1>5 DEF pushEvent, Source!SourceNext, Source!Produce, Source!push
<1>6. CASE ReadDt
  <2>1. PICK e \in Source!Event : pushEvent(e)
    BY <1>6 DEF ReadDt, Source!Event
  <2>2. src = "poll" /\ src' = "poll" /\ running' = running
    BY <1>6 DEF ReadDt
  <2>3. QED
    BY <1>5, <2>1, <2>2
<1>7. CASE ConfirmSw \/ ReadBack
  <2>1. src = "poll" /\ src' = "poll" /\ running' = running
    BY <1>7 DEF ConfirmSw, ReadBack
  <2>2. queue' = queue \/ \E e \in Source!Event : pushEvent(e)
    BY <1>7 DEF ConfirmSw, ReadBack, Source!Event
  <2>3. QED
    BY <1>5, <2>1, <2>2 DEF Source!sourceVars
<1>8. CASE ReadSw \/ SleepBack
  BY <1>8 DEF ReadSw, SleepBack, Source!sourceVars
<1>9. QED
  BY <1>1, <1>2, <1>3, <1>4, <1>6, <1>7, <1>8 DEF GpioNext, GpioThreadFunc

(* GpioThreadFunc and the queue are the KeySource that Oled is built on.   *)
THEOREM SourceRefinement == GpioSpec => ImplementsKeySource
  BY SourceStart, SourceStep, PTL DEF GpioSpec, ImplementsKeySource, Source!SourceSpec
=============================================================================
