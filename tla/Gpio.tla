-------------------------------- MODULE Gpio --------------------------------
(***************************************************************************)
(* The controls of the display: a rotary encoder with a push contact and a *)
(* back button, and GpioThreadFunc of OledModule, which polls their lines  *)
(* and queues UI events (oled_module.cc:252-306).  The rest of the module  *)
(* takes the events and clears run_flag_ (see Oled).                       *)
(*                                                                         *)
(* The operator handles one control at a time.  A contact chatters after   *)
(* it closes and after it opens, for less than the 50 ms the thread sleeps *)
(* on it; every other duration is arbitrary, so that the operator may make *)
(* any number of moves between two reads.  Lines read 0 when active; that  *)
(* a line once requested cannot be read (-1) is left out.                  *)
(***************************************************************************)
EXTENDS Integers, Sequences

CONSTANT MaxWaiting   \* bound: the operator waits while this many events are queued
ASSUME GpioAssumption == MaxWaiting \in Nat \ {0}

Contact == {"sw", "back"}
Line    == {"clk", "dt"} \cup Contact

VARIABLES
  pin,       \* line -> level
  hand,      \* what the operator handles: "free", "ENC_CW", "ENC_CCW" or a contact
  closed,    \* the contact handled is held down
  chatter,   \* and its line has not settled
  began,     \* the last press or release came since the thread last fell asleep on a contact
  due,       \* contact -> whether the thread "must", "may" or has no cause ("none") to answer its last press
  moved,     \* encoder phases since CLK was last read without an edge, up to 2
  gpc,       \* GpioThreadFunc: "init", "open", the line read next, "confirm", "settle", "ended"
  last,      \* lastClk, lastSw, lastBack
  swState,   \* the level "confirm" compares with
  queue,     \* the EventQueue
  running    \* run_flag_

handVars == <<pin, hand, closed, chatter, began>>
pollVars == <<gpc, last, swState>>
gpioVars == <<handVars, due, moved, pollVars, queue, running>>

GpioInit ==
  /\ pin = [l \in Line |-> 1]
  /\ hand = "free" /\ closed = FALSE /\ chatter = FALSE /\ began = FALSE
  /\ due = [c \in Contact |-> "none"] /\ moved = 0
  /\ gpc = "init" /\ last = [l \in Line \ {"dt"} |-> 1] /\ swState = 1
  /\ queue = <<>> /\ running = TRUE
-----------------------------------------------------------------------------
(* The operator's hand *)

(* The phases of a detent as <<CLK, DT>>, from rest to rest. *)
Phases(dir) ==
  IF dir = "ENC_CW" THEN <<<<1, 1>>, <<1, 0>>, <<0, 0>>, <<0, 1>>>>
                    ELSE <<<<1, 1>>, <<0, 1>>, <<0, 0>>, <<1, 0>>>>

Turn(dir) ==
  /\ hand \in {"free", dir}
  /\ \E i \in 1 .. 4 :
       /\ Phases(dir)[i] = <<pin["clk"], pin["dt"]>>
       /\ LET next == Phases(dir)[(i % 4) + 1]
          IN  /\ pin' = [pin EXCEPT !["clk"] = next[1], !["dt"] = next[2]]
              /\ hand' = IF next = <<1, 1>> THEN "free" ELSE dir
  /\ moved' = IF moved = 2 THEN 2 ELSE moved + 1
  /\ UNCHANGED <<closed, chatter, began, due>>

Press(c) ==
  /\ hand = "free"
  /\ hand' = c /\ closed' = TRUE /\ chatter' = TRUE /\ began' = TRUE
  /\ pin' = [pin EXCEPT ![c] = 0]
  /\ due' = [due EXCEPT ![c] = IF last[c] = 1 THEN "must" ELSE "may"]
  /\ UNCHANGED moved

Release(c) ==
  /\ hand = c /\ closed /\ ~ chatter
  /\ closed' = FALSE /\ chatter' = TRUE /\ began' = TRUE /\ pin' = [pin EXCEPT ![c] = 1]
  /\ UNCHANGED <<hand, due, moved>>

Bounce ==
  /\ chatter
  /\ pin' = [pin EXCEPT ![hand] = 1 - @]
  /\ UNCHANGED <<hand, closed, chatter, began, due, moved>>

Settle ==
  /\ chatter
  /\ chatter' = FALSE
  /\ pin' = [pin EXCEPT ![hand] = IF closed THEN 0 ELSE 1]
  /\ hand' = IF closed THEN hand ELSE "free"
  /\ UNCHANGED <<closed, began, due, moved>>

Operator ==
  /\ Len(queue) < MaxWaiting
  /\ \/ \E dir \in {"ENC_CW", "ENC_CCW"} : Turn(dir)
     \/ \E c \in Contact : Press(c) \/ Release(c)
     \/ Bounce
-----------------------------------------------------------------------------
(* GpioThreadFunc *)
pushEvent(e) ==
  /\ queue' = Append(queue, e)
  /\ due' = [c \in Contact |->
       IF e = (CASE c = "sw" -> "ENC_PUSH" [] c = "back" -> "BTN_BACK") THEN "none" ELSE due[c]]

(* A contact already held when it is first read may stay unanswered. *)
firstRead ==
  /\ last' = [l \in DOMAIN last |-> pin[l]]
  /\ due' = [c \in Contact |-> IF due[c] = "must" /\ pin[c] = 0 THEN "may" ELSE due[c]]

(* Mutant of OpenPins: the thread ends and the module goes on. *)
OpenPinsDegraded ==
  /\ gpc = "open"
  /\ \/ gpc' = "clk" /\ firstRead
     \/ gpc' = "ended" /\ UNCHANGED <<last, due>>
  /\ UNCHANGED <<handVars, moved, swState, queue, running>>

(* The lines are requested and read once; one that cannot be had ends the  *)
(* thread, and with run_flag_ the whole module.                            *)
OpenPins ==
  /\ gpc = "open"
  /\ \/ gpc' = "clk" /\ firstRead /\ UNCHANGED running
     \/ gpc' = "ended" /\ running' = FALSE /\ UNCHANGED <<last, due>>
  /\ UNCHANGED <<handVars, moved, swState, queue>>

(* The test of run_flag_ and the first read of an iteration. *)
ReadClk ==
  /\ gpc = "clk"
  /\ \/ ~ running /\ gpc' = "ended" /\ UNCHANGED <<last, moved>>
     \/ LET falling == pin["clk"] # last["clk"] /\ pin["clk"] = 0
        IN  /\ running
            /\ gpc' = IF falling THEN "dt" ELSE "sw"
            /\ last' = [last EXCEPT !["clk"] = pin["clk"]]
            /\ moved' = IF falling THEN moved ELSE 0
  /\ UNCHANGED <<handVars, due, swState, queue, running>>

(* Mutant of ReadDt: compared with the level CLK had before the edge. *)
ReadDtInverted ==
  /\ gpc = "dt"
  /\ pushEvent(IF pin["dt"] # 1 THEN "ENC_CCW" ELSE "ENC_CW")
  /\ gpc' = "sw"
  /\ UNCHANGED <<handVars, moved, last, swState, running>>

ReadDt ==
  /\ gpc = "dt"
  /\ pushEvent(IF pin["dt"] # 0 THEN "ENC_CCW" ELSE "ENC_CW")
  /\ gpc' = "sw"
  /\ UNCHANGED <<handVars, moved, last, swState, running>>

ReadSw ==
  /\ gpc = "sw"
  /\ swState' = pin["sw"]
  /\ gpc' = IF pin["sw"] # last["sw"] THEN "confirm" ELSE "back"
  /\ began' = FALSE
  /\ UNCHANGED <<pin, hand, closed, chatter, due, moved, last, queue, running>>

(* Mutant of ConfirmSw: no sleep before the second read. *)
ConfirmSwAtOnce ==
  /\ gpc = "confirm"
  /\ IF pin["sw"] = swState
       THEN /\ IF swState = 0 THEN pushEvent("ENC_PUSH") ELSE UNCHANGED <<queue, due>>
            /\ last' = [last EXCEPT !["sw"] = swState]
       ELSE UNCHANGED <<queue, due, last>>
  /\ gpc' = "back"
  /\ UNCHANGED <<handVars, moved, swState, running>>

(* Mutant of ConfirmSw: an event is dropped while others wait. *)
ConfirmSwDrops ==
  /\ gpc = "confirm" /\ (chatter /\ hand = "sw" => began)
  /\ IF pin["sw"] = swState
       THEN /\ IF swState = 0 /\ queue = <<>> THEN pushEvent("ENC_PUSH") ELSE UNCHANGED <<queue, due>>
            /\ last' = [last EXCEPT !["sw"] = swState]
       ELSE UNCHANGED <<queue, due, last>>
  /\ gpc' = "back"
  /\ UNCHANGED <<handVars, moved, swState, running>>

(* Read again after 50 ms: by then the contact has settled, unless it      *)
(* moved while the thread slept.                                           *)
ConfirmSw ==
  /\ gpc = "confirm" /\ (chatter /\ hand = "sw" => began)
  /\ IF pin["sw"] = swState
       THEN /\ IF swState = 0 THEN pushEvent("ENC_PUSH") ELSE UNCHANGED <<queue, due>>
            /\ last' = [last EXCEPT !["sw"] = swState]
       ELSE UNCHANGED <<queue, due, last>>
  /\ gpc' = "back"
  /\ UNCHANGED <<handVars, moved, swState, running>>

(* The back button is answered at the first low read, and only then does   *)
(* the thread wait for it to settle; a high read is believed at once, so   *)
(* that the chatter of a release may be answered as another press.         *)
ReadBack ==
  /\ gpc = "back"
  /\ LET pressed == pin["back"] # last["back"] /\ pin["back"] = 0
     IN  /\ IF pressed THEN pushEvent("BTN_BACK") ELSE UNCHANGED <<queue, due>>
         /\ gpc' = IF pressed THEN "settle" ELSE "clk"
  /\ last' = [last EXCEPT !["back"] = pin["back"]]
  /\ began' = FALSE
  /\ UNCHANGED <<pin, hand, closed, chatter, moved, swState, running>>

SleepBack ==
  /\ gpc = "settle" /\ (chatter /\ hand = "back" => began)
  /\ gpc' = "clk"
  /\ UNCHANGED <<handVars, due, moved, last, swState, queue, running>>

GpioThreadFunc == OpenPins \/ ReadClk \/ ReadDt \/ ReadSw \/ ConfirmSw \/ ReadBack \/ SleepBack
-----------------------------------------------------------------------------
(* The rest of OledModule: Start, MainLoop and Shutdown. *)
Module ==
  /\ \/ gpc = "init" /\ gpc' = "open" /\ UNCHANGED <<queue, running>>
     \/ queue # <<>> /\ queue' = Tail(queue) /\ UNCHANGED <<gpc, running>>
     \/ gpc # "init" /\ running' = FALSE /\ UNCHANGED <<gpc, queue>>
  /\ UNCHANGED <<handVars, due, moved, last, swState>>

Hand == (Operator \/ Settle) /\ UNCHANGED <<pollVars, queue, running>>

GpioNext == Hand \/ GpioThreadFunc \/ Module

SettleDown == Settle /\ UNCHANGED <<pollVars, queue, running>>

(* The thread polls and contacts settle; nothing obliges the operator. *)
GpioSpec == GpioInit /\ [][GpioNext]_gpioVars /\ WF_gpioVars(GpioThreadFunc) /\ WF_gpioVars(SettleDown)
-----------------------------------------------------------------------------
Source == INSTANCE KeySource WITH
  source   <- IF gpc \in {"init", "open", "ended"} THEN gpc ELSE "poll",
  q        <- queue,
  run_flag <- running

(* Types. *)
GpioTypeOK ==
  /\ pin \in [Line -> 0 .. 1]
  /\ hand \in {"free", "ENC_CW", "ENC_CCW"} \cup Contact
  /\ closed \in BOOLEAN /\ chatter \in BOOLEAN /\ began \in BOOLEAN
  /\ due \in [Contact -> {"none", "may", "must"}] /\ moved \in 0 .. 2
  /\ gpc \in {"init", "open", "confirm", "settle", "ended"} \cup Line
  /\ last \in [Line \ {"dt"} -> 0 .. 1] /\ swState \in 0 .. 1
  /\ queue \in Seq(Source!Event) /\ running \in BOOLEAN

Pushed(e) == Len(queue') = Len(queue) + 1 /\ queue'[Len(queue')] = e

(* GpioThreadFunc confirms the push contact after 50 ms: however the       *)
(* contact chatters, when it closes and when it opens, and whatever the    *)
(* thread is doing meanwhile, a press is answered by one ENC_PUSH at most, *)
(* and the release by none.                                                *)
OnePushPerPress == [][Pushed("ENC_PUSH") => due["sw"] # "none"]_gpioVars

(* DT is read after CLK.  A turn is reported in its direction when it went *)
(* on by one phase at most since CLK was last read without an edge; if it  *)
(* went on by two, the other one may be (oled_module.cc:271-273).          *)
DirectionRight ==
  [][\A dir \in {"ENC_CW", "ENC_CCW"} : Pushed(dir) /\ moved < 2 => hand = dir]_gpioVars

(* A contact held down long enough is answered, whatever the thread slept  *)
(* through when it closed, if the thread had seen it open before.  (One    *)
(* pressed again while its release is confirmed, or held when the lines    *)
(* are first read, may never be.)                                          *)
HeldPressAnswered ==
  \A c \in Contact : <>[](hand = c /\ closed /\ running /\ gpc # "init") => <>[](due[c] # "must")

(* Oled counts on nothing but KeySource. *)
ImplementsKeySource == Source!SourceSpec
=============================================================================
