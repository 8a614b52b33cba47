-------------------------- MODULE JoyStick_proofs ---------------------------
(***************************************************************************)
(* The operator's pad and its velocity, for any number of pads, buttons,   *)
(* stick positions and queued events, and for any mode graph.              *)
(***************************************************************************)
EXTENDS JoyStick, SequenceTheorems, TLAPS

(* What SDL queues. *)
Event ==
  [type : {"added"}, which : Nat] \cup [type : {"removed"}, which : Pad]
    \cup [type : {"button"}, which : Pad, button : Button, down : BOOLEAN]
    \cup [type : {"axis"}, which : Pad, value : Raw]
    \cup [type : {"hat"}, which : Pad, value : Hat]

Opens(e)         == e.type = "added" /\ e.which = 0
Removes(e, p)    == e.type = "removed" /\ e.which = p
Input(e)         == e.type \in {"button", "axis", "hat"}
Presses(e, p, b) == e.type = "button" /\ e.which = p /\ e.button = b
Steers(e, p)     == e.type = "axis" /\ e.which = p
Points(e, p)     == e.type = "hat" /\ e.which = p

id      == joystick_instance_id
Plugged == Range(plugged)

JoyTypes ==
  /\ JoyTypeOK
  /\ events \in Seq(Event)
  /\ buttons = NoMsg <=> axis = NoMsg

(* The last event of a pad's queue. *)
LEMMA Queued ==
  ASSUME JoyTypes, NEW e \in Event, Queue(e)
  PROVE  /\ events' \in Seq(Event) /\ Len(events') <= MaxEvents
         /\ Len(events) \in Nat /\ DOMAIN events = 1 .. Len(events)
         /\ DOMAIN events' = 1 .. Len(events) + 1
         /\ events'[Len(events) + 1] = e
         /\ \A i \in DOMAIN events : events'[i] = events[i]
  BY JoyAssumption DEF JoyTypes, Queue

(* What is left when the first event is taken. *)
LEMMA Taken ==
  ASSUME JoyTypes, events # <<>>, events' = Tail(events)
  PROVE  /\ events' \in Seq(Event) /\ Len(events') <= MaxEvents
         /\ Len(events) \in Nat \ {0} /\ DOMAIN events = 1 .. Len(events)
         /\ DOMAIN events' = 1 .. Len(events) - 1
         /\ Head(events) = events[1] /\ events[1] \in Event
         /\ \A i \in DOMAIN events' : events'[i] = events[i + 1]
  <1>1. events \in Seq(Event) /\ Len(events) \in Nat \ {0} /\ Len(events) <= MaxEvents
    BY DEF JoyTypes, JoyTypeOK
  <1>2. /\ Head(events) \in Event /\ Tail(events) \in Seq(Event)
        /\ Len(Tail(events)) = Len(events) - 1
        /\ \A i \in 1 .. Len(Tail(events)) : Tail(events)[i] = events[i + 1]
    BY <1>1, HeadTailProperties
  <1>3. QED
    BY <1>1, <1>2, JoyAssumption

(* A pad plugged in is listed last; the list loses the one unplugged.      *)
LEMMA PlugRange ==
  ASSUME JoyTypes, NEW x, plugged' = Append(plugged, x)
  PROVE  Plugged' = Plugged \cup {x}
  <1>1. plugged \in Seq(Pad) /\ Len(plugged) \in Nat
    BY DEF JoyTypes, JoyTypeOK
  <1>2. /\ DOMAIN plugged = 1 .. Len(plugged) /\ DOMAIN plugged' = 1 .. Len(plugged) + 1
        /\ \A n \in 1 .. Len(plugged) : plugged'[n] = plugged[n]
        /\ plugged'[Len(plugged) + 1] = x
    BY <1>1
  <1>3. QED
    BY <1>1, <1>2 DEF Plugged, Range

LEMMA UnplugRange ==
  ASSUME JoyTypes, NEW i \in DOMAIN plugged, plugged' = RemoveAt(plugged, i)
  PROVE  /\ plugged' \in Seq(Pad)
         /\ Plugged' \subseteq Plugged
         /\ Plugged \subseteq Plugged' \cup {plugged[i]}
  <1>1. plugged \in Seq(Pad) /\ i \in 1 .. Len(plugged) /\ Len(plugged) \in Nat
    BY DEF JoyTypes, JoyTypeOK
  <1>2. /\ plugged' \in Seq(Pad) /\ Len(plugged') = Len(plugged) - 1
        /\ \A n \in 1 .. Len(plugged') : plugged'[n] = IF n < i THEN plugged[n] ELSE plugged[n + 1]
    <2>1. plugged' = SubSeq(plugged, 1, i - 1) \o SubSeq(plugged, i + 1, Len(plugged))
      BY DEF RemoveAt
    <2> DEFINE a == SubSeq(plugged, 1, i - 1)
               b == SubSeq(plugged, i + 1, Len(plugged))
    <2>2. /\ \A n \in 1 .. i - 1 : plugged[n] \in Pad
          /\ \A n \in i + 1 .. Len(plugged) : plugged[n] \in Pad
          /\ i - 1 \in Int /\ i + 1 \in Int /\ Len(plugged) \in Int
      BY <1>1
    <2>3. a \in Seq(Pad) /\ Len(a) = i - 1 /\ \A n \in 1 .. i - 1 : a[n] = plugged[n]
      <3>1. /\ a \in Seq(Pad) /\ Len(a) = IF 1 <= i - 1 THEN i - 1 - 1 + 1 ELSE 0
            /\ \A n \in 1 .. i - 1 - 1 + 1 : a[n] = plugged[1 + n - 1]
        BY <2>2, SubSeqProperties
      <3> HIDE DEF a
      <3>2. QED
        BY <1>1, <3>1
    <2>4. b \in Seq(Pad) /\ Len(b) = Len(plugged) - i /\ \A n \in 1 .. Len(plugged) - i : b[n] = plugged[n + i]
      <3>1. /\ b \in Seq(Pad) /\ Len(b) = IF i + 1 <= Len(plugged) THEN Len(plugged) - (i + 1) + 1 ELSE 0
            /\ \A n \in 1 .. Len(plugged) - (i + 1) + 1 : b[n] = plugged[i + 1 + n - 1]
        BY <2>2, SubSeqProperties, SMTT(60)
      <3> HIDE DEF b
      <3>2. QED
        BY <1>1, <3>1
    <2> HIDE DEF a, b
    <2>5. /\ a \o b \in Seq(Pad) /\ Len(a \o b) = Len(a) + Len(b)
          /\ \A n \in 1 .. Len(a) + Len(b) : (a \o b)[n] = IF n <= Len(a) THEN a[n] ELSE b[n - Len(a)]
      BY <2>3, <2>4, ConcatProperties
    <2>6. plugged' = a \o b
      BY <2>1 DEF a, b
    <2>7. plugged' \in Seq(Pad) /\ Len(plugged') = Len(plugged) - 1
      <3>1. Len(a \o b) = Len(plugged) - 1
        BY <1>1, <2>3, <2>4, <2>5
      <3>2. QED
        BY <2>5, <2>6, <3>1
    <2>8. ASSUME NEW n \in 1 .. Len(plugged') PROVE plugged'[n] = IF n < i THEN plugged[n] ELSE plugged[n + 1]
      <3>1. plugged'[n] = IF n <= i - 1 THEN a[n] ELSE b[n - (i - 1)]
        BY <1>1, <2>3, <2>4, <2>5, <2>6, <2>7
      <3>2. n < i => a[n] = plugged[n]
        BY <1>1, <2>3, <2>7
      <3>3. CASE n < i
        <4>1. n <= i - 1
          BY <1>1, <2>7, <3>3
        <4>2. plugged'[n] = plugged[n]
          BY <3>1, <3>2, <3>3, <4>1
        <4>3. QED
          BY <3>3, <4>2
      <3>4. CASE ~ n < i
        <4>1. n - (i - 1) \in 1 .. Len(plugged) - i /\ n - (i - 1) + i = n + 1 /\ ~ n <= i - 1
          BY <1>1, <2>7, <3>4
        <4>2. b[n - (i - 1)] = plugged[n - (i - 1) + i]
          BY <2>4, <4>1
        <4>3. QED
          BY <3>1, <3>4, <4>1, <4>2
      <3>5. QED
        BY <3>3, <3>4
    <2>9. QED
      BY <2>7, <2>8
  <1>3. /\ Plugged = {plugged[n] : n \in 1 .. Len(plugged)}
        /\ Plugged' = {plugged'[n] : n \in 1 .. Len(plugged')}
    <2>1. DOMAIN plugged = 1 .. Len(plugged)
      BY <1>1
    <2>2. DOMAIN plugged' = 1 .. Len(plugged')
      BY <1>2
    <2>3. QED
      BY <2>1, <2>2 DEF Plugged, Range
  <1>4. \A n \in 1 .. Len(plugged') : plugged'[n] \in Plugged
    BY <1>1, <1>2, <1>3
  <1>5. ASSUME NEW n \in 1 .. Len(plugged), n # i PROVE plugged[n] \in Plugged'
    <2>1. CASE n < i
      <3>1. n \in 1 .. Len(plugged')
        BY <1>1, <1>2, <2>1
      <3>2. plugged'[n] = plugged[n]
        BY <1>2, <2>1, <3>1
      <3>3. QED
        BY <1>3, <3>1, <3>2
    <2>2. CASE n > i
      <3>1. n - 1 \in 1 .. Len(plugged') /\ ~ (n - 1 < i) /\ n - 1 + 1 = n
        BY <1>1, <1>2, <2>2
      <3>2. plugged'[n - 1] = plugged[n]
        BY <1>2, <3>1
      <3>3. QED
        BY <1>3, <3>1, <3>2
    <2>3. QED
      BY <1>1, <1>5, <2>1, <2>2
  <1>6. Plugged' \subseteq Plugged
    BY <1>3, <1>4
  <1>7. Plugged \subseteq Plugged' \cup {plugged[i]}
    BY <1>3, <1>5
  <1>8. QED
    BY <1>2, <1>6, <1>7

(* A raw position is converted into the range of the axes. *)
LEMMA Converted ==
  /\ \A raw \in Raw : convertRawAxisValueToROS(raw) \in -Full .. Full
  /\ convertRawAxisValueToROS(0) = 0
  /\ Full \in Nat
  BY JoyAssumption DEF convertRawAxisValueToROS, Full

-----------------------------------------------------------------------------
JoyNext == Operator \/ eventThread

(* The steps of Joy, one by one: what is queued, or taken and handled.     *)
LEMMA PlugInShape ==
  ASSUME JoyTypes, PlugIn
  PROVE  /\ plugs \in Pad /\ plugs' = plugs + 1
         /\ [type |-> "added", which |-> Len(plugged)] \in Event
         /\ Queue([type |-> "added", which |-> Len(plugged)])
         /\ plugged' = Append(plugged, plugs) /\ plugged' \in Seq(Pad)
         /\ Plugged' = Plugged \cup {plugs}
         /\ UNCHANGED <<opened, down, stick, hat, padVars>>
  <1>1. plugged \in Seq(Pad) /\ Len(plugged) \in Nat /\ plugs \in Pad
    BY JoyAssumption DEF JoyTypes, JoyTypeOK, PlugIn, Pad
  <1>2. QED
    BY <1>1, PlugRange DEF PlugIn, Event

LEMMA UnplugShape ==
  ASSUME JoyTypes, Unplug
  PROVE  \E i \in DOMAIN plugged :
           /\ plugged[i] \in Pad
           /\ [type |-> "removed", which |-> plugged[i]] \in Event
           /\ Queue([type |-> "removed", which |-> plugged[i]])
           /\ plugged' \in Seq(Pad) /\ Plugged' \subseteq Plugged /\ Plugged \subseteq Plugged' \cup {plugged[i]}
           /\ UNCHANGED <<opened, plugs, down, stick, hat, padVars>>
  <1>1. PICK i \in DOMAIN plugged :
          /\ plugged' = RemoveAt(plugged, i)
          /\ Queue([type |-> "removed", which |-> plugged[i]])
          /\ UNCHANGED <<opened, plugs, down, stick, hat, padVars>>
    BY DEF Unplug
  <1>2. plugged[i] \in Pad
    BY DEF JoyTypes, JoyTypeOK
  <1>3. QED
    BY <1>1, <1>2, UnplugRange DEF Event

LEMMA ReportShape ==
  ASSUME JoyTypes, Report
  PROVE  /\ UNCHANGED <<plugged, opened, plugs, padVars>>
         /\ \E p \in Plugged \cap Pad :
              \/ \E b \in Button :
                   /\ [type |-> "button", which |-> p, button |-> b, down |-> b \notin down[p]] \in Event
                   /\ Queue([type |-> "button", which |-> p, button |-> b, down |-> b \notin down[p]])
                   /\ down' = [down EXCEPT ![p] = IF b \in @ THEN @ \ {b} ELSE @ \cup {b}]
                   /\ UNCHANGED <<stick, hat>>
              \/ \E raw \in Raw :
                   /\ [type |-> "axis", which |-> p, value |-> raw] \in Event
                   /\ Queue([type |-> "axis", which |-> p, value |-> raw])
                   /\ stick' = [stick EXCEPT ![p] = raw]
                   /\ UNCHANGED <<down, hat>>
              \/ \E h \in Hat :
                   /\ [type |-> "hat", which |-> p, value |-> h] \in Event
                   /\ Queue([type |-> "hat", which |-> p, value |-> h])
                   /\ hat' = [hat EXCEPT ![p] = h]
                   /\ UNCHANGED <<down, stick>>
  <1>1. /\ UNCHANGED <<plugged, opened, plugs, padVars>>
        /\ Plugged \subseteq Pad
    BY DEF Report, JoyTypes, JoyTypeOK, Plugged, Range
  <1>2. PICK p \in Range(plugged) \cap opened :
       \/ \E b \in Button :
            /\ down' = [down EXCEPT ![p] = IF b \in @ THEN @ \ {b} ELSE @ \cup {b}]
            /\ Queue([type |-> "button", which |-> p, button |-> b, down |-> b \notin down[p]])
            /\ UNCHANGED <<stick, hat>>
       \/ \E raw \in Raw \ {stick[p]} :
            /\ stick' = [stick EXCEPT ![p] = raw]
            /\ Queue([type |-> "axis", which |-> p, value |-> raw])
            /\ UNCHANGED <<down, hat>>
       \/ \E h \in Hat \ {hat[p]} :
            /\ hat' = [hat EXCEPT ![p] = h]
            /\ Queue([type |-> "hat", which |-> p, value |-> h])
            /\ UNCHANGED <<down, stick>>
    BY DEF Report
  <1>3. p \in Plugged \cap Pad
    BY <1>1, <1>2 DEF Plugged
  <1>4. /\ \A b \in Button : [type |-> "button", which |-> p, button |-> b, down |-> b \notin down[p]] \in Event
        /\ \A raw \in Raw : [type |-> "axis", which |-> p, value |-> raw] \in Event
        /\ \A h \in Hat : [type |-> "hat", which |-> p, value |-> h] \in Event
    BY <1>3 DEF Event
  <1>5. QED
    BY <1>1, <1>2, <1>3, <1>4

(* What the event thread leaves to SDL. *)
LEMMA TakenShape ==
  ASSUME JoyTypes, eventThread
  PROVE  /\ events # <<>> /\ events' = Tail(events)
         /\ UNCHANGED <<plugged, plugs, inputs, down, stick, hat>>
         /\ Plugged' = Plugged
  BY DEF eventThread, Plugged

(* The handler that runs is the one of the event's type. *)
LEMMA Handlers ==
  ASSUME JoyTypes, eventThread
  PROVE  \/ Head(events).type = "axis" /\ handleJoyAxis(Head(events))
         \/ Head(events).type = "button" /\ handleJoyButton(Head(events))
         \/ Head(events).type = "hat" /\ handleJoyHatMotion(Head(events))
         \/ Head(events).type = "added" /\ handleJoyDeviceAdded(Head(events))
         \/ Head(events).type = "removed" /\ handleJoyDeviceRemoved(Head(events))
  <1>1. Head(events) \in Event
    BY Taken, TakenShape
  <1>2. Head(events).type \in {"axis", "button", "hat", "added", "removed"}
    BY <1>1 DEF Event
  <1>3. QED
    BY <1>2 DEF eventThread

(* An event has the fields of its type. *)
LEMMA Fields ==
  ASSUME NEW e \in Event
  PROVE  /\ e.type \in {"axis", "button", "hat", "added", "removed"}
         /\ e.type # "added" => e.which \in Pad
         /\ e.type = "button" => e.button \in Button /\ e.down \in BOOLEAN
         /\ e.type = "axis" => e.value \in Raw
         /\ e.type = "hat" => e.value \in Hat
  BY DEF Event

(* A message has its buttons and its axes, or neither. *)
LEMMA SomeMsg ==
  /\ NoMsg \notin [Axes -> -Full .. Full]
  /\ NoMsg \notin [Button -> BOOLEAN]
  <1>1. DOMAIN NoMsg = {}
    BY DEF NoMsg
  <1>2. Axes # {} /\ Button # {}
    BY JoyStickAssumption DEF Axes
  <1>3. QED
    BY <1>1, <1>2

(* Every step of Joy keeps its types. *)
LEMMA JoyTypesStep == JoyTypes /\ [JoyNext]_joyVars => JoyTypes'
  <1> SUFFICES ASSUME JoyTypes, [JoyNext]_joyVars PROVE JoyTypes'
    OBVIOUS
  <1> USE JoyAssumption
  <1>1. /\ plugged \in Seq(Pad) /\ opened \subseteq Pad
        /\ plugs \in 0 .. MaxPlug /\ inputs \in 0 .. MaxInput
        /\ down \in [Pad -> SUBSET Button] /\ stick \in [Pad -> Raw] /\ hat \in [Pad -> Hat]
        /\ joystick \in Pad \cup {NoPad} /\ joystick_instance_id \in Pad
        /\ buttons = NoMsg \/ buttons \in [Button -> BOOLEAN]
        /\ axis = NoMsg \/ axis \in [Axes -> -Full .. Full]
        /\ events \in Seq(Event)
        /\ buttons = NoMsg <=> axis = NoMsg
    BY DEF JoyTypes, JoyTypeOK
  <1>2. CASE Operator
    <2>1. inputs' \in 0 .. MaxInput
      BY <1>1, <1>2 DEF Operator
    <2>2. CASE PlugIn
      <3>1. /\ plugs' \in 0 .. MaxPlug /\ plugged' \in Seq(Pad)
            /\ UNCHANGED <<opened, down, stick, hat, padVars>>
        BY <1>1, <2>2, PlugInShape DEF Pad
      <3>2. events' \in Seq(Event) /\ Len(events') <= MaxEvents
        BY <2>2, PlugInShape, Queued
      <3>3. QED
        BY <1>1, <2>1, <3>1, <3>2 DEF JoyTypes, JoyTypeOK, padVars
    <2>3. CASE Unplug
      <3>1. PICK i \in DOMAIN plugged :
           /\ [type |-> "removed", which |-> plugged[i]] \in Event
           /\ Queue([type |-> "removed", which |-> plugged[i]])
           /\ plugged' \in Seq(Pad)
           /\ UNCHANGED <<opened, plugs, down, stick, hat, padVars>>
        BY <2>3, UnplugShape
      <3>2. events' \in Seq(Event) /\ Len(events') <= MaxEvents
        BY <3>1, Queued
      <3>3. QED
        BY <1>1, <2>1, <3>1, <3>2 DEF JoyTypes, JoyTypeOK, padVars
    <2>4. CASE Report
      <3>1. /\ down' \in [Pad -> SUBSET Button] /\ stick' \in [Pad -> Raw] /\ hat' \in [Pad -> Hat]
            /\ UNCHANGED <<plugged, opened, plugs, padVars>>
        <4>1. PICK p \in Plugged \cap Pad :
                \/ /\ \E b \in Button : down' = [down EXCEPT ![p] = IF b \in @ THEN @ \ {b} ELSE @ \cup {b}]
                   /\ UNCHANGED <<stick, hat>>
                \/ (\E raw \in Raw : stick' = [stick EXCEPT ![p] = raw]) /\ UNCHANGED <<down, hat>>
                \/ (\E h \in Hat : hat' = [hat EXCEPT ![p] = h]) /\ UNCHANGED <<down, stick>>
          BY <2>4, ReportShape
        <4>2. down' \in [Pad -> SUBSET Button]
          BY <1>1, <4>1
        <4>3. stick' \in [Pad -> Raw] /\ hat' \in [Pad -> Hat]
          BY <1>1, <4>1
        <4>4. QED
          BY <2>4, <4>2, <4>3, ReportShape
      <3>2. \E e \in Event : Queue(e)
        BY <2>4, ReportShape
      <3>3. events' \in Seq(Event) /\ Len(events') <= MaxEvents
        BY <3>2, Queued
      <3>4. QED
        BY <1>1, <2>1, <3>1, <3>3 DEF JoyTypes, JoyTypeOK, padVars
    <2>5. QED
      BY <1>2, <2>2, <2>3, <2>4 DEF Operator
  <1>3. CASE eventThread
    <2>1. /\ events' \in Seq(Event) /\ Len(events') <= MaxEvents
          /\ UNCHANGED <<plugged, plugs, inputs, down, stick, hat>>
      BY <1>3, Taken, TakenShape
    <2>2. SUFFICES /\ opened' \subseteq Pad
                   /\ joystick' \in Pad \cup {NoPad} /\ joystick_instance_id' \in Pad
                   /\ buttons' = NoMsg \/ buttons' \in [Button -> BOOLEAN]
                   /\ axis' = NoMsg \/ axis' \in [Axes -> -Full .. Full]
                   /\ buttons' = NoMsg <=> axis' = NoMsg
      BY <1>1, <2>1 DEF JoyTypes, JoyTypeOK
    <2> DEFINE e == Head(events)
    <2>3. e \in Event
      BY <1>3, Taken, TakenShape
    <2>4. /\ NoMsg \notin [Axes -> -Full .. Full]
          /\ NoMsg \notin [Button -> BOOLEAN]
      BY SomeMsg
    <2> HIDE DEF e
    <2>5. CASE e.type = "axis" /\ handleJoyAxis(e)
      <3>1. /\ UNCHANGED <<opened, joystick, joystick_instance_id, buttons>>
            /\ axis' = axis \/ (buttons # NoMsg /\ axis' = [axis EXCEPT !.stick = convertRawAxisValueToROS(e.value)])
        BY <2>5 DEF handleJoyAxis, Ours
      <3>2. convertRawAxisValueToROS(e.value) \in -Full .. Full
        BY <2>3, <2>5, Fields, Converted
      <3>3. buttons # NoMsg /\ axis' # axis => axis' \in [Axes -> -Full .. Full]
        BY <1>1, <3>1, <3>2
      <3>4. QED
        BY <1>1, <2>4, <3>1, <3>3
    <2>6. CASE e.type = "button" /\ handleJoyButton(e)
      <3>1. /\ UNCHANGED <<opened, joystick, joystick_instance_id, axis>>
            /\ buttons' = buttons \/ (buttons # NoMsg /\ buttons' = [buttons EXCEPT ![e.button] = e.down])
        BY <2>6 DEF handleJoyButton, Ours
      <3>2. e.button \in Button /\ e.down \in BOOLEAN
        BY <2>3, <2>6, Fields
      <3>3. buttons # NoMsg /\ buttons' # buttons => buttons' \in [Button -> BOOLEAN]
        BY <1>1, <3>1, <3>2
      <3>4. QED
        BY <1>1, <2>4, <3>1, <3>3
    <2>7. CASE e.type = "hat" /\ handleJoyHatMotion(e)
      <3>1. /\ UNCHANGED <<opened, joystick, joystick_instance_id, buttons>>
            /\ \/ axis' = axis
               \/ /\ buttons # NoMsg
                  /\ axis' = [axis EXCEPT !.x = Along(e.value, "left", "right", @),
                                          !.y = Along(e.value, "up", "down", @)]
        BY <2>7 DEF handleJoyHatMotion, Ours
      <3>2. \A p, n : \A now \in -Full .. Full : Along(e.value, p, n, now) \in -Full .. Full
        BY Converted DEF Along
      <3>3. ASSUME buttons # NoMsg, axis' # axis PROVE axis' \in [Axes -> -Full .. Full]
        <4>1. axis \in [Axes -> -Full .. Full]
          BY <1>1, <3>3
        <4>2. axis.x \in -Full .. Full /\ axis.y \in -Full .. Full
          BY <4>1 DEF Axes
        <4>3. /\ Along(e.value, "left", "right", axis.x) \in -Full .. Full
              /\ Along(e.value, "up", "down", axis.y) \in -Full .. Full
          BY <3>2, <4>2
        <4>4. axis' = [axis EXCEPT !.x = Along(e.value, "left", "right", axis.x),
                                   !.y = Along(e.value, "up", "down", axis.y)]
          BY <3>1, <3>3
        <4>5. QED
          BY <4>1, <4>3, <4>4
      <3>4. QED
        BY <1>1, <2>4, <3>1, <3>3
    <2>8. CASE e.type = "added" /\ handleJoyDeviceAdded(e)
      <3>1. CASE UNCHANGED <<opened, joystick_instance_id, buttons, axis>> /\ joystick' \in {joystick, NoPad}
        BY <1>1, <3>1
      <3>2. CASE /\ plugged # <<>> /\ joystick' = plugged[1] /\ joystick_instance_id' = plugged[1]
                 /\ opened' = opened \cup {plugged[1]}
                 /\ buttons' = IF buttons = NoMsg THEN [b \in Button |-> FALSE] ELSE buttons
                 /\ axis' = IF axis = NoMsg THEN [a \in Axes |-> 0] ELSE [axis EXCEPT !.stick = 0]
        <4>1. plugged[1] \in Pad
          BY <1>1, <3>2
        <4>2. buttons' \in [Button -> BOOLEAN]
          BY <1>1, <3>2
        <4>3. 0 \in -Full .. Full
          BY Converted
        <4>4. axis' \in [Axes -> -Full .. Full]
          BY <1>1, <3>2, <4>3
        <4>5. QED
          BY <1>1, <2>4, <3>2, <4>1, <4>2, <4>4
      <3>3. QED
        BY <2>8, <3>1, <3>2 DEF handleJoyDeviceAdded, padVars
    <2>9. CASE e.type = "removed" /\ handleJoyDeviceRemoved(e)
      BY <1>1, <2>9 DEF handleJoyDeviceRemoved, padVars
    <2>10. QED
      BY <1>3, <2>5, <2>6, <2>7, <2>8, <2>9, Handlers DEF e
  <1>4. CASE UNCHANGED joyVars
    BY <1>4 DEF joyVars, sdlVars, padVars, JoyTypes, JoyTypeOK
  <1>5. QED
    BY <1>2, <1>3, <1>4 DEF JoyNext

-----------------------------------------------------------------------------
(* No event of the kind waits in the queue. *)
NoPress(p, b) == \A h \in DOMAIN events : ~ Presses(events[h], p, b)
NoSteer(p)    == \A h \in DOMAIN events : ~ Steers(events[h], p)
NoPoint(p)    == \A h \in DOMAIN events : ~ Points(events[h], p)

(* Instance ids are not used twice, and a pad not yet plugged in is at rest. *)
Fresh ==
  /\ \A p \in Pad : p >= plugs => down[p] = {} /\ stick[p] = 0 /\ hat[p] = {} /\ p \notin Plugged
  /\ \A i \in DOMAIN events : Input(events[i]) => events[i].which < plugs

(* The last event about an input tells where it is. *)
LastPress ==
  \A p \in Pad, b \in Button : \A i \in DOMAIN events :
    Presses(events[i], p, b) /\ (\A h \in DOMAIN events : h > i => ~ Presses(events[h], p, b))
      => (events[i].down <=> b \in down[p])
LastSteer ==
  \A p \in Pad : \A i \in DOMAIN events :
    Steers(events[i], p) /\ (\A h \in DOMAIN events : h > i => ~ Steers(events[h], p))
      => events[i].value = stick[p]
LastPoint ==
  \A p \in Pad : \A i \in DOMAIN events :
    Points(events[i], p) /\ (\A h \in DOMAIN events : h > i => ~ Points(events[h], p))
      => events[i].value = hat[p]

(* While an event that opens a pad waits, none of the inputs of the pads    *)
(* that are plugged in has been handled, nor is before it in the queue.     *)
OpensFirst ==
  \A i, h \in DOMAIN events :
    h < i /\ Opens(events[i]) => ~ (Input(events[h]) /\ events[h].which \in Plugged)
Unread ==
  \A i \in DOMAIN events : Opens(events[i]) =>
    \A p \in Plugged :
      /\ \A b \in Button : NoPress(p, b) => b \notin down[p]
      /\ NoSteer(p) => stick[p] = 0
      /\ NoPoint(p) => hat[p] = {}

Told == Fresh /\ LastPress /\ LastSteer /\ LastPoint /\ OpensFirst /\ Unread

(* What waits when an event is queued. *)
LEMMA QueuedNone ==
  ASSUME JoyTypes, NEW e \in Event, Queue(e)
  PROVE  /\ \A p \in Pad, b \in Button : NoPress(p, b)' <=> (NoPress(p, b) /\ ~ Presses(e, p, b))
         /\ \A p \in Pad : NoSteer(p)' <=> (NoSteer(p) /\ ~ Steers(e, p))
         /\ \A p \in Pad : NoPoint(p)' <=> (NoPoint(p) /\ ~ Points(e, p))
  <1> DEFINE n == Len(events)
  <1>1. /\ n \in Nat /\ DOMAIN events = 1 .. n /\ DOMAIN events' = 1 .. n + 1
        /\ events'[n + 1] = e /\ \A i \in DOMAIN events : events'[i] = events[i]
    BY Queued
  <1> HIDE DEF n
  <1>2. \A i \in DOMAIN events' : i \in DOMAIN events \/ i = n + 1
    BY <1>1
  <1>3. DOMAIN events \subseteq DOMAIN events' /\ n + 1 \in DOMAIN events'
    BY <1>1
  <1>4. \A p \in Pad, b \in Button : NoPress(p, b)' <=> (NoPress(p, b) /\ ~ Presses(e, p, b))
    BY <1>1, <1>2, <1>3 DEF NoPress, Presses
  <1>5. \A p \in Pad : NoSteer(p)' <=> (NoSteer(p) /\ ~ Steers(e, p))
    BY <1>1, <1>2, <1>3 DEF NoSteer, Steers
  <1>6. \A p \in Pad : NoPoint(p)' <=> (NoPoint(p) /\ ~ Points(e, p))
    BY <1>1, <1>2, <1>3 DEF NoPoint, Points
  <1>7. QED
    BY <1>4, <1>5, <1>6

(* What waits when the first event is taken. *)
LEMMA TakenNone ==
  ASSUME JoyTypes, events # <<>>, events' = Tail(events)
  PROVE  /\ \A p \in Pad, b \in Button : NoPress(p, b) <=> (NoPress(p, b)' /\ ~ Presses(events[1], p, b))
         /\ \A p \in Pad : NoSteer(p) <=> (NoSteer(p)' /\ ~ Steers(events[1], p))
         /\ \A p \in Pad : NoPoint(p) <=> (NoPoint(p)' /\ ~ Points(events[1], p))
  <1> DEFINE n == Len(events)
  <1>1. /\ n \in Nat \ {0} /\ DOMAIN events = 1 .. n /\ DOMAIN events' = 1 .. n - 1
        /\ \A i \in DOMAIN events' : events'[i] = events[i + 1]
    BY Taken
  <1> HIDE DEF n
  <1>2. /\ \A i \in DOMAIN events : i = 1 \/ (i - 1 \in DOMAIN events' /\ events[i] = events'[i - 1])
        /\ \A i \in DOMAIN events' : i + 1 \in DOMAIN events /\ events'[i] = events[i + 1]
        /\ 1 \in DOMAIN events
    BY <1>1
  <1>3. \A p \in Pad, b \in Button : NoPress(p, b) <=> (NoPress(p, b)' /\ ~ Presses(events[1], p, b))
    BY <1>2 DEF NoPress
  <1>4. \A p \in Pad : NoSteer(p) <=> (NoSteer(p)' /\ ~ Steers(events[1], p))
    BY <1>2 DEF NoSteer
  <1>5. \A p \in Pad : NoPoint(p) <=> (NoPoint(p)' /\ ~ Points(events[1], p))
    BY <1>2 DEF NoPoint
  <1>6. QED
    BY <1>3, <1>4, <1>5

(* Taking an event keeps what the rest of the queue tells. *)
LEMMA ToldTaken ==
  ASSUME JoyTypes, Told, events # <<>>, events' = Tail(events), UNCHANGED <<plugged, plugs, down, stick, hat>>
  PROVE  Told'
  <1> DEFINE n == Len(events)
  <1>1. /\ n \in Nat \ {0} /\ DOMAIN events = 1 .. n /\ DOMAIN events' = 1 .. n - 1
        /\ \A i \in DOMAIN events' : events'[i] = events[i + 1]
    BY Taken
  <1> HIDE DEF n
  <1>2. /\ \A i \in DOMAIN events : i = 1 \/ (i - 1 \in DOMAIN events' /\ events[i] = events'[i - 1])
        /\ \A i \in DOMAIN events' : i + 1 \in DOMAIN events /\ events'[i] = events[i + 1]
        /\ \A i, h \in DOMAIN events' : h < i <=> h + 1 < i + 1
        /\ \A i \in DOMAIN events' : \A h \in DOMAIN events : h > i + 1 => h - 1 \in DOMAIN events' /\ h - 1 > i
        /\ 1 \in DOMAIN events /\ \A i \in DOMAIN events' : 1 < i + 1
    BY <1>1
  <1>3. Plugged' = Plugged
    BY DEF Plugged
  <1>4. Fresh'
    BY <1>2, <1>3 DEF Told, Fresh
  <1>5. LastPress'
    <2> SUFFICES ASSUME NEW p \in Pad, NEW b \in Button, NEW i \in DOMAIN events', Presses(events'[i], p, b),
                        \A h \in DOMAIN events' : h > i => ~ Presses(events'[h], p, b)
                 PROVE  events'[i].down <=> b \in down[p]
      BY DEF LastPress
    <2>1. \A h \in DOMAIN events : h > i + 1 => ~ Presses(events[h], p, b)
      BY <1>2
    <2>2. QED
      BY <1>2, <2>1 DEF Told, LastPress
  <1>6. LastSteer'
    <2> SUFFICES ASSUME NEW p \in Pad, NEW i \in DOMAIN events', Steers(events'[i], p),
                        \A h \in DOMAIN events' : h > i => ~ Steers(events'[h], p)
                 PROVE  events'[i].value = stick[p]
      BY DEF LastSteer
    <2>1. \A h \in DOMAIN events : h > i + 1 => ~ Steers(events[h], p)
      BY <1>2
    <2>2. QED
      BY <1>2, <2>1 DEF Told, LastSteer
  <1>7. LastPoint'
    <2> SUFFICES ASSUME NEW p \in Pad, NEW i \in DOMAIN events', Points(events'[i], p),
                        \A h \in DOMAIN events' : h > i => ~ Points(events'[h], p)
                 PROVE  events'[i].value = hat[p]
      BY DEF LastPoint
    <2>1. \A h \in DOMAIN events : h > i + 1 => ~ Points(events[h], p)
      BY <1>2
    <2>2. QED
      BY <1>2, <2>1 DEF Told, LastPoint
  <1>8. OpensFirst'
    BY <1>2, <1>3 DEF Told, OpensFirst
  <1>9. Unread'
    <2> SUFFICES ASSUME NEW i \in DOMAIN events', Opens(events'[i]), NEW p \in Plugged
                 PROVE  /\ \A b \in Button : NoPress(p, b)' => b \notin down[p]
                        /\ NoSteer(p)' => stick[p] = 0
                        /\ NoPoint(p)' => hat[p] = {}
      BY <1>3 DEF Unread
    <2>1. Opens(events[i + 1]) /\ i + 1 \in DOMAIN events /\ 1 < i + 1
      BY <1>2
    <2>2. /\ \A b \in Button : ~ Presses(events[1], p, b)
          /\ ~ Steers(events[1], p) /\ ~ Points(events[1], p)
      BY <1>2, <2>1 DEF Told, OpensFirst, Input, Presses, Steers, Points
    <2>3. p \in Pad
      BY DEF JoyTypes, JoyTypeOK, Plugged, Range
    <2>4. QED
      BY <2>1, <2>2, <2>3, TakenNone DEF Told, Unread
  <1>10. QED
    BY <1>4, <1>5, <1>6, <1>7, <1>8, <1>9 DEF Told

(* A pad's handle or listing changes nothing it has told. *)
LEMMA ToldListed ==
  ASSUME JoyTypes, Told, NEW e \in Event, Queue(e), ~ Input(e), UNCHANGED <<down, stick, hat>>,
         Plugged' \subseteq Plugged \cup {plugs}, plugs \in Pad \/ Plugged' \subseteq Plugged,
         plugs' \in {plugs, plugs + 1}, plugs \in Plugged' => plugs' = plugs + 1,
         Opens(e) => Plugged = {}
  PROVE  Told'
  <1> DEFINE n == Len(events)
  <1>1. /\ n \in Nat /\ DOMAIN events = 1 .. n /\ DOMAIN events' = 1 .. n + 1
        /\ events'[n + 1] = e /\ \A i \in DOMAIN events : events'[i] = events[i]
    BY Queued
  <1> HIDE DEF n
  <1>2. /\ \A i \in DOMAIN events' : i \in DOMAIN events \/ (i = n + 1 /\ events'[i] = e)
        /\ \A i \in DOMAIN events : i \in DOMAIN events' /\ i < n + 1 /\ ~ n + 1 < i
    BY <1>1
  <1>3. /\ \A p, b : ~ Presses(e, p, b)
        /\ \A p : ~ Steers(e, p) /\ ~ Points(e, p)
    BY DEF Input, Presses, Steers, Points
  <1>4. plugs \in Nat /\ \A p \in Pad : p \in Int
    BY JoyAssumption DEF JoyTypes, JoyTypeOK, Pad
  <1>5. Fresh'
    <2>1. \A p \in Pad : p >= plugs' => p >= plugs /\ p \notin Plugged'
      BY <1>4 DEF Told, Fresh
    <2>2. \A i \in DOMAIN events' : Input(events'[i]) => i \in DOMAIN events /\ events[i].which < plugs
      BY <1>1, <1>2 DEF Told, Fresh
    <2>3. \A i \in DOMAIN events' : Input(events'[i]) => events'[i].which < plugs'
      <3> SUFFICES ASSUME NEW i \in DOMAIN events', Input(events'[i]) PROVE events'[i].which < plugs'
        OBVIOUS
      <3>1. i \in DOMAIN events /\ events[i].which < plugs /\ events'[i] = events[i]
        BY <1>1, <2>2
      <3>2. events[i] \in Event /\ events[i].type # "added"
        BY <3>1 DEF JoyTypes, Input
      <3>3. events[i].which \in Int
        BY <1>4, <3>2, Fields
      <3>4. QED
        BY <1>4, <3>1, <3>3
    <2>4. QED
      BY <2>1, <2>3 DEF Told, Fresh
  <1>6. LastPress'
    <2> SUFFICES ASSUME NEW p \in Pad, NEW b \in Button, NEW i \in DOMAIN events', Presses(events'[i], p, b),
                        \A h \in DOMAIN events' : h > i => ~ Presses(events'[h], p, b)
                 PROVE  events'[i].down <=> b \in down[p]
      BY DEF LastPress
    <2>1. i \in DOMAIN events /\ \A h \in DOMAIN events : h > i => ~ Presses(events[h], p, b)
      BY <1>1, <1>2, <1>3
    <2>2. QED
      BY <1>1, <2>1 DEF Told, LastPress
  <1>7. LastSteer'
    <2> SUFFICES ASSUME NEW p \in Pad, NEW i \in DOMAIN events', Steers(events'[i], p),
                        \A h \in DOMAIN events' : h > i => ~ Steers(events'[h], p)
                 PROVE  events'[i].value = stick[p]
      BY DEF LastSteer
    <2>1. i \in DOMAIN events /\ \A h \in DOMAIN events : h > i => ~ Steers(events[h], p)
      BY <1>1, <1>2, <1>3
    <2>2. QED
      BY <1>1, <2>1 DEF Told, LastSteer
  <1>8. LastPoint'
    <2> SUFFICES ASSUME NEW p \in Pad, NEW i \in DOMAIN events', Points(events'[i], p),
                        \A h \in DOMAIN events' : h > i => ~ Points(events'[h], p)
                 PROVE  events'[i].value = hat[p]
      BY DEF LastPoint
    <2>1. i \in DOMAIN events /\ \A h \in DOMAIN events : h > i => ~ Points(events[h], p)
      BY <1>1, <1>2, <1>3
    <2>2. QED
      BY <1>1, <2>1 DEF Told, LastPoint
  <1>9. OpensFirst'
    <2> SUFFICES ASSUME NEW i \in DOMAIN events', NEW h \in DOMAIN events', h < i, Opens(events'[i]),
                        Input(events'[h]), events'[h].which \in Plugged'
                 PROVE  FALSE
      BY DEF OpensFirst
    <2>1. h \in DOMAIN events /\ events'[h] = events[h]
      BY <1>1, <1>2
    <2>2. events[h].which \in Plugged
      BY <1>4, <2>1 DEF Told, Fresh
    <2>3. CASE i \in DOMAIN events
      BY <1>1, <2>1, <2>2, <2>3 DEF Told, OpensFirst
    <2>4. CASE i = n + 1
      BY <1>1, <2>2, <2>4
    <2>5. QED
      BY <1>2, <2>3, <2>4
  <1>10. Unread'
    <2> SUFFICES ASSUME NEW i \in DOMAIN events', Opens(events'[i]), NEW p \in Plugged'
                 PROVE  /\ \A b \in Button : NoPress(p, b)' => b \notin down[p]
                        /\ NoSteer(p)' => stick[p] = 0
                        /\ NoPoint(p)' => hat[p] = {}
      BY DEF Unread
    <2>1. CASE p \in Plugged
      <3>1. i \in DOMAIN events /\ events'[i] = events[i]
        BY <1>1, <1>2, <2>1
      <3>2. p \in Pad
        BY <2>1 DEF JoyTypes, JoyTypeOK, Plugged, Range
      <3>3. QED
        BY <2>1, <3>1, <3>2, QueuedNone DEF Told, Unread
    <2>2. CASE p \notin Plugged
      <3>1. p = plugs /\ p \in Pad
        BY <2>2
      <3>2. down[p] = {} /\ stick[p] = 0 /\ hat[p] = {}
        BY <1>4, <3>1 DEF Told, Fresh
      <3>3. QED
        BY <3>2
    <2>3. QED
      BY <2>1, <2>2
  <1>11. QED
    BY <1>5, <1>6, <1>7, <1>8, <1>9, <1>10 DEF Told

(* A change that a pad reports is told by the event about it. *)
LEMMA ToldReported ==
  ASSUME JoyTypes, Told, Report PROVE Told'
  <1>1. PICK p \in Plugged \cap Pad :
              \/ \E b \in Button :
                   /\ [type |-> "button", which |-> p, button |-> b, down |-> b \notin down[p]] \in Event
                   /\ Queue([type |-> "button", which |-> p, button |-> b, down |-> b \notin down[p]])
                   /\ down' = [down EXCEPT ![p] = IF b \in @ THEN @ \ {b} ELSE @ \cup {b}]
                   /\ UNCHANGED <<stick, hat>>
              \/ \E raw \in Raw :
                   /\ [type |-> "axis", which |-> p, value |-> raw] \in Event
                   /\ Queue([type |-> "axis", which |-> p, value |-> raw])
                   /\ stick' = [stick EXCEPT ![p] = raw]
                   /\ UNCHANGED <<down, hat>>
              \/ \E h \in Hat :
                   /\ [type |-> "hat", which |-> p, value |-> h] \in Event
                   /\ Queue([type |-> "hat", which |-> p, value |-> h])
                   /\ hat' = [hat EXCEPT ![p] = h]
                   /\ UNCHANGED <<down, stick>>
    BY ReportShape
  <1>2. PICK e \in Event :
              /\ Queue(e) /\ e.which = p
              /\ \/ /\ e.type = "button" /\ e.button \in Button /\ (e.down <=> e.button \notin down[p])
                    /\ down' = [down EXCEPT ![p] = IF e.button \in @ THEN @ \ {e.button} ELSE @ \cup {e.button}]
                    /\ UNCHANGED <<stick, hat>>
                 \/ e.type = "axis" /\ stick' = [stick EXCEPT ![p] = e.value] /\ UNCHANGED <<down, hat>>
                 \/ e.type = "hat" /\ hat' = [hat EXCEPT ![p] = e.value] /\ UNCHANGED <<down, stick>>
    <2>1. CASE \E b \in Button :
                   /\ [type |-> "button", which |-> p, button |-> b, down |-> b \notin down[p]] \in Event
                   /\ Queue([type |-> "button", which |-> p, button |-> b, down |-> b \notin down[p]])
                   /\ down' = [down EXCEPT ![p] = IF b \in @ THEN @ \ {b} ELSE @ \cup {b}]
                   /\ UNCHANGED <<stick, hat>>
      BY <2>1
    <2>2. CASE \E raw \in Raw :
                   /\ [type |-> "axis", which |-> p, value |-> raw] \in Event
                   /\ Queue([type |-> "axis", which |-> p, value |-> raw])
                   /\ stick' = [stick EXCEPT ![p] = raw]
                   /\ UNCHANGED <<down, hat>>
      BY <2>2
    <2>3. CASE \E h \in Hat :
                   /\ [type |-> "hat", which |-> p, value |-> h] \in Event
                   /\ Queue([type |-> "hat", which |-> p, value |-> h])
                   /\ hat' = [hat EXCEPT ![p] = h]
                   /\ UNCHANGED <<down, stick>>
      BY <2>3
    <2>4. QED
      BY <1>1, <2>1, <2>2, <2>3
  <1> DEFINE n == Len(events)
  <1>3. /\ n \in Nat /\ DOMAIN events = 1 .. n /\ DOMAIN events' = 1 .. n + 1
        /\ events'[n + 1] = e /\ \A i \in DOMAIN events : events'[i] = events[i]
    BY <1>2, Queued
  <1> HIDE DEF n
  <1>4. /\ \A i \in DOMAIN events' : i \in DOMAIN events \/ (i = n + 1 /\ events'[i] = e)
        /\ \A i \in DOMAIN events : i \in DOMAIN events' /\ i < n + 1 /\ n + 1 > i
        /\ n + 1 \in DOMAIN events'
    BY <1>3
  <1>5. /\ UNCHANGED <<plugged, plugs>> /\ Plugged' = Plugged
        /\ down \in [Pad -> SUBSET Button] /\ stick \in [Pad -> Raw] /\ hat \in [Pad -> Hat]
    BY ReportShape DEF Plugged, JoyTypes, JoyTypeOK
  <1>6. p \in Pad /\ p \in Plugged /\ p < plugs /\ p \in Int /\ plugs \in Int
    <2>1. p \in Pad /\ p \in Plugged /\ p \in Int /\ plugs \in Int
      BY JoyAssumption DEF Pad, JoyTypes, JoyTypeOK
    <2>2. QED
      BY <2>1 DEF Told, Fresh
  <1>7. Fresh'
    <2>1. \A c \in Pad : c # p => down'[c] = down[c] /\ stick'[c] = stick[c] /\ hat'[c] = hat[c]
      BY <1>2, <1>5
    <2>2. \A c \in Pad : c >= plugs => c # p
      BY <1>6
    <2>3. QED
      BY <1>2, <1>3, <1>4, <1>5, <1>6, <2>1, <2>2 DEF Told, Fresh
  <1>8. LastPress'
    <2> SUFFICES ASSUME NEW c \in Pad, NEW b \in Button, NEW i \in DOMAIN events', Presses(events'[i], c, b),
                        \A h \in DOMAIN events' : h > i => ~ Presses(events'[h], c, b)
                 PROVE  events'[i].down <=> b \in down'[c]
      BY DEF LastPress
    <2>1. CASE i \in DOMAIN events
      <3>1. ~ Presses(e, c, b)
        BY <1>3, <1>4, <2>1
      <3>2. b \in down'[c] <=> b \in down[c]
        BY <1>2, <1>5, <1>6, <3>1 DEF Presses
      <3>3. \A h \in DOMAIN events : h > i => ~ Presses(events[h], c, b)
        BY <1>3, <1>4
      <3>4. QED
        BY <1>3, <2>1, <3>2, <3>3 DEF Told, LastPress
    <2>2. CASE i = n + 1
      <3>1. e.type = "button" /\ c = p /\ e.button = b
        BY <1>2, <1>3, <2>2 DEF Presses
      <3>2. down'[p] = IF b \in down[p] THEN down[p] \ {b} ELSE down[p] \cup {b}
        BY <1>2, <1>5, <1>6, <3>1
      <3>3. e.down <=> b \notin down[p]
        BY <1>2, <3>1
      <3>4. QED
        BY <1>3, <2>2, <3>1, <3>2, <3>3
    <2>3. QED
      BY <1>4, <2>1, <2>2
  <1>9. LastSteer'
    <2> SUFFICES ASSUME NEW c \in Pad, NEW i \in DOMAIN events', Steers(events'[i], c),
                        \A h \in DOMAIN events' : h > i => ~ Steers(events'[h], c)
                 PROVE  events'[i].value = stick'[c]
      BY DEF LastSteer
    <2>1. CASE i \in DOMAIN events
      <3>1. ~ Steers(e, c)
        BY <1>3, <1>4, <2>1
      <3>2. stick'[c] = stick[c]
        BY <1>2, <1>5, <1>6, <3>1 DEF Steers
      <3>3. \A h \in DOMAIN events : h > i => ~ Steers(events[h], c)
        BY <1>3, <1>4
      <3>4. QED
        BY <1>3, <2>1, <3>2, <3>3 DEF Told, LastSteer
    <2>2. CASE i = n + 1
      <3>1. e.type = "axis" /\ c = p
        BY <1>2, <1>3, <2>2 DEF Steers
      <3>2. QED
        BY <1>2, <1>3, <1>5, <1>6, <2>2, <3>1
    <2>3. QED
      BY <1>4, <2>1, <2>2
  <1>10. LastPoint'
    <2> SUFFICES ASSUME NEW c \in Pad, NEW i \in DOMAIN events', Points(events'[i], c),
                        \A h \in DOMAIN events' : h > i => ~ Points(events'[h], c)
                 PROVE  events'[i].value = hat'[c]
      BY DEF LastPoint
    <2>1. CASE i \in DOMAIN events
      <3>1. ~ Points(e, c)
        BY <1>3, <1>4, <2>1
      <3>2. hat'[c] = hat[c]
        BY <1>2, <1>5, <1>6, <3>1 DEF Points
      <3>3. \A h \in DOMAIN events : h > i => ~ Points(events[h], c)
        BY <1>3, <1>4
      <3>4. QED
        BY <1>3, <2>1, <3>2, <3>3 DEF Told, LastPoint
    <2>2. CASE i = n + 1
      <3>1. e.type = "hat" /\ c = p
        BY <1>2, <1>3, <2>2 DEF Points
      <3>2. QED
        BY <1>2, <1>3, <1>5, <1>6, <2>2, <3>1
    <2>3. QED
      BY <1>4, <2>1, <2>2
  <1>11. ~ Opens(e)
    BY <1>2 DEF Opens
  <1>12. OpensFirst'
    <2> SUFFICES ASSUME NEW i \in DOMAIN events', NEW h \in DOMAIN events', h < i, Opens(events'[i]),
                        Input(events'[h]), events'[h].which \in Plugged'
                 PROVE  FALSE
      BY DEF OpensFirst
    <2>1. i \in DOMAIN events /\ events'[i] = events[i]
      BY <1>3, <1>4, <1>11
    <2>2. h \in DOMAIN events /\ events'[h] = events[h]
      BY <1>3, <1>4, <2>1
    <2>3. QED
      BY <1>5, <2>1, <2>2 DEF Told, OpensFirst
  <1>13. Unread'
    <2> SUFFICES ASSUME NEW i \in DOMAIN events', Opens(events'[i]), NEW c \in Plugged
                 PROVE  /\ \A b \in Button : NoPress(c, b)' => b \notin down'[c]
                        /\ NoSteer(c)' => stick'[c] = 0
                        /\ NoPoint(c)' => hat'[c] = {}
      BY <1>5 DEF Unread
    <2>1. i \in DOMAIN events /\ events'[i] = events[i]
      BY <1>3, <1>4, <1>11
    <2>2. c \in Pad
      BY DEF JoyTypes, JoyTypeOK, Plugged, Range
    <2>3. ASSUME NEW b \in Button, NoPress(c, b)' PROVE b \notin down'[c]
      <3>1. NoPress(c, b) /\ ~ Presses(e, c, b)
        BY <1>2, <2>2, <2>3, QueuedNone
      <3>2. b \in down'[c] <=> b \in down[c]
        BY <1>2, <1>5, <1>6, <2>2, <3>1 DEF Presses
      <3>3. QED
        BY <2>1, <3>1, <3>2 DEF Told, Unread
    <2>4. ASSUME NoSteer(c)' PROVE stick'[c] = 0
      <3>1. NoSteer(c) /\ ~ Steers(e, c)
        BY <1>2, <2>2, <2>4, QueuedNone
      <3>2. stick'[c] = stick[c]
        BY <1>2, <1>5, <1>6, <2>2, <3>1 DEF Steers
      <3>3. QED
        BY <2>1, <3>1, <3>2 DEF Told, Unread
    <2>5. ASSUME NoPoint(c)' PROVE hat'[c] = {}
      <3>1. NoPoint(c) /\ ~ Points(e, c)
        BY <1>2, <2>2, <2>5, QueuedNone
      <3>2. hat'[c] = hat[c]
        BY <1>2, <1>5, <1>6, <2>2, <3>1 DEF Points
      <3>3. QED
        BY <2>1, <3>1, <3>2 DEF Told, Unread
    <2>6. QED
      BY <2>3, <2>4, <2>5
  <1>14. QED
    BY <1>7, <1>8, <1>9, <1>10, <1>12, <1>13 DEF Told

(* Every step of Joy keeps what the queue tells. *)
LEMMA ToldStep == JoyTypes /\ Told /\ [JoyNext]_joyVars => Told'
  <1> SUFFICES ASSUME JoyTypes, Told, [JoyNext]_joyVars PROVE Told'
    OBVIOUS
  <1>1. CASE PlugIn
    <2> DEFINE e == [type |-> "added", which |-> Len(plugged)]
    <2>1. /\ e \in Event /\ Queue(e) /\ ~ Input(e) /\ UNCHANGED <<down, stick, hat>>
          /\ Plugged' = Plugged \cup {plugs} /\ plugs \in Pad /\ plugs' = plugs + 1
      BY <1>1, PlugInShape DEF Input
    <2>2. Opens(e) => Plugged = {}
      <3>1. plugged \in Seq(Pad) /\ Len(plugged) \in Nat /\ DOMAIN plugged = 1 .. Len(plugged)
        BY DEF JoyTypes, JoyTypeOK
      <3>2. Opens(e) => DOMAIN plugged = {}
        BY <3>1 DEF Opens
      <3>3. QED
        BY <3>2 DEF Plugged, Range
    <2> HIDE DEF e
    <2>3. QED
      BY <2>1, <2>2, ToldListed
  <1>2. CASE Unplug
    <2>1. PICK i \in DOMAIN plugged :
           /\ [type |-> "removed", which |-> plugged[i]] \in Event
           /\ Queue([type |-> "removed", which |-> plugged[i]])
           /\ Plugged' \subseteq Plugged
           /\ UNCHANGED <<opened, plugs, down, stick, hat, padVars>>
      BY <1>2, UnplugShape
    <2> DEFINE e == [type |-> "removed", which |-> plugged[i]]
    <2>2. ~ Input(e) /\ ~ Opens(e)
      BY DEF Input, Opens
    <2>3. plugs \in Plugged' => plugs \notin Pad
      <3>1. plugs >= plugs
        BY JoyAssumption DEF JoyTypes, JoyTypeOK
      <3>2. plugs \in Pad => plugs \notin Plugged
        BY <3>1 DEF Told, Fresh
      <3>3. QED
        BY <2>1, <3>2
    <2>4. Plugged \subseteq Pad
      BY DEF JoyTypes, JoyTypeOK, Plugged, Range
    <2> HIDE DEF e
    <2>5. e \in Event /\ Queue(e)
      BY <2>1 DEF e
    <2>6. QED
      BY <2>1, <2>2, <2>3, <2>4, <2>5, ToldListed
  <1>3. CASE Report
    BY <1>3, ToldReported
  <1>4. CASE eventThread
    BY <1>4, ToldTaken, TakenShape
  <1>5. CASE UNCHANGED joyVars
    BY <1>5 DEF joyVars, sdlVars, Told, Fresh, LastPress, LastSteer, LastPoint, OpensFirst, Unread,
                NoPress, NoSteer, NoPoint, Plugged
  <1>6. QED
    BY <1>1, <1>2, <1>3, <1>4, <1>5 DEF JoyNext, Operator

-----------------------------------------------------------------------------
(* A message of a pad that is gone is cleared by an event in the queue. *)
Known == buttons # NoMsg => id \in Plugged \/ \E i \in DOMAIN events : Removes(events[i], id)

(* A pad that is about to be opened finds a message that has been cleared  *)
(* by then, or one that has stayed at rest.                                *)
Zero == (\A b \in Button : ~ buttons[b]) /\ axis.x = 0 /\ axis.y = 0
Cleared ==
  buttons # NoMsg =>
    \A i \in DOMAIN events : Opens(events[i]) =>
      \/ \E h \in DOMAIN events : h < i /\ Removes(events[h], id)
      \/ Zero /\ \A h \in DOMAIN events : h < i => ~ (Input(events[h]) /\ events[h].which = id)

(* An input of the open pad of which no event waits is in the message. *)
ShowsButtons == \A b \in Button : NoPress(id, b) => (buttons[b] <=> b \in down[id])
ShowsStick   == NoSteer(id) => axis.stick = convertRawAxisValueToROS(stick[id])
ShowsHat     ==
  NoPoint(id) =>
    /\ "left" \in hat[id] => axis.x = Full
    /\ "up" \in hat[id] => axis.y = Full
    /\ hat[id] = {} => axis.x = 0 /\ axis.y = 0
Shows ==
  joystick # NoPad => joystick = id /\ buttons # NoMsg /\ ShowsButtons /\ ShowsStick /\ ShowsHat

(* What SDL does to its pads keeps the message in step. *)
LEMMA OperatorKeeps ==
  ASSUME JoyTypes, Known, Cleared, Shows, Operator
  PROVE  Known' /\ Cleared' /\ Shows'
  <1>0. id \in Pad /\ Plugged \subseteq Pad /\ UNCHANGED padVars
    <2>1. id \in Pad /\ Plugged \subseteq Pad
      BY DEF JoyTypes, JoyTypeOK, id, Plugged, Range
    <2>2. UNCHANGED padVars
      BY DEF Operator, PlugIn, Unplug, Report
    <2>3. QED
      BY <2>1, <2>2
  <1>1. PICK e \in Event :
          /\ Queue(e)
          /\ Opens(e) => Plugged = {}
          /\ Plugged \subseteq Plugged' \cup {p \in Pad : Removes(e, p)}
          /\ \/ down' = down
             \/ /\ e.type = "button"
                /\ down' = [down EXCEPT ![e.which] = IF e.button \in @ THEN @ \ {e.button} ELSE @ \cup {e.button}]
          /\ \/ stick' = stick
             \/ e.type = "axis" /\ stick' = [stick EXCEPT ![e.which] = e.value]
          /\ \/ hat' = hat
             \/ e.type = "hat" /\ hat' = [hat EXCEPT ![e.which] = e.value]
    <2>1. CASE PlugIn
      <3> DEFINE e == [type |-> "added", which |-> Len(plugged)]
      <3>1. /\ e \in Event /\ Queue(e) /\ UNCHANGED <<down, stick, hat>>
            /\ Plugged \subseteq Plugged'
        BY <2>1, PlugInShape
      <3>2. Opens(e) => Plugged = {}
        <4>1. plugged \in Seq(Pad) /\ Len(plugged) \in Nat /\ DOMAIN plugged = 1 .. Len(plugged)
          BY DEF JoyTypes, JoyTypeOK
        <4>2. Opens(e) => DOMAIN plugged = {}
          BY <4>1 DEF Opens
        <4>3. QED
          BY <4>2 DEF Plugged, Range
      <3> HIDE DEF e
      <3>3. QED
        BY <3>1, <3>2
    <2>2. CASE Unplug
      <3>1. PICK i \in DOMAIN plugged :
             /\ plugged[i] \in Pad
             /\ [type |-> "removed", which |-> plugged[i]] \in Event
             /\ Queue([type |-> "removed", which |-> plugged[i]])
             /\ Plugged \subseteq Plugged' \cup {plugged[i]}
             /\ UNCHANGED <<opened, plugs, down, stick, hat, padVars>>
        BY <2>2, UnplugShape
      <3> DEFINE e == [type |-> "removed", which |-> plugged[i]]
      <3>2. ~ Opens(e) /\ Removes(e, plugged[i])
        BY DEF Opens, Removes
      <3>3. e \in Event /\ Queue(e)
        BY <3>1
      <3> HIDE DEF e
      <3>4. QED
        BY <3>1, <3>2, <3>3
    <2>3. CASE Report
      <3>1. Plugged' = Plugged
        BY <2>3, ReportShape DEF Plugged
      <3>2. PICK p \in Plugged \cap Pad :
              \/ \E b \in Button :
                   /\ [type |-> "button", which |-> p, button |-> b, down |-> b \notin down[p]] \in Event
                   /\ Queue([type |-> "button", which |-> p, button |-> b, down |-> b \notin down[p]])
                   /\ down' = [down EXCEPT ![p] = IF b \in @ THEN @ \ {b} ELSE @ \cup {b}]
                   /\ UNCHANGED <<stick, hat>>
              \/ \E raw \in Raw :
                   /\ [type |-> "axis", which |-> p, value |-> raw] \in Event
                   /\ Queue([type |-> "axis", which |-> p, value |-> raw])
                   /\ stick' = [stick EXCEPT ![p] = raw]
                   /\ UNCHANGED <<down, hat>>
              \/ \E h \in Hat :
                   /\ [type |-> "hat", which |-> p, value |-> h] \in Event
                   /\ Queue([type |-> "hat", which |-> p, value |-> h])
                   /\ hat' = [hat EXCEPT ![p] = h]
                   /\ UNCHANGED <<down, stick>>
        BY <2>3, ReportShape
      <3>3. \A t \in {"button", "axis", "hat"} : \A x \in Event : x.type = t => ~ Opens(x)
        BY DEF Opens
      <3>4. CASE \E b \in Button :
                   /\ [type |-> "button", which |-> p, button |-> b, down |-> b \notin down[p]] \in Event
                   /\ Queue([type |-> "button", which |-> p, button |-> b, down |-> b \notin down[p]])
                   /\ down' = [down EXCEPT ![p] = IF b \in @ THEN @ \ {b} ELSE @ \cup {b}]
                   /\ UNCHANGED <<stick, hat>>
        BY <3>1, <3>3, <3>4
      <3>5. CASE \E raw \in Raw :
                   /\ [type |-> "axis", which |-> p, value |-> raw] \in Event
                   /\ Queue([type |-> "axis", which |-> p, value |-> raw])
                   /\ stick' = [stick EXCEPT ![p] = raw]
                   /\ UNCHANGED <<down, hat>>
        BY <3>1, <3>3, <3>5
      <3>6. CASE \E h \in Hat :
                   /\ [type |-> "hat", which |-> p, value |-> h] \in Event
                   /\ Queue([type |-> "hat", which |-> p, value |-> h])
                   /\ hat' = [hat EXCEPT ![p] = h]
                   /\ UNCHANGED <<down, stick>>
        BY <3>1, <3>3, <3>6
      <3>7. QED
        BY <3>2, <3>4, <3>5, <3>6
    <2>4. QED
      BY <2>1, <2>2, <2>3 DEF Operator
  <1> DEFINE n == Len(events)
  <1>2. /\ n \in Nat /\ DOMAIN events = 1 .. n /\ DOMAIN events' = 1 .. n + 1
        /\ events'[n + 1] = e /\ \A i \in DOMAIN events : events'[i] = events[i]
    BY <1>1, Queued
  <1> HIDE DEF n
  <1>3. /\ \A i \in DOMAIN events' : i \in DOMAIN events \/ (i = n + 1 /\ events'[i] = e)
        /\ \A i \in DOMAIN events : i \in DOMAIN events' /\ i < n + 1 /\ ~ n + 1 < i
        /\ n + 1 \in DOMAIN events'
    BY <1>2
  <1>4. id' = id /\ joystick' = joystick /\ buttons' = buttons /\ axis' = axis /\ id' \in Pad
    BY <1>0 DEF padVars, id
  <1>5. Known'
    <2> SUFFICES ASSUME buttons # NoMsg, id \notin Plugged'
                 PROVE  \E i \in DOMAIN events' : Removes(events'[i], id)
      BY <1>4 DEF Known
    <2>1. CASE id \in Plugged
      BY <1>1, <1>2, <1>3, <2>1
    <2>2. CASE id \notin Plugged
      BY <1>2, <1>3, <2>2 DEF Known
    <2>3. QED
      BY <2>1, <2>2
  <1>6. Cleared'
    <2> SUFFICES ASSUME buttons # NoMsg, NEW i \in DOMAIN events', Opens(events'[i])
                 PROVE  \/ \E h \in DOMAIN events' : h < i /\ Removes(events'[h], id)
                        \/ Zero /\ \A h \in DOMAIN events' : h < i => ~ (Input(events'[h]) /\ events'[h].which = id)
      BY <1>4 DEF Cleared, Zero
    <2>1. CASE i \in DOMAIN events
      <3>1. Opens(events[i])
        BY <1>2, <2>1
      <3>2. CASE \E h \in DOMAIN events : h < i /\ Removes(events[h], id)
        BY <1>2, <1>3, <3>2
      <3>3. CASE Zero /\ \A h \in DOMAIN events : h < i => ~ (Input(events[h]) /\ events[h].which = id)
        BY <1>2, <1>3, <2>1, <3>3
      <3>4. QED
        BY <2>1, <3>1, <3>2, <3>3 DEF Cleared
    <2>2. CASE i = n + 1
      <3>1. \E h \in DOMAIN events : Removes(events[h], id)
        BY <1>1, <1>2, <2>2 DEF Known
      <3>2. QED
        BY <1>2, <1>3, <2>2, <3>1
    <2>3. QED
      BY <1>3, <2>1, <2>2
  <1>7. Shows'
    <2> SUFFICES ASSUME joystick # NoPad PROVE ShowsButtons' /\ ShowsStick' /\ ShowsHat'
      BY <1>4 DEF Shows
    <2>1. down \in [Pad -> SUBSET Button] /\ stick \in [Pad -> Raw] /\ hat \in [Pad -> Hat]
      BY DEF JoyTypes, JoyTypeOK
    <2>2. ShowsButtons /\ ShowsStick /\ ShowsHat
      BY DEF Shows
    <2>3. ShowsButtons'
      <3> SUFFICES ASSUME NEW b \in Button, NoPress(id, b)' PROVE buttons[b] <=> b \in down'[id]
        BY <1>4 DEF ShowsButtons
      <3>2. NoPress(id, b) /\ ~ Presses(e, id, b)
        BY <1>0, <1>1, <1>4, QueuedNone
      <3>3. b \in down'[id] <=> b \in down[id]
        BY <1>0, <1>1, <2>1, <3>2 DEF Presses
      <3>4. QED
        BY <2>2, <3>2, <3>3 DEF ShowsButtons
    <2>4. ShowsStick'
      <3> SUFFICES ASSUME NoSteer(id)' PROVE axis.stick = convertRawAxisValueToROS(stick'[id])
        BY <1>4 DEF ShowsStick, convertRawAxisValueToROS
      <3>1. NoSteer(id) /\ ~ Steers(e, id)
        BY <1>0, <1>1, <1>4, QueuedNone
      <3>2. stick'[id] = stick[id]
        BY <1>0, <1>1, <2>1, <3>1 DEF Steers
      <3>3. QED
        BY <2>2, <3>1, <3>2 DEF ShowsStick
    <2>5. ShowsHat'
      <3> SUFFICES ASSUME NoPoint(id)'
                   PROVE  /\ "left" \in hat'[id] => axis.x = Full
                          /\ "up" \in hat'[id] => axis.y = Full
                          /\ hat'[id] = {} => axis.x = 0 /\ axis.y = 0
        BY <1>4 DEF ShowsHat
      <3>1. NoPoint(id) /\ ~ Points(e, id)
        BY <1>0, <1>1, <1>4, QueuedNone
      <3>2. hat'[id] = hat[id]
        BY <1>0, <1>1, <2>1, <3>1 DEF Points
      <3>3. QED
        BY <2>2, <3>1, <3>2 DEF ShowsHat
    <2>6. QED
      BY <2>3, <2>4, <2>5
  <1>8. QED
    BY <1>5, <1>6, <1>7

(* An event that leaves the message and its pad as they are leaves the     *)
(* rest of the queue to say the same of them, unless it is an input of     *)
(* the pad or its removal.                                                 *)
LEMMA PassedBy ==
  ASSUME JoyTypes, Known, Cleared, eventThread,
         joystick_instance_id' = joystick_instance_id,
         buttons = NoMsg <=> buttons' = NoMsg,
         \/ buttons' = buttons /\ axis' = axis
         \/ Input(Head(events)) /\ Head(events).which = id,
         ~ Removes(Head(events), id)
  PROVE  Known' /\ Cleared'
  <1> DEFINE n == Len(events)
  <1>1. /\ n \in Nat \ {0} /\ DOMAIN events = 1 .. n /\ DOMAIN events' = 1 .. n - 1
        /\ Head(events) = events[1]
        /\ \A i \in DOMAIN events' : events'[i] = events[i + 1]
    BY Taken, TakenShape
  <1> HIDE DEF n
  <1>2. /\ \A i \in DOMAIN events : i = 1 \/ (i - 1 \in DOMAIN events' /\ events[i] = events'[i - 1])
        /\ \A i \in DOMAIN events' : i + 1 \in DOMAIN events /\ events'[i] = events[i + 1]
        /\ \A i, h \in DOMAIN events' : h < i <=> h + 1 < i + 1
        /\ \A i \in DOMAIN events' : \A h \in DOMAIN events : h < i + 1 /\ h # 1 => h - 1 < i
        /\ 1 \in DOMAIN events /\ \A i \in DOMAIN events' : 1 < i + 1
    BY <1>1
  <1>3. Plugged' = Plugged /\ id' = id
    BY TakenShape DEF id
  <1>4. Known'
    BY <1>1, <1>2, <1>3 DEF Known
  <1>5. Cleared'
    <2> SUFFICES ASSUME buttons' # NoMsg, NEW i \in DOMAIN events', Opens(events'[i])
                 PROVE  \/ \E h \in DOMAIN events' : h < i /\ Removes(events'[h], id)
                        \/ Zero' /\ \A h \in DOMAIN events' : h < i => ~ (Input(events'[h]) /\ events'[h].which = id)
      BY <1>3 DEF Cleared
    <2>1. buttons # NoMsg /\ i + 1 \in DOMAIN events /\ Opens(events[i + 1])
      BY <1>2
    <2>2. CASE \E h \in DOMAIN events : h < i + 1 /\ Removes(events[h], id)
      BY <1>1, <1>2, <2>2
    <2>3. CASE Zero /\ \A h \in DOMAIN events : h < i + 1 => ~ (Input(events[h]) /\ events[h].which = id)
      <3>1. buttons' = buttons /\ axis' = axis
        BY <1>1, <1>2, <2>3
      <3>2. Zero'
        BY <2>3, <3>1 DEF Zero
      <3>3. QED
        BY <1>2, <2>3, <3>2
    <2>4. QED
      BY <2>1, <2>2, <2>3 DEF Cleared
  <1>6. QED
    BY <1>4, <1>5

(* So it does for what the message shows. *)
LEMMA ShownStill ==
  ASSUME JoyTypes, Shows, eventThread, joystick # NoPad,
         UNCHANGED padVars, ~ (Input(Head(events)) /\ Head(events).which = id)
  PROVE  Shows'
  <1>1. id' = id /\ id \in Pad /\ UNCHANGED <<joystick, buttons, axis, down, stick, hat>> /\ Head(events) = events[1]
    BY Taken, TakenShape DEF id, padVars, JoyTypes, JoyTypeOK
  <1>2. /\ \A b \in Button : ~ Presses(events[1], id, b)
        /\ ~ Steers(events[1], id) /\ ~ Points(events[1], id)
    BY <1>1 DEF Input, Presses, Steers, Points
  <1>3. \A b \in Button : NoPress(id, b)' => NoPress(id, b)
    BY <1>1, <1>2, TakenNone, TakenShape
  <1>4. NoSteer(id)' => NoSteer(id)
    BY <1>1, <1>2, TakenNone, TakenShape
  <1>5. NoPoint(id)' => NoPoint(id)
    BY <1>1, <1>2, TakenNone, TakenShape
  <1>6. ShowsButtons'
    BY <1>1, <1>3 DEF Shows, ShowsButtons
  <1>7. ShowsStick'
    <2>1. convertRawAxisValueToROS(stick[id])' = convertRawAxisValueToROS(stick[id])
      BY <1>1 DEF convertRawAxisValueToROS
    <2>2. QED
      BY <1>1, <1>4, <2>1 DEF Shows, ShowsStick
  <1>8. ShowsHat'
    BY <1>1, <1>5 DEF Shows, ShowsHat
  <1>9. QED
    BY <1>1, <1>6, <1>7, <1>8 DEF Shows

(* A handled button, axis or hat of the open pad is shown as it is.        *)
LEMMA ButtonShown ==
  ASSUME JoyTypes, Told, Shows, eventThread, joystick # NoPad,
         Head(events).type = "button", handleJoyButton(Head(events)), Head(events).which = id
  PROVE  Shows'
  <1> DEFINE e == events[1]
  <1>1. /\ id' = id /\ id \in Pad /\ UNCHANGED <<joystick, axis, down, stick, hat>> /\ Head(events) = e
        /\ e \in Event /\ e.type = "button" /\ e.which = id
    BY Taken, TakenShape DEF id, JoyTypes, JoyTypeOK, handleJoyButton
  <1>2. joystick = id /\ buttons # NoMsg /\ ShowsButtons /\ ShowsStick /\ ShowsHat
    BY DEF Shows
  <1>3. buttons \in [Button -> BOOLEAN] /\ buttons' = [buttons EXCEPT ![e.button] = e.down]
    BY <1>1, <1>2 DEF JoyTypes, JoyTypeOK, handleJoyButton, Ours, id
  <1>4. e.button \in Button /\ e.down \in BOOLEAN
    BY <1>1, Fields
  <1>5. ~ Steers(e, id) /\ ~ Points(e, id)
    BY <1>1 DEF Steers, Points
  <1>6. NoSteer(id)' => NoSteer(id)
    BY <1>1, <1>5, TakenNone, TakenShape
  <1>7. NoPoint(id)' => NoPoint(id)
    BY <1>1, <1>5, TakenNone, TakenShape
  <1>8. ShowsButtons'
    <2> SUFFICES ASSUME NEW b \in Button, NoPress(id, b)' PROVE buttons'[b] <=> b \in down[id]
      BY <1>1 DEF ShowsButtons
    <2>1. CASE b = e.button
      <3>1. Presses(events[1], id, b)
        BY <1>1, <2>1 DEF Presses
      <3>2. \A h \in DOMAIN events : h > 1 => ~ Presses(events[h], id, b)
        <4>1. /\ Len(events) \in Nat /\ DOMAIN events = 1 .. Len(events) /\ DOMAIN events' = 1 .. Len(events) - 1
              /\ \A i \in DOMAIN events' : events'[i] = events[i + 1]
          BY Taken, TakenShape
        <4>2. \A h \in DOMAIN events : h > 1 => h - 1 \in DOMAIN events' /\ events'[h - 1] = events[h]
          BY <4>1
        <4>3. QED
          BY <1>1, <4>2 DEF NoPress
      <3>3. 1 \in DOMAIN events
        BY Taken, TakenShape
      <3>4. e.down <=> b \in down[id]
        BY <1>1, <3>1, <3>2, <3>3 DEF Told, LastPress
      <3>5. QED
        BY <1>3, <1>4, <2>1, <3>4
    <2>2. CASE b # e.button
      <3>1. ~ Presses(events[1], id, b)
        BY <2>2 DEF Presses
      <3>2. NoPress(id, b)
        BY <1>1, <3>1, TakenNone, TakenShape
      <3>3. buttons'[b] = buttons[b]
        BY <1>3, <2>2
      <3>4. QED
        BY <1>2, <3>2, <3>3 DEF ShowsButtons
    <2>3. QED
      BY <2>1, <2>2
  <1>9. ShowsStick'
    <2>1. convertRawAxisValueToROS(stick[id])' = convertRawAxisValueToROS(stick[id])
      BY <1>1 DEF convertRawAxisValueToROS
    <2>2. QED
      BY <1>1, <1>2, <1>6, <2>1 DEF ShowsStick
  <1>10. ShowsHat'
    BY <1>1, <1>2, <1>7 DEF ShowsHat
  <1>11. buttons' # NoMsg
    BY <1>3, <1>4, SomeMsg
  <1>12. QED
    BY <1>1, <1>2, <1>8, <1>9, <1>10, <1>11 DEF Shows

LEMMA AxisShown ==
  ASSUME JoyTypes, Told, Shows, eventThread, joystick # NoPad,
         Head(events).type = "axis", handleJoyAxis(Head(events)), Head(events).which = id
  PROVE  Shows'
  <1> DEFINE e == events[1]
  <1>1. /\ id' = id /\ id \in Pad /\ UNCHANGED <<joystick, buttons, down, stick, hat>> /\ Head(events) = e
        /\ e \in Event /\ e.type = "axis" /\ e.which = id
    BY Taken, TakenShape DEF id, JoyTypes, JoyTypeOK, handleJoyAxis
  <1>2. joystick = id /\ buttons # NoMsg /\ ShowsButtons /\ ShowsStick /\ ShowsHat
    BY DEF Shows
  <1>3. axis' = [axis EXCEPT !.stick = convertRawAxisValueToROS(e.value)]
    BY <1>1, <1>2 DEF handleJoyAxis, Ours, id
  <1>4. axis \in [Axes -> -Full .. Full]
    BY <1>2 DEF JoyTypes, JoyTypeOK
  <1>5. /\ axis'.stick = convertRawAxisValueToROS(e.value)
        /\ axis'.x = axis.x /\ axis'.y = axis.y
    BY <1>3, <1>4 DEF Axes
  <1>6. /\ \A b \in Button : ~ Presses(e, id, b)
        /\ ~ Points(e, id)
    BY <1>1 DEF Presses, Points
  <1>7. \A b \in Button : NoPress(id, b)' => NoPress(id, b)
    BY <1>1, <1>6, TakenNone, TakenShape
  <1>8. NoPoint(id)' => NoPoint(id)
    BY <1>1, <1>6, TakenNone, TakenShape
  <1>9. ShowsButtons'
    BY <1>1, <1>2, <1>7 DEF ShowsButtons
  <1>10. ShowsStick'
    <2> SUFFICES ASSUME NoSteer(id)' PROVE convertRawAxisValueToROS(e.value) = convertRawAxisValueToROS(stick[id])
      BY <1>1, <1>5 DEF ShowsStick, convertRawAxisValueToROS
    <2>1. Steers(events[1], id) /\ 1 \in DOMAIN events
      BY <1>1, Taken, TakenShape DEF Steers
    <2>2. \A h \in DOMAIN events : h > 1 => ~ Steers(events[h], id)
      <3>1. /\ Len(events) \in Nat /\ DOMAIN events = 1 .. Len(events) /\ DOMAIN events' = 1 .. Len(events) - 1
            /\ \A i \in DOMAIN events' : events'[i] = events[i + 1]
        BY Taken, TakenShape
      <3>2. \A h \in DOMAIN events : h > 1 => h - 1 \in DOMAIN events' /\ events'[h - 1] = events[h]
        BY <3>1
      <3>3. QED
        BY <1>1, <3>2 DEF NoSteer
    <2>3. e.value = stick[id]
      BY <1>1, <2>1, <2>2 DEF Told, LastSteer
    <2>4. QED
      BY <2>3
  <1>11. ShowsHat'
    BY <1>1, <1>2, <1>5, <1>8 DEF ShowsHat
  <1>12. QED
    BY <1>1, <1>2, <1>9, <1>10, <1>11 DEF Shows

LEMMA HatShown ==
  ASSUME JoyTypes, Told, Shows, eventThread, joystick # NoPad,
         Head(events).type = "hat", handleJoyHatMotion(Head(events)), Head(events).which = id
  PROVE  Shows'
  <1> DEFINE e == events[1]
  <1>1. /\ id' = id /\ id \in Pad /\ UNCHANGED <<joystick, buttons, down, stick, hat>> /\ Head(events) = e
        /\ e \in Event /\ e.type = "hat" /\ e.which = id
    BY Taken, TakenShape DEF id, JoyTypes, JoyTypeOK, handleJoyHatMotion
  <1>2. joystick = id /\ buttons # NoMsg /\ ShowsButtons /\ ShowsStick /\ ShowsHat
    BY DEF Shows
  <1>3. axis' = [axis EXCEPT !.x = Along(e.value, "left", "right", @),
                             !.y = Along(e.value, "up", "down", @)]
    BY <1>1, <1>2 DEF handleJoyHatMotion, Ours, id
  <1>4. axis \in [Axes -> -Full .. Full]
    BY <1>2 DEF JoyTypes, JoyTypeOK
  <1>5. /\ axis'.stick = axis.stick
        /\ axis'.x = Along(e.value, "left", "right", axis.x)
        /\ axis'.y = Along(e.value, "up", "down", axis.y)
    BY <1>3, <1>4 DEF Axes
  <1>6. /\ \A b \in Button : ~ Presses(e, id, b)
        /\ ~ Steers(e, id)
    BY <1>1 DEF Presses, Steers
  <1>7. \A b \in Button : NoPress(id, b)' => NoPress(id, b)
    BY <1>1, <1>6, TakenNone, TakenShape
  <1>8. NoSteer(id)' => NoSteer(id)
    BY <1>1, <1>6, TakenNone, TakenShape
  <1>9. ShowsButtons'
    BY <1>1, <1>2, <1>7 DEF ShowsButtons
  <1>10. ShowsStick'
    <2>1. convertRawAxisValueToROS(stick[id])' = convertRawAxisValueToROS(stick[id])
      BY <1>1 DEF convertRawAxisValueToROS
    <2>2. QED
      BY <1>1, <1>2, <1>5, <1>8, <2>1 DEF ShowsStick
  <1>11. ShowsHat'
    <2> SUFFICES ASSUME NoPoint(id)'
                 PROVE  /\ "left" \in hat[id] => axis'.x = Full
                        /\ "up" \in hat[id] => axis'.y = Full
                        /\ hat[id] = {} => axis'.x = 0 /\ axis'.y = 0
      BY <1>1 DEF ShowsHat
    <2>1. Points(events[1], id) /\ 1 \in DOMAIN events
      BY <1>1, Taken, TakenShape DEF Points
    <2>2. \A h \in DOMAIN events : h > 1 => ~ Points(events[h], id)
      <3>1. /\ Len(events) \in Nat /\ DOMAIN events = 1 .. Len(events) /\ DOMAIN events' = 1 .. Len(events) - 1
            /\ \A i \in DOMAIN events' : events'[i] = events[i + 1]
        BY Taken, TakenShape
      <3>2. \A h \in DOMAIN events : h > 1 => h - 1 \in DOMAIN events' /\ events'[h - 1] = events[h]
        BY <3>1
      <3>3. QED
        BY <1>1, <3>2 DEF NoPoint
    <2>3. e.value = hat[id]
      BY <1>1, <2>1, <2>2 DEF Told, LastPoint
    <2>4. hat[id] \in Hat
      BY <1>1 DEF JoyTypes, JoyTypeOK
    <2>5. /\ "left" \in hat[id] => "right" \notin hat[id]
          /\ "up" \in hat[id] => "down" \notin hat[id]
      BY <2>4, HatAssumption
    <2>6. QED
      BY <1>5, <2>3, <2>5 DEF Along
  <1>12. QED
    BY <1>1, <1>2, <1>9, <1>10, <1>11 DEF Shows

(* A pad that is opened is shown at rest, and its inputs are still to come. *)
LEMMA OpenShown ==
  ASSUME JoyTypes, Told, Cleared, eventThread, Opens(Head(events)),
         plugged # <<>>, joystick' = plugged[1], joystick_instance_id' = plugged[1],
         buttons' = IF buttons = NoMsg THEN [b \in Button |-> FALSE] ELSE buttons,
         axis' = IF axis = NoMsg THEN [a \in Axes |-> 0] ELSE [axis EXCEPT !.stick = 0]
  PROVE  Known' /\ Cleared' /\ Shows'
  <1> DEFINE p == plugged[1]
  <1>1. /\ UNCHANGED <<plugged, down, stick, hat>> /\ Plugged' = Plugged
        /\ p \in Pad /\ p \in Plugged /\ id' = p /\ joystick' = p /\ p' = p
    <2>1. p \in Pad /\ p \in Plugged
      BY DEF JoyTypes, JoyTypeOK, Plugged, Range
    <2>2. QED
      BY <2>1, TakenShape DEF id
  <1> DEFINE n == Len(events)
  <1>2. /\ n \in Nat \ {0} /\ DOMAIN events = 1 .. n /\ DOMAIN events' = 1 .. n - 1
        /\ \A i \in DOMAIN events' : events'[i] = events[i + 1]
        /\ Head(events) = events[1]
    BY Taken, TakenShape
  <1> HIDE DEF n
  <1>3. /\ \A i \in DOMAIN events' : i + 1 \in DOMAIN events /\ events'[i] = events[i + 1]
        /\ \A i, h \in DOMAIN events' : h < i <=> h + 1 < i + 1
        /\ 1 \in DOMAIN events /\ ~ \E h \in DOMAIN events : h < 1
    BY <1>2
  <1> HIDE DEF p
  <1>4. buttons # NoMsg => Zero
    BY <1>2, <1>3 DEF Cleared
  <1>5. /\ buttons' \in [Button -> BOOLEAN] /\ \A b \in Button : ~ buttons'[b]
    <2>1. CASE buttons = NoMsg
      BY <2>1
    <2>2. CASE buttons # NoMsg
      BY <1>4, <2>2 DEF Zero, JoyTypes, JoyTypeOK
    <2>3. QED
      BY <2>1, <2>2
  <1>6. axis'.stick = 0 /\ axis'.x = 0 /\ axis'.y = 0
    <2>1. CASE axis = NoMsg
      BY <2>1 DEF Axes
    <2>2. CASE axis # NoMsg
      <3>1. axis \in [Axes -> -Full .. Full] /\ axis' = [axis EXCEPT !.stick = 0] /\ Zero
        BY <1>4, <2>2 DEF JoyTypes, JoyTypeOK
      <3>2. QED
        BY <3>1 DEF Axes, Zero
    <2>3. QED
      BY <2>1, <2>2
  <1>7. buttons' # NoMsg
    BY <1>5, SomeMsg
  <1>8. Known'
    BY <1>1 DEF Known
  <1>9. Cleared'
    <2>1. Zero'
      BY <1>5, <1>6 DEF Zero
    <2>2. ASSUME NEW i \in DOMAIN events', Opens(events'[i]), NEW h \in DOMAIN events', h < i
          PROVE  ~ (Input(events'[h]) /\ events'[h].which = p)
      BY <1>1, <1>3, <2>2 DEF Told, OpensFirst
    <2>3. QED
      BY <1>1, <2>1, <2>2 DEF Cleared
  <1>10. Shows'
    <2>1. /\ \A b \in Button : ~ Presses(events[1], p, b)
          /\ ~ Steers(events[1], p) /\ ~ Points(events[1], p)
      BY <1>2 DEF Opens, Presses, Steers, Points
    <2>2. /\ \A b \in Button : NoPress(p, b) => b \notin down[p]
          /\ NoSteer(p) => stick[p] = 0
          /\ NoPoint(p) => hat[p] = {}
      BY <1>1, <1>2, <1>3 DEF Told, Unread
    <2>3. ShowsButtons'
      <3> SUFFICES ASSUME NEW b \in Button, NoPress(p, b)' PROVE buttons'[b] <=> b \in down[p]
        BY <1>1 DEF ShowsButtons, NoPress
      <3>1. NoPress(p, b)
        BY <1>1, <2>1, TakenNone, TakenShape DEF p
      <3>2. QED
        BY <1>5, <2>2, <3>1
    <2>4. ShowsStick'
      <3> SUFFICES ASSUME NoSteer(p)' PROVE convertRawAxisValueToROS(stick[p]) = 0
        BY <1>1, <1>6 DEF ShowsStick, NoSteer, convertRawAxisValueToROS
      <3>1. NoSteer(p)
        BY <1>1, <2>1, TakenNone, TakenShape DEF p
      <3>2. QED
        BY <2>2, <3>1, Converted
    <2>5. ShowsHat'
      <3> SUFFICES ASSUME NoPoint(p)' PROVE hat[p] = {}
        BY <1>1, <1>6 DEF ShowsHat, NoPoint
      <3>1. NoPoint(p)
        BY <1>1, <2>1, TakenNone, TakenShape DEF p
      <3>2. QED
        BY <2>2, <3>1
    <2>6. QED
      BY <1>1, <1>7, <2>3, <2>4, <2>5 DEF Shows
  <1>11. QED
    BY <1>8, <1>9, <1>10

(* The event thread keeps the message in step. *)
LEMMA ThreadKeeps ==
  ASSUME JoyTypes, Told, Known, Cleared, Shows, eventThread
  PROVE  Known' /\ Cleared' /\ Shows'
  <1> DEFINE e == Head(events)
  <1>1. e \in Event /\ (joystick = NoPad \/ (joystick = id /\ buttons # NoMsg))
    BY Taken, TakenShape DEF Shows
  <1>2. ASSUME Input(e), UNCHANGED <<joystick, joystick_instance_id>>, buttons = NoMsg <=> buttons' = NoMsg,
               e.which # id \/ buttons = NoMsg => UNCHANGED padVars,
               joystick # NoPad /\ e.which = id => Shows'
        PROVE  Known' /\ Cleared' /\ Shows'
    <2>1. ~ Removes(e, id)
      BY <1>2 DEF Input, Removes
    <2>2. Known' /\ Cleared'
      <3>1. \/ buttons' = buttons /\ axis' = axis
            \/ Input(Head(events)) /\ Head(events).which = id
        BY <1>2 DEF padVars
      <3>2. ~ Removes(Head(events), id)
        BY <2>1
      <3> HIDE DEF e
      <3>3. QED
        BY <1>2, <3>1, <3>2, PassedBy
    <2>3. CASE joystick = NoPad
      BY <1>2, <2>2, <2>3 DEF Shows
    <2>4. CASE joystick # NoPad /\ e.which # id
      BY <1>2, <2>2, <2>4, ShownStill
    <2>5. CASE joystick # NoPad /\ e.which = id
      BY <1>2, <2>2, <2>5
    <2>6. QED
      BY <2>2, <2>3, <2>4, <2>5
  <1>3. CASE e.type = "axis" /\ handleJoyAxis(e)
    <2>1. UNCHANGED <<joystick, joystick_instance_id, buttons>>
      BY <1>3 DEF handleJoyAxis
    <2>2. e.which # id \/ buttons = NoMsg => UNCHANGED padVars
      BY <1>3 DEF handleJoyAxis, Ours, padVars, id
    <2>3. joystick # NoPad /\ e.which = id => Shows'
      BY <1>3, AxisShown
    <2>4. Input(e)
      BY <1>3 DEF Input
    <2>5. QED
      BY <1>2, <2>1, <2>2, <2>3, <2>4
  <1>4. CASE e.type = "button" /\ handleJoyButton(e)
    <2>1. UNCHANGED <<joystick, joystick_instance_id, axis>>
      BY <1>4 DEF handleJoyButton
    <2>2. e.which # id \/ buttons = NoMsg => UNCHANGED padVars
      BY <1>4 DEF handleJoyButton, Ours, padVars, id
    <2>3. buttons = NoMsg <=> buttons' = NoMsg
      <3>1. CASE Ours(e)
        <4>1. buttons \in [Button -> BOOLEAN] /\ buttons # NoMsg
          BY <3>1 DEF Ours, JoyTypes, JoyTypeOK
        <4>2. buttons' = [buttons EXCEPT ![e.button] = e.down]
          BY <1>4, <3>1 DEF handleJoyButton
        <4>3. e.down \in BOOLEAN
          BY <1>1, <1>4, Fields
        <4>4. buttons' \in [Button -> BOOLEAN]
          BY <4>1, <4>2, <4>3
        <4>5. QED
          BY <4>1, <4>4, SomeMsg
      <3>2. CASE ~ Ours(e)
        BY <1>4, <3>2 DEF handleJoyButton
      <3>3. QED
        BY <3>1, <3>2
    <2>4. joystick # NoPad /\ e.which = id => Shows'
      BY <1>4, ButtonShown
    <2>5. Input(e)
      BY <1>4 DEF Input
    <2>6. QED
      BY <1>2, <2>1, <2>2, <2>3, <2>4, <2>5
  <1>5. CASE e.type = "hat" /\ handleJoyHatMotion(e)
    <2>1. UNCHANGED <<joystick, joystick_instance_id, buttons>>
      BY <1>5 DEF handleJoyHatMotion
    <2>2. e.which # id \/ buttons = NoMsg => UNCHANGED padVars
      BY <1>5 DEF handleJoyHatMotion, Ours, padVars, id
    <2>3. joystick # NoPad /\ e.which = id => Shows'
      BY <1>5, HatShown
    <2>4. Input(e)
      BY <1>5 DEF Input
    <2>5. QED
      BY <1>2, <2>1, <2>2, <2>3, <2>4
  <1>6. CASE e.type = "added" /\ handleJoyDeviceAdded(e)
    <2>1. ~ Removes(e, id) /\ ~ Input(e)
      BY <1>6 DEF Removes, Input
    <2>2. CASE UNCHANGED <<joystick_instance_id, buttons, axis>> /\ joystick' \in {joystick, NoPad}
      <3>1. Known' /\ Cleared'
        BY <2>1, <2>2, PassedBy
      <3>2. CASE joystick' = NoPad
        BY <3>1, <3>2 DEF Shows
      <3>3. CASE joystick' # NoPad
        BY <2>1, <2>2, <3>1, <3>3, ShownStill DEF padVars
      <3>4. QED
        BY <3>1, <3>2, <3>3
    <2>3. CASE /\ e.which = 0 /\ plugged # <<>> /\ joystick' = plugged[1] /\ joystick_instance_id' = plugged[1]
               /\ buttons' = IF buttons = NoMsg THEN [b \in Button |-> FALSE] ELSE buttons
               /\ axis' = IF axis = NoMsg THEN [a \in Axes |-> 0] ELSE [axis EXCEPT !.stick = 0]
      <3>1. Opens(Head(events))
        BY <1>6, <2>3 DEF Opens
      <3>2. QED
        BY <2>3, <3>1, OpenShown
    <2>4. QED
      BY <1>6, <2>2, <2>3 DEF handleJoyDeviceAdded, padVars
  <1>7. CASE e.type = "removed" /\ handleJoyDeviceRemoved(e)
    <2>1. ~ Input(e)
      BY <1>7 DEF Input
    <2>2. CASE e.which # joystick_instance_id /\ UNCHANGED padVars
      <3>1. ~ Removes(e, id)
        BY <2>2 DEF Removes, id
      <3>2. Known' /\ Cleared'
        BY <2>2, <3>1, PassedBy DEF padVars
      <3>3. CASE joystick = NoPad
        BY <2>2, <3>2, <3>3 DEF Shows, padVars
      <3>4. CASE joystick # NoPad
        BY <2>1, <2>2, <3>2, <3>4, ShownStill
      <3>5. QED
        BY <3>2, <3>3, <3>4
    <2>3. CASE buttons' = NoMsg /\ joystick' = NoPad
      BY <2>3 DEF Known, Cleared, Shows
    <2>4. QED
      BY <1>7, <2>2, <2>3 DEF handleJoyDeviceRemoved
  <1>8. QED
    BY <1>3, <1>4, <1>5, <1>6, <1>7, Handlers

(* The inductive invariant of Joy. *)
JoyInv == JoyTypes /\ Told /\ Known /\ Cleared /\ Shows

LEMMA JoyInvInit == JoyInit => JoyInv
  <1> SUFFICES ASSUME JoyInit PROVE JoyInv
    OBVIOUS
  <1>1. /\ events = <<>> /\ plugged = <<>> /\ DOMAIN events = {} /\ Plugged = {}
        /\ \A p \in Pad : down[p] = {} /\ stick[p] = 0 /\ hat[p] = {}
        /\ buttons = NoMsg /\ joystick = NoPad
    BY DEF JoyInit, Plugged, Range
  <1>2. JoyTypes
    <2>1. 0 \in Pad /\ 0 \in 0 .. MaxPlug /\ 0 \in 0 .. MaxInput
      BY JoyAssumption DEF Pad
    <2>2. plugged \in Seq(Pad) /\ events \in Seq(Event) /\ Len(events) <= MaxEvents
      BY <1>1, JoyAssumption
    <2>3. down \in [Pad -> SUBSET Button] /\ stick \in [Pad -> Raw] /\ hat \in [Pad -> Hat]
      BY JoyAssumption DEF JoyInit
    <2>4. QED
      BY <2>1, <2>2, <2>3 DEF JoyInit, JoyTypes, JoyTypeOK
  <1>3. Told
    BY <1>1 DEF Told, Fresh, LastPress, LastSteer, LastPoint, OpensFirst, Unread
  <1>4. Known /\ Cleared /\ Shows
    BY <1>1 DEF Known, Cleared, Shows
  <1>5. QED
    BY <1>2, <1>3, <1>4 DEF JoyInv

LEMMA JoyInvStep == JoyInv /\ [JoyNext]_joyVars => JoyInv'
  <1> SUFFICES ASSUME JoyInv, [JoyNext]_joyVars PROVE JoyInv'
    OBVIOUS
  <1> USE DEF JoyInv
  <1>1. JoyTypes' /\ Told'
    BY JoyTypesStep, ToldStep
  <1>2. CASE Operator
    BY <1>1, <1>2, OperatorKeeps
  <1>3. CASE eventThread
    BY <1>1, <1>3, ThreadKeeps
  <1>4. CASE UNCHANGED joyVars
    <2>1. id' = id /\ Plugged' = Plugged /\ UNCHANGED <<events, buttons, axis, joystick, down, stick, hat>>
      BY <1>4 DEF joyVars, sdlVars, padVars, id, Plugged
    <2>2. Known' /\ Cleared'
      BY <2>1 DEF Known, Cleared, Zero
    <2>3. Shows'
      BY <2>1 DEF Shows, ShowsButtons, ShowsStick, ShowsHat, NoPress, NoSteer, NoPoint, convertRawAxisValueToROS
    <2>4. QED
      BY <1>1, <2>2, <2>3
  <1>5. QED
    BY <1>2, <1>3, <1>4 DEF JoyNext

LEMMA InStep == JoyInv => InStepWithPad
  <1> SUFFICES ASSUME JoyInv, events = <<>>, joystick # NoPad
               PROVE  /\ buttons = [b \in Button |-> b \in down[joystick]]
                      /\ axis.stick = convertRawAxisValueToROS(stick[joystick])
                      /\ "left" \in hat[joystick] => axis.x = Full
                      /\ "up" \in hat[joystick] => axis.y = Full
                      /\ hat[joystick] = {} => axis.x = 0 /\ axis.y = 0
    BY DEF InStepWithPad
  <1>1. joystick = id /\ buttons # NoMsg /\ ShowsButtons /\ ShowsStick /\ ShowsHat
    BY DEF JoyInv, Shows
  <1>2. NoSteer(id) /\ NoPoint(id) /\ \A b \in Button : NoPress(id, b)
    BY DEF NoSteer, NoPoint, NoPress
  <1>3. buttons \in [Button -> BOOLEAN]
    BY <1>1 DEF JoyInv, JoyTypes, JoyTypeOK
  <1>4. buttons = [b \in Button |-> b \in down[joystick]]
    <2>1. \A b \in Button : buttons[b] <=> b \in down[joystick]
      BY <1>1, <1>2 DEF ShowsButtons
    <2> DEFINE f == [b \in Button |-> b \in down[joystick]]
    <2>2. f \in [Button -> BOOLEAN]
      OBVIOUS
    <2>3. \A b \in Button : f[b] <=> b \in down[joystick]
      OBVIOUS
    <2> HIDE DEF f
    <2>4. \A b \in Button : buttons[b] = f[b]
      BY <1>3, <2>1, <2>2, <2>3
    <2>5. buttons = f
      BY <1>3, <2>2, <2>4
    <2>6. QED
      BY <2>5 DEF f
  <1>5. QED
    BY <1>1, <1>2, <1>4 DEF ShowsStick, ShowsHat

-----------------------------------------------------------------------------
(* What a step of the whole does to Joy. *)
LEMMA JoyPart == Next => [JoyNext]_joyVars
  BY DEF Next, Environment, EventThread, Check, Iterate, Start, ShutdownBegin, ShutdownEnds, JoyNext

(* The limiter moves towards its target by Limit at most. *)
LEMMA Limited ==
  ASSUME NEW v \in -Full .. Full, NEW t \in -Full .. Full, NEW w, w = v + Clip(-Limit, t - v, Limit)
  PROVE  w \in -Full .. Full /\ w - v \in -Limit .. Limit
  <1>1. Limit \in Nat /\ Full \in Nat /\ t - v \in Int
    BY JoyStickAssumption, Converted
  <1>2. CASE t - v < -Limit
    BY <1>1, <1>2 DEF Clip
  <1>3. CASE t - v > Limit
    BY <1>1, <1>3 DEF Clip
  <1>4. CASE ~ (t - v < -Limit) /\ ~ (t - v > Limit)
    BY <1>1, <1>4 DEF Clip
  <1>5. QED
    BY <1>2, <1>3, <1>4

LoopTypes ==
  /\ mpc \in {"init", "started", "wait", "returned"}
  /\ jpc \in {"init", "check", "copy", "stopped"}
  /\ alive \in BOOLEAN /\ run_flag \in BOOLEAN
  /\ current_state_name \in Mode /\ controllers \in ModeLists
  /\ velocity \in -Full .. Full /\ elapsed \in 0 .. Interval
  /\ joy_data \in [Walker -> -Full .. Full] /\ missed \in [Walker -> BOOLEAN]

(* A walk controller that has missed nothing uses the limiter's velocity,  *)
(* so what the limiter adds is what the controller sees.                   *)
Caught == \A c \in Walker : ~ missed[c] => joy_data[c] = velocity

IInv == JoyInv /\ LoopTypes /\ Caught

LEMMA InitIInv == Init => IInv
  <1> SUFFICES ASSUME Init PROVE IInv
    OBVIOUS
  <1>1. JoyInv
    BY JoyInvInit DEF Init
  <1>2. LoopTypes
    <2>1. 0 \in -Full .. Full /\ Interval \in 0 .. Interval
      BY Converted, JoyStickAssumption
    <2>2. current_state_name \in Mode /\ controllers \in ModeLists
      BY StateMachineAssumption DEF Init, SMInit, ModeLists
    <2>3. QED
      BY <2>1, <2>2 DEF Init, LoopTypes
  <1>3. Caught
    BY DEF Init, Caught
  <1>4. QED
    BY <1>1, <1>2, <1>3 DEF IInv

(* An iteration with a message, or without one. *)
LEMMA IterateShape ==
  ASSUME IInv, Iterate, buttons # NoMsg
  PROVE  /\ elapsed' \in 0 .. Interval
         /\ current_state_name' \in Mode /\ controllers' \in ModeLists
         /\ jpc' = "check" /\ UNCHANGED <<alive, mpc, run_flag, joyVars>>
         /\ \/ UNCHANGED <<velocity, joy_data, missed>>
            \/ /\ velocity' \in -Full .. Full /\ velocity' - velocity \in -Limit .. Limit
               /\ joy_data' = [c \in Walker |-> IF c \in Range(controllers') THEN velocity' ELSE joy_data[c]]
               /\ missed' = [c \in Walker |-> c \notin Range(controllers')]
  <1>1. Trigger /\ Twist /\ jpc' = "check" /\ UNCHANGED <<alive, mpc, run_flag, joyVars>>
    BY DEF Iterate
  <1>2. elapsed' \in 0 .. Interval
    <2>1. elapsed \in 0 .. Interval /\ Interval \in Nat \ {0}
      BY JoyStickAssumption DEF IInv, LoopTypes
    <2>2. \/ elapsed' = 1 \/ (elapsed < Interval /\ elapsed' = elapsed + 1) \/ elapsed' = elapsed
      BY <1>1 DEF Trigger
    <2>3. QED
      BY <2>1, <2>2
  <1>3. current_state_name' \in Mode /\ controllers' \in ModeLists
    <2>1. \/ \E m \in Mode : current_state_name' = m /\ controllers' = ControllersOf[m]
          \/ UNCHANGED smVars
      BY <1>1 DEF Trigger
    <2>2. QED
      BY <2>1 DEF IInv, LoopTypes, smVars, ModeLists
  <1>4. CASE velocity' = update(axis.stick) /\ SetCmdData /\ missed' = [c \in Walker |-> c \notin Range(controllers')]
    <2>1. axis \in [Axes -> -Full .. Full]
      BY DEF IInv, JoyInv, JoyTypes, JoyTypeOK
    <2>2. axis.stick \in -Full .. Full /\ velocity \in -Full .. Full
      BY <2>1 DEF Axes, IInv, LoopTypes
    <2>3. velocity' \in -Full .. Full /\ velocity' - velocity \in -Limit .. Limit
      <3>1. velocity' = velocity + Clip(-Limit, axis.stick - velocity, Limit)
        BY <1>4 DEF update
      <3>2. QED
        BY <2>2, <3>1, Limited, Zenon
    <2>4. QED
      BY <1>1, <1>2, <1>3, <1>4, <2>3 DEF SetCmdData
  <1>5. CASE UNCHANGED <<velocity, joy_data, missed>>
    BY <1>1, <1>2, <1>3, <1>5
  <1>6. QED
    BY <1>1, <1>4, <1>5 DEF Twist

LEMMA IInvStep == IInv /\ [Next]_vars => IInv'
  <1> SUFFICES ASSUME IInv, [Next]_vars PROVE IInv'
    OBVIOUS
  <1>1. JoyInv'
    <2>1. [JoyNext]_joyVars
      BY JoyPart DEF vars
    <2>2. QED
      BY <2>1, JoyInvStep DEF IInv
  <1>2. LoopTypes /\ Caught
    BY DEF IInv
  <1>3. CASE Environment \/ EventThread \/ UNCHANGED vars
    <2>1. UNCHANGED <<mpc, run_flag, loopVars>>
      BY <1>3 DEF Environment, EventThread, vars
    <2>2. QED
      BY <1>1, <1>2, <2>1 DEF IInv, LoopTypes, Caught, loopVars
  <1>4. CASE Check
    BY <1>1, <1>2, <1>4 DEF IInv, LoopTypes, Caught, Check, smVars
  <1>5. CASE Iterate
    <2>1. CASE buttons = NoMsg
      <3>1. alive' = FALSE /\ UNCHANGED <<jpc, velocity, elapsed, smVars, joy_data, missed, mpc, run_flag>>
        BY <1>5, <2>1 DEF Iterate
      <3>2. QED
        BY <1>1, <1>2, <3>1 DEF IInv, LoopTypes, Caught, smVars
    <2>2. CASE buttons # NoMsg
      <3>1. /\ elapsed' \in 0 .. Interval
            /\ current_state_name' \in Mode /\ controllers' \in ModeLists
            /\ jpc' = "check" /\ UNCHANGED <<alive, mpc, run_flag>>
        BY <1>5, <2>2, IterateShape
      <3>2. CASE UNCHANGED <<velocity, joy_data, missed>>
        BY <1>1, <1>2, <3>1, <3>2 DEF IInv, LoopTypes, Caught
      <3>3. CASE /\ velocity' \in -Full .. Full
                 /\ joy_data' = [c \in Walker |-> IF c \in Range(controllers') THEN velocity' ELSE joy_data[c]]
                 /\ missed' = [c \in Walker |-> c \notin Range(controllers')]
        <4>1. joy_data' \in [Walker -> -Full .. Full]
          BY <1>2, <3>3 DEF LoopTypes
        <4>2. missed' \in [Walker -> BOOLEAN]
          BY <3>3
        <4>3. Caught'
          BY <3>3 DEF Caught
        <4>4. QED
          BY <1>1, <1>2, <3>1, <3>3, <4>1, <4>2, <4>3 DEF IInv, LoopTypes
      <3>4. QED
        BY <1>5, <2>2, <3>2, <3>3, IterateShape
    <2>3. QED
      BY <2>1, <2>2
  <1>6. CASE Start
    BY <1>1, <1>2, <1>6 DEF IInv, LoopTypes, Caught, Start, smVars
  <1>7. CASE ShutdownBegin
    BY <1>1, <1>2, <1>7 DEF IInv, LoopTypes, Caught, ShutdownBegin, loopVars
  <1>8. CASE ShutdownEnds
    BY <1>1, <1>2, <1>8 DEF IInv, LoopTypes, Caught, ShutdownEnds, loopVars
  <1>9. QED
    BY <1>3, <1>4, <1>5, <1>6, <1>7, <1>8 DEF Next

(* The inductive invariant: what SDL's queue tells of the pads, what the   *)
(* message shows of the pad that is open, and what the walk controllers    *)
(* have received.                                                          *)
THEOREM Invariant == Spec => []IInv
BY InitIInv, IInvStep, PTL DEF Spec

(* Types; velocities of the limiter and of the walk controllers stay       *)
(* within the range of a stick, -1.0 to 1.0 (joy.cc).                      *)
THEOREM TypeCorrect == Spec => []TypeOK
<1>1. IInv => TypeOK
  BY DEF IInv, JoyInv, JoyTypes, LoopTypes, TypeOK
<1>2. QED
  BY <1>1, Invariant, PTL

(* Once every event is handled, joy_msg_ shows the inputs of the pad that  *)
(* is open (handleJoyDeviceAdded, handleJoyDeviceRemoved, joy.cc).         *)
THEOREM InStepWithPadHolds == Spec => []InStepWithPad
<1>1. IInv => InStepWithPad
  BY InStep DEF IInv
<1>2. QED
  BY <1>1, Invariant, PTL

(* A walk controller that missed no message sees changes of at most what   *)
(* the limiter adds in an iteration (joy_vel_limiter.cc).                  *)
THEOREM SmoothCommandsHolds == Spec => SmoothCommands
<1>1. IInv /\ [Next]_vars =>
        [\A c \in Walker : ~ missed[c] => joy_data'[c] - joy_data[c] \in -Limit .. Limit]_vars
  <2> SUFFICES ASSUME IInv, [Next]_vars, NEW c \in Walker, ~ missed[c]
               PROVE  joy_data'[c] - joy_data[c] \in -Limit .. Limit
    OBVIOUS
  <2>1. /\ joy_data \in [Walker -> -Full .. Full] /\ joy_data[c] = velocity
        /\ Limit \in Nat /\ Full \in Nat
    BY Converted, JoyStickAssumption DEF IInv, LoopTypes, Caught
  <2>2. joy_data[c] \in Int /\ joy_data[c] - joy_data[c] \in -Limit .. Limit
    BY <2>1
  <2>3. CASE Iterate /\ buttons # NoMsg
    <3>1. CASE joy_data' = joy_data
      BY <2>2, <3>1
    <3>2. CASE /\ velocity' - velocity \in -Limit .. Limit
               /\ joy_data' = [w \in Walker |-> IF w \in Range(controllers') THEN velocity' ELSE joy_data[w]]
      BY <2>1, <2>2, <3>2
    <3>3. QED
      BY <2>3, <3>1, <3>2, IterateShape
  <2>4. CASE ~ (Iterate /\ buttons # NoMsg)
    <3>1. joy_data' = joy_data
      BY <2>4 DEF Next, vars, loopVars, Environment, EventThread, Check, Iterate, Start, ShutdownBegin, ShutdownEnds
    <3>2. QED
      BY <2>2, <3>1
  <2>5. QED
    BY <2>3, <2>4
<1>2. QED
  BY <1>1, Invariant, PTL DEF Spec, SmoothCommands
=============================================================================
