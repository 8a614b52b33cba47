--------------------------- MODULE CanBus_proofs ---------------------------
(***************************************************************************)
(* Proofs about CanBus, for any number of actuators, threads and frames:   *)
(* the mutex makes the two halves of a frame one, and the bus implements   *)
(* CommandPort.                                                            *)
(***************************************************************************)
EXTENDS CanBus, SocketCan, SequenceTheorems, TLAPS

Entry == [to : Actuator, id : Frame, data : Frame]

(* Who holds send_mtx_. *)
Held ==
  /\ \A u \in User : upc[u] \in {"id", "data", "copy"} <=> send_mtx = u
  /\ round # {} <=> send_mtx = "loop"

(* A call under way has a real actuator and a frame of its kind. *)
Calls ==
  \A u \in User :
    /\ upc[u] # "idle" => arg[u].to \in Actuator
    /\ upc[u] = "idle" => arg[u] = NoCall
    /\ upc[u] \in {"copy", "transmit"} => arg[u].frame \in Once

(* Only the slot a user is writing holds a half-written or one-shot frame. *)
Slots ==
  /\ \A a \in Actuator :
       \/ slot[a].id = slot[a].data /\ slot[a].id \in Periodic \cup {None}
       \/ \E u \in User : upc[u] \in {"data", "copy"} /\ arg[u].to = a
  /\ \A u \in User :
       /\ upc[u] = "data" => slot[arg[u].to].id = arg[u].frame
       /\ upc[u] = "copy" => slot[arg[u].to] = [id |-> arg[u].frame, data |-> arg[u].frame]
       /\ upc[u] = "transmit" => frame[u] = [id |-> arg[u].frame, data |-> arg[u].frame]

IInv == TypeOK /\ Held /\ Calls /\ Slots /\ WholeFrames
-----------------------------------------------------------------------------
(* What transmit does to the queue: nothing, or one more entry. *)
LEMMA TransmitType ==
  ASSUME tx_queue \in Seq(Entry), Len(tx_queue) <= QueueSize, WholeFrames,
         NEW a \in Actuator, NEW s \in Slot, Transmit(a, s)
  PROVE  /\ tx_queue' \in Seq(Entry)
         /\ Len(tx_queue') <= QueueSize
         /\ s.id = s.data => WholeFrames'
<1> DEFINE e == [to |-> a, id |-> s.id, data |-> s.data]
<1>1. CASE tx_queue' = tx_queue
  BY <1>1 DEF WholeFrames
<1>2. CASE Len(tx_queue) < QueueSize /\ tx_queue' = Append(tx_queue, e)
  <2>1. e \in Entry
    BY DEF Entry, Slot
  <2>2. e.id = s.id /\ e.data = s.data
    OBVIOUS
  <2> HIDE DEF e
  <2>3. /\ tx_queue' \in Seq(Entry) /\ Len(tx_queue') = Len(tx_queue) + 1
        /\ DOMAIN tx_queue = 1 .. Len(tx_queue)
        /\ DOMAIN tx_queue' = 1 .. Len(tx_queue) + 1
        /\ \A j \in 1 .. Len(tx_queue) : tx_queue'[j] = tx_queue[j]
        /\ tx_queue'[Len(tx_queue) + 1] = e
    BY <1>2, <2>1
  <2>4. Len(tx_queue') <= QueueSize
    BY <1>2, <2>3, CanBusAssumption
  <2>5. s.id = s.data => WholeFrames'
    BY <2>2, <2>3 DEF WholeFrames
  <2> QED BY <2>3, <2>4, <2>5
<1> QED BY <1>1, <1>2 DEF Transmit

LEMMA BaseInit == Init => IInv
<1> SUFFICES ASSUME Init PROVE IInv
  OBVIOUS
<1> USE CanBusAssumption
<1>1. Zeroed \in Slot /\ NoCall \in Call
  BY DEF Zeroed, Slot, NoCall, Call, Frame, Once
<1>2. TypeOK
  BY <1>1 DEF Init, TypeOK
<1>3. Held /\ Calls
  BY DEF Init, Held, Calls
<1>4. Slots
  BY DEF Init, Slots, Zeroed
<1>5. WholeFrames
  BY DEF Init, WholeFrames
<1> QED BY <1>2, <1>3, <1>4, <1>5 DEF IInv

(* Types, one action at a time. *)
LEMMA TypeStep == IInv /\ [Next]_vars => TypeOK' /\ WholeFrames'
<1> SUFFICES ASSUME IInv, [Next]_vars PROVE TypeOK' /\ WholeFrames'
  OBVIOUS
<1> USE CanBusAssumption
<1>0. /\ tx_queue \in Seq(Entry) /\ Len(tx_queue) <= QueueSize /\ WholeFrames
      /\ slot \in [Actuator -> Slot] /\ arg \in [User -> Call] /\ frame \in [User -> Slot]
      /\ upc \in [User -> {"idle", "id", "data", "copy", "transmit"}]
      /\ Zeroed \in Slot /\ NoCall \in Call
  BY DEF IInv, TypeOK, Entry, Zeroed, NoCall, Slot, Call, Frame, Once
<1>1. ASSUME NEW u \in User, NEW a \in Actuator, NEW f \in Frame, Lock(u, a, f)
      PROVE  TypeOK' /\ WholeFrames'
  <2>1. arg' \in [User -> Call]
    BY <1>0, <1>1 DEF Lock, Call
  <2> QED BY <1>0, <1>1, <2>1 DEF Lock, IInv, TypeOK, WholeFrames
<1>2. ASSUME NEW u \in User, WriteId(u) PROVE TypeOK' /\ WholeFrames'
  <2>1. slot' \in [Actuator -> Slot]
    BY <1>0, <1>2 DEF WriteId, Slot, Call
  <2> QED BY <1>0, <1>2, <2>1 DEF WriteId, IInv, TypeOK, WholeFrames
<1>3. ASSUME NEW u \in User, WriteData(u) PROVE TypeOK' /\ WholeFrames'
  <2>1. slot' \in [Actuator -> Slot]
    BY <1>0, <1>3 DEF WriteData, Slot, Call
  <2>2. arg' \in [User -> Call] /\ upc' \in [User -> {"idle", "id", "data", "copy", "transmit"}]
    <3>1. arg' = arg \/ arg' = [arg EXCEPT ![u] = NoCall]
      BY <1>3 DEF WriteData
    <3>2. upc' = [upc EXCEPT ![u] = "idle"] \/ upc' = [upc EXCEPT ![u] = "copy"]
      BY <1>3 DEF WriteData
    <3>3. arg' \in [User -> Call]
      BY <1>0, <3>1
    <3>4. upc' \in [User -> {"idle", "id", "data", "copy", "transmit"}]
      BY <1>0, <3>2
    <3> QED BY <3>3, <3>4
  <2>3. send_mtx' \in {"free", "loop"} \cup User
    BY <1>3 DEF WriteData, IInv, TypeOK
  <2> QED BY <1>0, <1>3, <2>1, <2>2, <2>3 DEF WriteData, IInv, TypeOK, WholeFrames
<1>4. ASSUME NEW u \in User, Capture(u) PROVE TypeOK' /\ WholeFrames'
  <2>1. arg[u].to \in Actuator
    BY <1>4 DEF Capture, IInv, Calls
  <2>2. slot' \in [Actuator -> Slot] /\ frame' \in [User -> Slot]
    BY <1>0, <1>4, <2>1 DEF Capture
  <2> QED BY <1>0, <1>4, <2>2 DEF Capture, IInv, TypeOK, WholeFrames
<1>5. ASSUME NEW u \in User, TransmitOnce(u) PROVE TypeOK' /\ WholeFrames'
  <2>1. arg[u].to \in Actuator /\ frame[u] \in Slot /\ frame[u].id = frame[u].data
    <3>1. upc[u] = "transmit"
      BY <1>5 DEF TransmitOnce
    <3>2. arg[u].to \in Actuator
      BY <3>1 DEF IInv, Calls
    <3>3. frame[u] = [id |-> arg[u].frame, data |-> arg[u].frame]
      BY <3>1 DEF IInv, Slots
    <3> QED BY <1>0, <3>2, <3>3
  <2>2. tx_queue' \in Seq(Entry) /\ Len(tx_queue') <= QueueSize /\ WholeFrames'
    BY <1>0, <1>5, <2>1, TransmitType DEF TransmitOnce
  <2>3. /\ upc' \in [User -> {"idle", "id", "data", "copy", "transmit"}]
        /\ arg' \in [User -> Call] /\ frame' \in [User -> Slot]
    BY <1>0, <1>5 DEF TransmitOnce
  <2> QED BY <1>5, <2>2, <2>3 DEF TransmitOnce, IInv, TypeOK, Entry
<1>6. CASE LoopLock
  BY <1>0, <1>6 DEF LoopLock, IInv, TypeOK, WholeFrames
<1>7. ASSUME NEW a \in Actuator, LoopVisit(a) PROVE TypeOK' /\ WholeFrames'
  <2>1. slot[a] \in Slot /\ slot[a].id = slot[a].data
    <3>1. send_mtx = "loop"
      BY <1>7 DEF LoopVisit, IInv, Held
    <3>2. \A u \in User : upc[u] \notin {"data", "copy"}
      BY <3>1 DEF IInv, Held
    <3> QED BY <1>0, <3>2 DEF IInv, Slots
  <2>2. tx_queue' \in Seq(Entry) /\ Len(tx_queue') <= QueueSize /\ WholeFrames'
    BY <1>0, <1>7, <2>1, TransmitType DEF LoopVisit, WholeFrames
  <2> QED BY <1>7, <2>2 DEF LoopVisit, IInv, TypeOK, Entry
<1>8. CASE Take
  <2>1. /\ tx_queue' \in Seq(Entry) /\ Len(tx_queue') = Len(tx_queue) - 1
        /\ \A j \in 1 .. Len(tx_queue) - 1 : tx_queue'[j] = tx_queue[j + 1]
    BY <1>0, <1>8 DEF Take
  <2>2. Len(tx_queue') <= QueueSize
    BY <1>0, <2>1
  <2>3. WholeFrames'
    BY <1>0, <2>1 DEF WholeFrames
  <2> QED BY <1>8, <2>1, <2>2, <2>3 DEF Take, IInv, TypeOK, Entry
<1>9. CASE UNCHANGED vars
  BY <1>9 DEF vars, IInv, TypeOK, WholeFrames
<1> QED
  BY <1>1, <1>2, <1>3, <1>4, <1>5, <1>6, <1>7, <1>8, <1>9 DEF Next
-----------------------------------------------------------------------------
(* The mutex, the calls and the slots *)

LEMMA HeldStep == IInv /\ [Next]_vars => Held'
<1> SUFFICES ASSUME IInv, [Next]_vars PROVE Held'
  OBVIOUS
<1> USE CanBusAssumption
<1>0. /\ Held /\ round \in SUBSET Actuator /\ send_mtx \in {"free", "loop"} \cup User
      /\ upc \in [User -> {"idle", "id", "data", "copy", "transmit"}]
  BY DEF IInv, TypeOK
<1>1. ASSUME NEW u \in User, NEW a \in Actuator, NEW f \in Frame, Lock(u, a, f) PROVE Held'
  BY <1>0, <1>1 DEF Lock, Held
<1>2. ASSUME NEW u \in User, WriteId(u) PROVE Held'
  BY <1>0, <1>2 DEF WriteId, Held
<1>3. ASSUME NEW u \in User, WriteData(u) PROVE Held'
  <2>1. upc[u] = "data" /\ send_mtx = u /\ round' = round
    BY <1>0, <1>3 DEF WriteData, Held
  <2>2. \/ upc' = [upc EXCEPT ![u] = "idle"] /\ send_mtx' = "free"
        \/ upc' = [upc EXCEPT ![u] = "copy"] /\ send_mtx' = send_mtx
    BY <1>3 DEF WriteData
  <2> QED BY <1>0, <2>1, <2>2 DEF Held
<1>4. ASSUME NEW u \in User, Capture(u) PROVE Held'
  BY <1>0, <1>4 DEF Capture, Held
<1>5. ASSUME NEW u \in User, TransmitOnce(u) PROVE Held'
  BY <1>0, <1>5 DEF TransmitOnce, Held
<1>6. CASE LoopLock
  BY <1>0, <1>6 DEF LoopLock, Held
<1>7. ASSUME NEW a \in Actuator, LoopVisit(a) PROVE Held'
  BY <1>0, <1>7 DEF LoopVisit, Held
<1>8. CASE Take \/ UNCHANGED vars
  BY <1>0, <1>8 DEF Take, vars, Held
<1> QED BY <1>1, <1>2, <1>3, <1>4, <1>5, <1>6, <1>7, <1>8 DEF Next

LEMMA CallsStep == IInv /\ [Next]_vars => Calls'
<1> SUFFICES ASSUME IInv, [Next]_vars PROVE Calls'
  OBVIOUS
<1>0. /\ Calls /\ arg \in [User -> Call]
      /\ upc \in [User -> {"idle", "id", "data", "copy", "transmit"}]
  BY DEF IInv, TypeOK
<1>1. ASSUME NEW u \in User, NEW a \in Actuator, NEW f \in Frame, Lock(u, a, f) PROVE Calls'
  BY <1>0, <1>1 DEF Lock, Calls
<1>2. ASSUME NEW u \in User, WriteId(u) PROVE Calls'
  BY <1>0, <1>2 DEF WriteId, Calls
<1>3. ASSUME NEW u \in User, WriteData(u) PROVE Calls'
  <2>1. upc[u] = "data"
    BY <1>3 DEF WriteData
  <2>2. \/ upc' = [upc EXCEPT ![u] = "idle"] /\ arg' = [arg EXCEPT ![u] = NoCall]
        \/ upc' = [upc EXCEPT ![u] = "copy"] /\ arg' = arg /\ arg[u].frame \in Once
    BY <1>3 DEF WriteData
  <2> QED BY <1>0, <2>1, <2>2 DEF Calls
<1>4. ASSUME NEW u \in User, Capture(u) PROVE Calls'
  BY <1>0, <1>4 DEF Capture, Calls
<1>5. ASSUME NEW u \in User, TransmitOnce(u) PROVE Calls'
  BY <1>0, <1>5 DEF TransmitOnce, Calls
<1>6. CASE LoopLock \/ (\E a \in Actuator : LoopVisit(a)) \/ Take \/ UNCHANGED vars
  BY <1>0, <1>6 DEF LoopLock, LoopVisit, Take, vars, Calls
<1> QED BY <1>1, <1>2, <1>3, <1>4, <1>5, <1>6 DEF Next

LEMMA SlotsStep == IInv /\ [Next]_vars => Slots'
<1> SUFFICES ASSUME IInv, [Next]_vars PROVE Slots'
  OBVIOUS
<1> USE CanBusAssumption
<1>0. /\ Held /\ Calls /\ Slots
      /\ slot \in [Actuator -> Slot] /\ arg \in [User -> Call] /\ frame \in [User -> Slot]
      /\ upc \in [User -> {"idle", "id", "data", "copy", "transmit"}]
  BY DEF IInv, TypeOK
<1>1. ASSUME NEW u \in User, NEW a \in Actuator, NEW f \in Frame, Lock(u, a, f) PROVE Slots'
  BY <1>0, <1>1 DEF Lock, Slots, Held
<1>2. ASSUME NEW u \in User, WriteId(u) PROVE Slots'
  <2>1. \A v \in User : v # u => upc[v] \notin {"id", "data", "copy"}
    BY <1>0, <1>2 DEF WriteId, Held
  <2>2. arg[u].to \in Actuator
    BY <1>0, <1>2 DEF WriteId, Calls
  <2> QED BY <1>0, <1>2, <2>1, <2>2 DEF WriteId, Slots, Slot
<1>3. ASSUME NEW u \in User, WriteData(u) PROVE Slots'
  <2>1. upc[u] = "data" /\ \A v \in User : v # u => upc[v] \notin {"id", "data", "copy"}
    BY <1>0, <1>3 DEF WriteData, Held
  <2>2. arg[u].to \in Actuator /\ slot[arg[u].to].id = arg[u].frame
    BY <1>0, <2>1 DEF Calls, Slots
  <2>3. /\ slot' = [slot EXCEPT ![arg[u].to].data = arg[u].frame] /\ frame' = frame
        /\ \/ /\ arg[u].frame \in Periodic /\ upc' = [upc EXCEPT ![u] = "idle"]
              /\ arg' = [arg EXCEPT ![u] = NoCall]
           \/ /\ arg[u].frame \in Once /\ upc' = [upc EXCEPT ![u] = "copy"]
              /\ arg' = arg
    BY <1>3 DEF WriteData
  <2>4. slot'[arg[u].to] = [id |-> arg[u].frame, data |-> arg[u].frame]
    BY <1>0, <2>2, <2>3 DEF Slot
  <2>5. \A a \in Actuator : a # arg[u].to => slot'[a] = slot[a]
    BY <1>0, <2>3
  <2>6. \A v \in User : v # u => upc'[v] = upc[v] /\ arg'[v] = arg[v]
    BY <1>0, <2>3
  <2>7. \/ arg[u].frame \in Periodic /\ upc'[u] = "idle"
        \/ arg[u].frame \in Once /\ upc'[u] = "copy" /\ arg'[u] = arg[u]
    <3>1. CASE arg[u].frame \in Periodic /\ upc' = [upc EXCEPT ![u] = "idle"]
      BY <1>0, <3>1
    <3>2. CASE arg[u].frame \in Once /\ upc' = [upc EXCEPT ![u] = "copy"] /\ arg' = arg
      BY <1>0, <3>2
    <3> QED BY <2>3, <3>1, <3>2
  <2>8. \A a \in Actuator :
          \/ slot'[a].id = slot'[a].data /\ slot'[a].id \in Periodic \cup {None}
          \/ \E v \in User : upc'[v] \in {"data", "copy"} /\ arg'[v].to = a
    BY <1>0, <2>1, <2>4, <2>5, <2>7 DEF Slots
  <2>9. \A v \in User :
       /\ upc'[v] = "data" => slot'[arg'[v].to].id = arg'[v].frame
       /\ upc'[v] = "copy" => slot'[arg'[v].to] = [id |-> arg'[v].frame, data |-> arg'[v].frame]
       /\ upc'[v] = "transmit" => frame'[v] = [id |-> arg'[v].frame, data |-> arg'[v].frame]
    BY <1>0, <2>1, <2>3, <2>4, <2>6, <2>7 DEF Slots
  <2> QED BY <2>8, <2>9 DEF Slots
<1>4. ASSUME NEW u \in User, Capture(u) PROVE Slots'
  <2>1. upc[u] = "copy" /\ \A v \in User : v # u => upc[v] \notin {"id", "data", "copy"}
    BY <1>0, <1>4 DEF Capture, Held
  <2>2. arg[u].to \in Actuator
    BY <1>0, <2>1 DEF Calls
  <2> QED BY <1>0, <1>4, <2>1, <2>2 DEF Capture, Slots, Zeroed
<1>5. ASSUME NEW u \in User, TransmitOnce(u) PROVE Slots'
  BY <1>0, <1>5 DEF TransmitOnce, Slots
<1>6. CASE LoopLock \/ (\E a \in Actuator : LoopVisit(a)) \/ Take \/ UNCHANGED vars
  BY <1>0, <1>6 DEF LoopLock, LoopVisit, Take, vars, Slots
<1> QED BY <1>1, <1>2, <1>3, <1>4, <1>5, <1>6 DEF Next

LEMMA IInvHolds == Spec => []IInv
<1>1. IInv /\ [Next]_vars => IInv'
  BY TypeStep, HeldStep, CallsStep, SlotsStep DEF IInv
<1> QED BY <1>1, BaseInit, PTL DEF Spec
-----------------------------------------------------------------------------
(* Types and bounds hold. *)
THEOREM TypeCorrect == Spec => []TypeOK
  BY IInvHolds, PTL DEF IInv

(* No frame in the queue joins the halves of two commands. *)
THEOREM WholeFramesHolds == Spec => []WholeFrames
  BY IInvHolds, PTL DEF IInv
-----------------------------------------------------------------------------
(* While the loop holds the mutex every slot is periodic or zeroed. *)
LEMMA SettledSlots ==
  ASSUME IInv, NEW a \in Actuator, a \in round
  PROVE  slot[a] \in Slot /\ slot[a].id = slot[a].data /\ slot[a].id \in Periodic \cup {None}
<1>1. send_mtx = "loop"
  BY DEF IInv, Held
<1>2. \A u \in User : upc[u] \notin {"data", "copy"}
  BY <1>1, CanBusAssumption DEF IInv, Held
<1> QED BY <1>2 DEF IInv, TypeOK, Slots

(* The loop never adds a one-shot frame to the queue. *)
THEOREM LoopNeverRepeatsOneShotHolds == Spec => LoopNeverRepeatsOneShot
<1> DEFINE P == \A a \in Actuator :
                  a \in round \ round' /\ tx_queue' # tx_queue
                    => tx_queue'[Len(tx_queue')].id \in Periodic
<1>1. IInv /\ [Next]_vars => P
  <2> SUFFICES ASSUME IInv, [Next]_vars, NEW a \in Actuator,
                      a \in round \ round', tx_queue' # tx_queue
               PROVE  tx_queue'[Len(tx_queue')].id \in Periodic
    OBVIOUS
  <2>1. LoopVisit(a)
    <3>1. ~(\E u \in User : (\E b \in Actuator, f \in Frame : Lock(u, b, f))
                              \/ WriteId(u) \/ WriteData(u) \/ Capture(u) \/ TransmitOnce(u))
      BY DEF Lock, WriteId, WriteData, Capture, TransmitOnce
    <3>2. ~LoopLock /\ ~Take /\ ~UNCHANGED vars
      BY DEF LoopLock, Take, vars
    <3>3. PICK b \in Actuator : LoopVisit(b)
      BY <3>1, <3>2 DEF Next
    <3>4. b = a
      BY <3>3 DEF LoopVisit
    <3> QED BY <3>3, <3>4
  <2>2. slot[a].id # None /\ slot[a].id \in Periodic
    BY <2>1, SettledSlots DEF LoopVisit
  <2> DEFINE e == [to |-> a, id |-> slot[a].id, data |-> slot[a].data]
  <2>3. tx_queue' = Append(tx_queue, e)
    BY <2>1, <2>2 DEF LoopVisit, Transmit
  <2>4. tx_queue \in Seq(Entry) /\ e \in Entry
    BY SettledSlots DEF IInv, TypeOK, Entry, Slot
  <2>5. e.id \in Periodic
    BY <2>2
  <2> HIDE DEF e
  <2>6. tx_queue'[Len(tx_queue')] = e
    BY <2>3, <2>4
  <2> QED BY <2>5, <2>6
<1> QED BY <1>1, IInvHolds, PTL DEF Spec, LoopNeverRepeatsOneShot
-----------------------------------------------------------------------------
(* The refinement of CommandPort *)

(* What the abstract queue holds of an entry, and of a queue. *)
Seen(x) == [to |-> x.to, frame |-> x.id]
SeenQueue(q) == [i \in DOMAIN q |-> Seen(q[i])]
Reg == [a \in Actuator |-> IF slot[a].id \in Periodic THEN slot[a].id ELSE None]
Pending == [u \in User |-> IF upc[u] \in {"data", "copy", "transmit"} /\ arg[u].frame \in Once
                            THEN arg[u] ELSE NoCall]

SeenEntry == [to : Actuator, frame : Frame]

LEMMA SeenType ==
  ASSUME NEW q \in Seq(Entry)
  PROVE  SeenQueue(q) \in Seq(SeenEntry) /\ Len(SeenQueue(q)) = Len(q)
<1>1. Len(q) \in Nat /\ q \in [1 .. Len(q) -> Entry] /\ DOMAIN q = 1 .. Len(q)
  BY LenProperties
<1>2. \A x \in Entry : Seen(x) \in SeenEntry
  BY DEF Seen, Entry, SeenEntry
<1>3. SeenQueue(q) \in [1 .. Len(q) -> SeenEntry]
  BY <1>1, <1>2 DEF SeenQueue
<1> QED BY <1>1, <1>3

(* Seeing a queue commutes with the operations on it. *)
LEMMA SeenAppend ==
  ASSUME NEW q \in Seq(Entry), NEW e \in Entry
  PROVE  SeenQueue(Append(q, e)) = Append(SeenQueue(q), Seen(e))
<1>1. \A x \in Entry : Seen(x) \in SeenEntry
  BY DEF Seen, Entry, SeenEntry
<1>2. Append(q, e) \in Seq(Entry) /\ Len(Append(q, e)) = Len(q) + 1
  OBVIOUS
<1>3. SeenQueue(q) \in Seq(SeenEntry) /\ Len(SeenQueue(q)) = Len(q)
  BY SeenType
<1>4. SeenQueue(Append(q, e)) \in Seq(SeenEntry) /\ Len(SeenQueue(Append(q, e))) = Len(q) + 1
  BY <1>2, SeenType
<1>5. \A i \in 1 .. Len(q) + 1 : SeenQueue(Append(q, e))[i] = Append(SeenQueue(q), Seen(e))[i]
  BY <1>1, <1>2, <1>3 DEF SeenQueue
<1>6. Append(SeenQueue(q), Seen(e)) \in Seq(SeenEntry) /\ Len(Append(SeenQueue(q), Seen(e))) = Len(q) + 1
  BY <1>1, <1>3
<1> QED BY <1>4, <1>5, <1>6, SeqEqual

LEMMA SeenTail ==
  ASSUME NEW q \in Seq(Entry), q # <<>>
  PROVE  SeenQueue(q) # <<>> /\ SeenQueue(Tail(q)) = Tail(SeenQueue(q))
<1>1. \A x \in Entry : Seen(x) \in SeenEntry
  BY DEF Seen, Entry, SeenEntry
<1>2. Tail(q) \in Seq(Entry) /\ Len(Tail(q)) = Len(q) - 1 /\ Len(q) \in Nat \ {0}
  OBVIOUS
<1>3. SeenQueue(q) \in Seq(SeenEntry) /\ Len(SeenQueue(q)) = Len(q)
  BY SeenType
<1>4. SeenQueue(Tail(q)) \in Seq(SeenEntry) /\ Len(SeenQueue(Tail(q))) = Len(q) - 1
  BY <1>2, SeenType
<1>5. SeenQueue(q) # <<>>
  BY <1>2, <1>3
<1>6. Tail(SeenQueue(q)) \in Seq(SeenEntry) /\ Len(Tail(SeenQueue(q))) = Len(q) - 1
  BY <1>3, <1>5
<1>7. \A i \in 1 .. Len(q) - 1 : SeenQueue(Tail(q))[i] = Tail(SeenQueue(q))[i]
  BY <1>2, <1>3 DEF SeenQueue
<1> QED BY <1>4, <1>5, <1>6, <1>7, SeqEqual

(* Transmit offers what is seen of the frame. *)
LEMMA SeenTransmit ==
  ASSUME IInv, NEW a \in Actuator, NEW s \in Slot, Transmit(a, s)
  PROVE  SeenQueue(tx_queue') = Port!Offered(SeenQueue(tx_queue), [to |-> a, frame |-> s.id])
<1> DEFINE e == [to |-> a, id |-> s.id, data |-> s.data]
<1>1. tx_queue \in Seq(Entry) /\ e \in Entry
  BY DEF IInv, TypeOK, Entry, Slot
<1>2. Seen(e) = [to |-> a, frame |-> s.id]
  BY DEF Seen
<1>3. tx_queue' = IF Len(tx_queue) < QueueSize THEN Append(tx_queue, e) ELSE tx_queue
  BY DEF Transmit
<1> HIDE DEF e
<1>4. Len(SeenQueue(tx_queue)) = Len(tx_queue)
  BY <1>1, SeenType
<1>5. SeenQueue(Append(tx_queue, e)) = Append(SeenQueue(tx_queue), Seen(e))
  BY <1>1, SeenAppend
<1> QED BY <1>2, <1>3, <1>4, <1>5 DEF Port!Offered

(* What CommandPort sees is one of its initial states. *)
LEMMA PortStart == Init => Port!PortInit
<1> SUFFICES ASSUME Init PROVE Port!PortInit
  OBVIOUS
<1>1. Reg = [a \in Actuator |-> None]
  BY CanBusAssumption DEF Init, Reg, Zeroed
<1>2. Pending = [u \in User |-> NoCall]
  BY DEF Init, Pending
<1>3. SeenQueue(tx_queue) = <<>>
  BY DEF Init, SeenQueue
<1> QED BY <1>1, <1>2, <1>3 DEF Port!PortInit, Reg, Pending, SeenQueue, Seen, NoCall, Port!NoRequest

(* Every step is one of its steps, or invisible. *)
LEMMA PortStep == IInv /\ IInv' /\ [Next]_vars => [Port!PortNext]_(Port!portVars)
<1> SUFFICES ASSUME IInv, IInv', [Next]_vars PROVE [Port!PortNext]_(Port!portVars)
  OBVIOUS
<1> USE CanBusAssumption
<1>0. /\ Held /\ Calls /\ Slots
      /\ slot \in [Actuator -> Slot] /\ arg \in [User -> Call] /\ frame \in [User -> Slot]
      /\ upc \in [User -> {"idle", "id", "data", "copy", "transmit"}]
      /\ tx_queue \in Seq(Entry)
  BY DEF IInv, TypeOK, Entry
<1> DEFINE Same == Reg' = Reg /\ Pending' = Pending /\ SeenQueue(tx_queue)' = SeenQueue(tx_queue)
<1>s. Same => UNCHANGED Port!portVars
  BY DEF Port!portVars, Reg, Pending, SeenQueue, Seen
<1>1. ASSUME NEW u \in User, NEW a \in Actuator, NEW f \in Frame, Lock(u, a, f)
      PROVE  Same
  <2>1. Pending' = Pending
    BY <1>0, <1>1 DEF Lock, Pending
  <2> QED BY <1>1, <2>1 DEF Lock, Reg
<1>2. ASSUME NEW u \in User, WriteId(u) PROVE [Port!PortNext]_(Port!portVars)
  <2>1. PICK a \in Actuator, f \in Frame : a = arg[u].to /\ f = arg[u].frame
    BY <1>0, <1>2 DEF WriteId, Calls, Call
  <2>2. \A b \in Actuator : slot'[b].id = IF b = a THEN f ELSE slot[b].id
    BY <1>0, <1>2, <2>1 DEF WriteId, Slot
  <2>3. Reg' = [Reg EXCEPT ![a] = IF f \in Periodic THEN f ELSE None]
    BY <2>2 DEF Reg
  <2>4. \A v \in User : upc'[v] = IF v = u THEN "data" ELSE upc[v]
    BY <1>0, <1>2 DEF WriteId
  <2>5. SeenQueue(tx_queue)' = SeenQueue(tx_queue) /\ arg' = arg /\ upc[u] = "id"
    BY <1>2 DEF WriteId
  <2>6. Pending' = IF f \in Once THEN [Pending EXCEPT ![u] = arg[u]] ELSE Pending
    BY <2>1, <2>4, <2>5 DEF Pending
  <2>7. CASE f \in Periodic
    <3>1. f \notin Once
      BY <2>7 DEF Once
    <3>2. Port!Set(a, f)
      BY <2>3, <2>5, <2>6, <2>7, <3>1 DEF Port!Set, Reg, Pending, SeenQueue, Seen
    <3> QED BY <2>7, <3>2 DEF Port!PortNext
  <2>8. CASE f \in Once
    <3>1. f \notin Periodic
      BY <2>8 DEF Once
    <3>2. arg[u] = [to |-> a, frame |-> f]
      BY <1>0, <2>1 DEF Call
    <3>3. Pending[u] = NoCall
      BY <2>5 DEF Pending
    <3>4. Port!Request(u, a, f)
      BY <2>3, <2>5, <2>6, <2>8, <3>1, <3>2, <3>3
      DEF Port!Request, Reg, Pending, SeenQueue, Seen, NoCall, Port!NoRequest
    <3> QED BY <2>8, <3>4 DEF Port!PortNext, Port!Once, Once
  <2> QED BY <2>1, <2>7, <2>8 DEF Frame
<1>3. ASSUME NEW u \in User, WriteData(u) PROVE Same
  <2>1. upc[u] = "data" /\ slot' = [slot EXCEPT ![arg[u].to].data = arg[u].frame]
        /\ tx_queue' = tx_queue
    BY <1>3 DEF WriteData
  <2>2. \A b \in Actuator : slot'[b].id = slot[b].id
    BY <1>0, <2>1 DEF Slot
  <2>3. Reg' = Reg
    BY <2>2 DEF Reg
  <2>4. Pending' = Pending
    <3>1. CASE /\ arg[u].frame \in Periodic /\ upc' = [upc EXCEPT ![u] = "idle"]
               /\ arg' = [arg EXCEPT ![u] = NoCall]
      <4>1. arg[u].frame \notin Once
        BY <3>1 DEF Once
      <4>2. \A v \in User : v # u => upc'[v] = upc[v] /\ arg'[v] = arg[v]
        BY <1>0, <3>1
      <4>3. upc'[u] = "idle"
        BY <1>0, <3>1
      <4> QED BY <4>1, <4>2, <4>3 DEF Pending
    <3>2. CASE arg[u].frame \in Once /\ upc' = [upc EXCEPT ![u] = "copy"] /\ arg' = arg
      <4>1. \A v \in User : v # u => upc'[v] = upc[v]
        BY <1>0, <3>2
      <4>2. upc'[u] = "copy"
        BY <1>0, <3>2
      <4> QED BY <2>1, <3>2, <4>1, <4>2 DEF Pending
    <3> QED BY <1>3, <3>1, <3>2 DEF WriteData
  <2> QED BY <2>1, <2>3, <2>4
<1>4. ASSUME NEW u \in User, Capture(u) PROVE Same
  <2> DEFINE a == arg[u].to
  <2>1. a \in Actuator /\ upc[u] = "copy" /\ slot[a].id \in Once
    <3>1. upc[u] = "copy"
      BY <1>4 DEF Capture
    <3>2. slot[arg[u].to] = [id |-> arg[u].frame, data |-> arg[u].frame]
      BY <1>0, <3>1 DEF Slots
    <3>3. arg[u].to \in Actuator /\ arg[u].frame \in Once
      BY <1>0, <3>1 DEF Calls
    <3> QED BY <3>1, <3>2, <3>3
  <2>2. \A b \in Actuator : slot'[b].id = IF b = a THEN None ELSE slot[b].id
    BY <1>0, <1>4 DEF Capture, Zeroed
  <2>3. slot[a].id \notin Periodic
    BY <2>1 DEF Once
  <2>4. Reg' = Reg
    BY <2>1, <2>2, <2>3 DEF Reg
  <2>5. Pending' = Pending
    BY <1>0, <1>4 DEF Capture, Pending
  <2> QED BY <1>4, <2>4, <2>5 DEF Capture
<1>5. ASSUME NEW u \in User, TransmitOnce(u) PROVE [Port!PortNext]_(Port!portVars)
  <2>1. /\ upc[u] = "transmit" /\ slot' = slot /\ Transmit(arg[u].to, frame[u])
        /\ upc' = [upc EXCEPT ![u] = "idle"] /\ arg' = [arg EXCEPT ![u] = NoCall]
    BY <1>5 DEF TransmitOnce
  <2>2. arg[u].to \in Actuator /\ arg[u].frame \in Once /\ frame[u].id = arg[u].frame
    <3>1. frame[u] = [id |-> arg[u].frame, data |-> arg[u].frame]
      BY <1>0, <2>1 DEF Slots
    <3>2. arg[u].to \in Actuator /\ arg[u].frame \in Once
      BY <1>0, <2>1 DEF Calls
    <3> QED BY <3>1, <3>2
  <2>3. arg[u] = [to |-> arg[u].to, frame |-> arg[u].frame] /\ frame[u] \in Slot
    BY <1>0 DEF Call
  <2>4. Pending[u] = arg[u] /\ Pending[u] # NoCall
    BY <2>1, <2>2 DEF Pending, NoCall
  <2>5. Pending' = [Pending EXCEPT ![u] = NoCall]
    BY <1>0, <2>1 DEF Pending
  <2>6. Reg' = Reg
    BY <2>1 DEF Reg
  <2>7. SeenQueue(tx_queue)' = Port!Offered(SeenQueue(tx_queue), Pending[u])
    <3>1. SeenQueue(tx_queue') = Port!Offered(SeenQueue(tx_queue), [to |-> arg[u].to, frame |-> frame[u].id])
      BY <2>1, <2>2, <2>3, SeenTransmit
    <3> QED BY <2>2, <2>3, <2>4, <3>1 DEF SeenQueue
  <2>8. Port!Fire(u)
    BY <2>4, <2>5, <2>6, <2>7 DEF Port!Fire, Reg, Pending, SeenQueue, Seen, NoCall, Port!NoRequest
  <2> QED BY <2>8 DEF Port!PortNext
<1>6. CASE LoopLock \/ UNCHANGED vars
  <2>1. slot' = slot /\ upc' = upc /\ arg' = arg /\ tx_queue' = tx_queue
    BY <1>6 DEF LoopLock, vars
  <2>2. Same
    BY <2>1 DEF Reg, Pending, SeenQueue
  <2> QED BY <1>s, <2>2
<1>7. ASSUME NEW a \in Actuator, LoopVisit(a) PROVE [Port!PortNext]_(Port!portVars)
  <2>1. Reg' = Reg /\ Pending' = Pending /\ a \in round
    BY <1>7 DEF LoopVisit, Reg, Pending
  <2>2. slot[a] \in Slot /\ slot[a].id \in Periodic \cup {None}
    BY <2>1, SettledSlots
  <2>3. CASE slot[a].id = None
    BY <1>7, <1>s, <2>1, <2>3 DEF LoopVisit, SeenQueue
  <2>4. CASE slot[a].id \in Periodic
    <3>1. Transmit(a, slot[a])
      BY <1>7, <2>4 DEF LoopVisit
    <3>2. SeenQueue(tx_queue') = Port!Offered(SeenQueue(tx_queue), [to |-> a, frame |-> slot[a].id])
      BY <2>2, <3>1, SeenTransmit
    <3>3. Reg[a] = slot[a].id /\ Reg[a] # None
      BY <2>4 DEF Reg
    <3>4. Port!Repeat(a)
      BY <2>1, <3>2, <3>3 DEF Port!Repeat, Reg, Pending, SeenQueue, Seen
    <3> QED BY <3>4 DEF Port!PortNext
  <2> QED BY <2>2, <2>3, <2>4
<1>8. CASE Take
  <2>1. Reg' = Reg /\ Pending' = Pending
    BY <1>8 DEF Take, Reg, Pending
  <2>2. SeenQueue(tx_queue) # <<>> /\ SeenQueue(tx_queue') = Tail(SeenQueue(tx_queue))
    BY <1>0, <1>8, SeenTail DEF Take
  <2>3. Port!Take
    BY <2>1, <2>2 DEF Port!Take, Reg, Pending, SeenQueue, Seen
  <2> QED BY <2>3 DEF Port!PortNext
<1> QED
  BY <1>s, <1>1, <1>2, <1>3, <1>4, <1>5, <1>6, <1>7, <1>8 DEF Next

(* The bus implements the routing contract of can_bus.h. *)
THEOREM Refinement == Spec => ImplementsCommandPort
  BY IInvHolds, PortStart, PortStep, PTL DEF Spec, ImplementsCommandPort, Port!PortSpec
-----------------------------------------------------------------------------
(* The socket below the bus, by itself: for any number of callers, control *)
(* loops and queue sizes, closing it is safe.                              *)

(* close() has cleared receiving_ before anything else, and closes the     *)
(* descriptor only after the sender thread has ended.                      *)
Closing ==
  /\ sockfd = "closed" <=> closer = "done"
  /\ closer # "none" => ~ receiving
  /\ closer = "done" => spc = "ended"

(* transmit (socket_can.cpp:192): the queue stays within TX_QUEUE_SIZE,    *)
(* and a call within its bound.                                            *)
LEMMA PushTyped ==
  ASSUME SocketTypeOK, NEW u \in Sender, Push(u)
  PROVE  SocketTypeOK'
<1> USE SocketAssumption
<1>1. frames' \in Seq(Sender) /\ (Len(frames) <= TxQueueSize)'
  <2>1. CASE Len(frames) < TxQueueSize
    <3>1. frames' = Append(frames, u)
      BY <2>1 DEF Push
    <3>2. QED BY <2>1, <3>1 DEF SocketTypeOK
  <2>2. CASE ~ (Len(frames) < TxQueueSize)
    BY <2>2 DEF SocketTypeOK, Push
  <2>3. QED BY <2>1, <2>2
<1>2. calls' \in [Sender -> 0 .. MaxCalls]
  <2>1. CASE u \in Loop
    BY <2>1 DEF SocketTypeOK, Push
  <2>2. CASE u \notin Loop
    <3>1. calls[u] + 1 \in 0 .. MaxCalls
      BY <2>2 DEF SocketTypeOK, Push
    <3>2. calls' = [calls EXCEPT ![u] = @ + 1]
      BY <2>2 DEF Push
    <3>3. QED BY <3>1, <3>2 DEF SocketTypeOK
  <2>3. QED BY <2>1, <2>2
<1>3. QED BY <1>1, <1>2 DEF SocketTypeOK, Push

LEMMA SocketTypeStep == SocketTypeOK /\ [SocketNext]_socketVars => SocketTypeOK'
<1> SUFFICES ASSUME SocketTypeOK, [SocketNext]_socketVars PROVE SocketTypeOK'
  OBVIOUS
<1>1. ASSUME NEW u \in Sender, Push(u) PROVE SocketTypeOK'
  BY <1>1, PushTyped
<1>2. ASSUME NEW u \in Sender, Notify(u) PROVE SocketTypeOK'
  BY <1>2 DEF SocketTypeOK, Notify, Notified
<1>3. CASE SenderThread
  <2>1. CASE Pop
    <3>1. frames \in Seq(Sender) /\ frames # <<>> /\ frames' = Tail(frames)
      BY <2>1 DEF SocketTypeOK, Pop
    <3>2. frames' \in Seq(Sender) /\ Len(frames') = Len(frames) - 1 /\ Len(frames) \in Nat
      BY <3>1
    <3>3. (Len(frames) <= TxQueueSize)'
      BY <3>2, SocketAssumption DEF SocketTypeOK
    <3>4. QED BY <2>1, <3>2, <3>3 DEF SocketTypeOK, Pop
  <2>2. CASE Leave \/ FindEmpty \/ Block \/ Write
    BY <2>2 DEF SocketTypeOK, Leave, FindEmpty, Block, Write
  <2>3. QED BY <1>3, <2>1, <2>2 DEF SenderThread
<1>4. CASE Close
  BY <1>4 DEF SocketTypeOK, Close, CloseFlag, CloseNotify, CloseJoin, Notified
<1>5. CASE UNCHANGED socketVars
  BY <1>5 DEF SocketTypeOK, socketVars
<1>6. QED BY <1>1, <1>2, <1>3, <1>4, <1>5 DEF SocketNext

LEMMA ClosingStep == Closing /\ [SocketNext]_socketVars => Closing'
<1> SUFFICES ASSUME Closing, [SocketNext]_socketVars PROVE Closing'
  OBVIOUS
<1>1. ASSUME NEW u \in Sender, Push(u) \/ Notify(u) PROVE Closing'
  BY <1>1 DEF Closing, Push, Notify, Notified
<1>2. CASE SenderThread
  BY <1>2 DEF Closing, SenderThread, Leave, FindEmpty, Block, Pop, Write
<1>3. CASE Close
  BY <1>3 DEF Closing, Close, CloseFlag, CloseNotify, CloseJoin, Notified
<1>4. CASE UNCHANGED socketVars
  BY <1>4 DEF Closing, socketVars
<1>5. QED BY <1>1, <1>2, <1>3, <1>4 DEF SocketNext

(* The queue never holds more than TX_QUEUE_SIZE frames, whatever callers  *)
(* push (socket_can.cpp:197).                                              *)
THEOREM SocketTypeCorrect == SocketSpec => []SocketTypeOK
<1>1. SocketInit => SocketTypeOK
  BY SocketAssumption DEF SocketInit, SocketTypeOK
<1>2. QED BY <1>1, SocketTypeStep, PTL DEF SocketSpec

(* The sender thread is joined before the descriptor is closed             *)
(* (socket_can.cpp:186-189), so it never writes to a closed one.           *)
THEOREM NoWriteAfterCloseHolds == SocketSpec => []NoWriteAfterClose
<1>1. SocketInit => Closing
  BY DEF SocketInit, Closing
<1>2. SocketTypeOK /\ Closing => NoWriteAfterClose
  BY DEF SocketTypeOK, Closing, NoWriteAfterClose
<1>3. QED BY <1>1, <1>2, ClosingStep, SocketTypeCorrect, PTL DEF SocketSpec
=============================================================================
