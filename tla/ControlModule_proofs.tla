------------------------ MODULE ControlModule_proofs ------------------------
(***************************************************************************)
(* Proofs about ControlModule, for every mode graph, controller list and   *)
(* value of the timing constants its assumptions allow.                    *)
(***************************************************************************)
EXTENDS ControlModule, SequenceTheorems, TLAPS

(* What the loop's position says of the list it walks. *)
LoopInv ==
  /\ controllers \in ModeLists
  /\ names \in ModeLists \cup {<<>>}
  /\ pc \notin LoopIdle => k \in 1 .. Len(names)
  /\ pc = "pdwrite" => running \in PD
  /\ pc \in {"observe", "clear", "act", "count", "countwr"} => running \in RL
  /\ pc = "init" => names = <<>>

(* What the callback's position says of the controllers still to restart. *)
RestartInv ==
  /\ tpc \in {"restart", "percent", "count", "zero"} => todo # <<>>
  /\ tpc = "percent" => Head(todo) \in PD
  /\ tpc \in {"count", "zero"} => Head(todo) \in RL

Base == TypeOK /\ LoopInv /\ RestartInv

(* Every mode runs at least one controller. *)
LEMMA ModeListsType ==
  \A l \in ModeLists : l \in Seq(Controller) /\ l # <<>> /\ Len(l) \in Nat \ {0}
  BY StateMachineAssumption DEF ModeLists

(* The loop over the controllers to restart consumes them one by one. *)
LEMMA TailNonEmpty ==
  ASSUME NEW s \in Seq(Controller), s # <<>>
  PROVE  /\ Head(s) \in Controller
         /\ Tail(s) \in Seq(Controller)
         /\ Len(s) # 1 => Tail(s) # <<>>
  <1> DEFINE t == Tail(s)
  <1>1. /\ Head(s) \in Controller
        /\ t \in Seq(Controller)
        /\ Len(t) = Len(s) - 1
    BY HeadTailProperties
  <1>2. Len(s) \in Nat
    OBVIOUS
  <1> HIDE DEF t
  <1>3. ASSUME t = <<>> PROVE Len(s) = 1
    <2>1. Len(t) = 0
      BY <1>3
    <2>2. QED
      BY <1>1, <1>2, <2>1
  <1>4. QED
    BY <1>1, <1>3 DEF t

(* The module starts well typed, with both threads in place. *)
LEMMA BaseInit == Init => Base
  <1> SUFFICES ASSUME Init PROVE Base
    OBVIOUS
  <1> USE StateMachineAssumption, ControlAssumption
  <1>1. TypeOK
    <2>1. ControllersOf[FirstMode] \in Seq(Controller)
      OBVIOUS
    <2>2. cmd_msg \in [Joint -> Command]
      BY DEF Init, Command, NoCommand, Age, Action
    <2>3. /\ start \in [PD -> Age] /\ percent \in [PD -> 0 .. RampSteps]
          /\ is_first_frame \in [RL -> BOOLEAN] /\ loop_count \in [RL -> 0 .. Decimation - 1]
          /\ actions \in [RL -> Action] /\ lpf \in [RL -> Age]
      BY DEF Init, Age, Action
    <2>4. since \in 0 .. SinceCap /\ late \in 0 .. 2
      BY DEF Init, SinceCap
    <2>5. entered \in BOOLEAN /\ clean \in BOOLEAN /\ post \in BOOLEAN
      BY Zenon DEF Init
    <2>6. QED
      BY <2>1, <2>2, <2>3, <2>4, <2>5 DEF Init, SMInit, TypeOK, LoopIdle, LoopPC, TriggerPC, Age, Action, RL, SinceCap
  <1>2. LoopInv
    BY DEF Init, SMInit, LoopInv, ModeLists, LoopIdle
  <1>3. RestartInv
    BY DEF Init, RestartInv
  <1>4. QED
    BY <1>1, <1>2, <1>3 DEF Base

(* Every step of either thread keeps types and positions. *)
LEMMA BaseStep == Base /\ [Next]_vars => Base'
  <1> SUFFICES ASSUME Base, [Next]_vars PROVE Base'
    OBVIOUS
  <1> USE StateMachineAssumption, ControlAssumption, ModeListsType
      DEF Base, TypeOK, LoopInv, RestartInv, RL, LoopIdle, LoopPC, TriggerPC, Age, Action, SinceCap, AtMost, running
  <1>1. ASSUME NEW topic \in Topic, TriggerAccepted(topic) PROVE Base'
    <2>1. TypeOK'
      <3>1. /\ current_state_name' \in Mode
            /\ start' \in [PD -> Age]
            /\ actions' \in [RL -> Action]
            /\ lpf' \in [RL -> Age]
            /\ obs' \in Age
        BY <1>1 DEF TriggerAccepted, AgedAll, Aged
      <3>2. /\ entered' \in BOOLEAN /\ clean' \in BOOLEAN /\ post' \in BOOLEAN
        <4>1. entered' = TRUE /\ clean' = (pc \in LoopIdle) /\ post' = FALSE
          BY <1>1 DEF TriggerAccepted
        <4>2. (pc \in LoopIdle) \in BOOLEAN
          OBVIOUS
        <4>3. QED
          BY <4>1, <4>2, Zenon
      <3>3. since' \in 0 .. SinceCap
        BY <1>1 DEF TriggerAccepted
      <3>4. QED
        BY <1>1, <3>1, <3>2, <3>3 DEF TriggerAccepted
    <2>2. LoopInv'
      BY <1>1 DEF TriggerAccepted, AgedAll, Aged
    <2>3. RestartInv'
      BY <1>1 DEF TriggerAccepted, AgedAll, Aged
    <2>4. QED
      BY <2>1, <2>2, <2>3
  <1>2. ASSUME NEW topic \in Topic, TriggerRejected(topic) PROVE Base'
    <2>1. TypeOK'
      BY <1>2 DEF TriggerRejected, loopVars, pdVars, rlVars, history
    <2>2. LoopInv'
      BY <1>2 DEF TriggerRejected, loopVars, pdVars, rlVars, history
    <2>3. RestartInv'
      BY <1>2 DEF TriggerRejected, loopVars, pdVars, rlVars, history
    <2>4. QED
      BY <2>1, <2>2, <2>3
  <1>3. CASE Swap
    <2>1. TypeOK'
      BY <1>3 DEF Swap, loopVars, pdVars, rlVars, history
    <2>2. LoopInv'
      <3>1. controllers' \in ModeLists
        BY <1>3 DEF Swap, ModeLists
      <3>2. QED
        BY <1>3, <3>1 DEF Swap, loopVars
    <2>3. RestartInv'
      BY <1>3 DEF Swap, loopVars, pdVars, rlVars, history
    <2>4. QED
      BY <2>1, <2>2, <2>3
  <1>4. CASE RestartStart
    <2>1. start' \in [PD -> Age]
      BY <1>4 DEF RestartStart
    <2>2. TypeOK'
      BY <1>4, <2>1 DEF RestartStart, loopVars, rlVars, history
    <2>3. LoopInv'
      BY <1>4 DEF RestartStart, loopVars
    <2>4. RestartInv'
      BY <1>4 DEF RestartStart
    <2>5. QED
      BY <2>2, <2>3, <2>4
  <1>5. CASE RestartPercent
    <2>1. TypeOK'
      <3>1. percent' \in [PD -> 0 .. RampSteps]
        BY <1>5 DEF RestartPercent
      <3>2. todo' \in Seq(Controller) /\ tpc' \in TriggerPC
        BY <1>5, TailNonEmpty DEF RestartPercent, RestartNext
      <3>3. QED
        BY <1>5, <3>1, <3>2 DEF RestartPercent, loopVars, rlVars, history
    <2>2. LoopInv'
      BY <1>5 DEF RestartPercent, loopVars, rlVars, history, RestartNext
    <2>3. RestartInv'
      BY <1>5, TailNonEmpty DEF RestartPercent, RestartNext
    <2>4. QED
      BY <2>1, <2>2, <2>3
  <1>6. CASE RestartFirstFrame
    <2>1. TypeOK'
      <3>1. is_first_frame' \in [RL -> BOOLEAN]
        BY <1>6 DEF RestartFirstFrame
      <3>2. QED
        BY <1>6, <3>1 DEF RestartFirstFrame, loopVars, pdVars, history
    <2>2. LoopInv'
      BY <1>6 DEF RestartFirstFrame, loopVars, pdVars, history
    <2>3. RestartInv'
      BY <1>6 DEF RestartFirstFrame, loopVars, pdVars, history
    <2>4. QED
      BY <2>1, <2>2, <2>3
  <1>7. CASE RestartCount
    <2>1. TypeOK'
      <3>1. loop_count' \in [RL -> 0 .. Decimation - 1]
        BY <1>7 DEF RestartCount
      <3>2. QED
        BY <1>7, <3>1 DEF RestartCount, loopVars, pdVars, history
    <2>2. LoopInv'
      BY <1>7 DEF RestartCount, loopVars, pdVars, history
    <2>3. RestartInv'
      BY <1>7 DEF RestartCount, loopVars, pdVars, history
    <2>4. QED
      BY <2>1, <2>2, <2>3
  <1>8. CASE RestartActions
    <2>1. TypeOK'
      <3>1. actions' \in [RL -> Action]
        BY <1>8 DEF RestartActions
      <3>2. todo' \in Seq(Controller) /\ tpc' \in TriggerPC
        BY <1>8, TailNonEmpty DEF RestartActions, RestartNext
      <3>3. QED
        BY <1>8, <3>1, <3>2 DEF RestartActions, loopVars, pdVars, history
    <2>2. LoopInv'
      BY <1>8 DEF RestartActions, loopVars, pdVars, history, RestartNext
    <2>3. RestartInv'
      BY <1>8, TailNonEmpty DEF RestartActions, RestartNext
    <2>4. QED
      BY <2>1, <2>2, <2>3
  <1>9. CASE Start
    <2>1. TypeOK'
      BY <1>9 DEF Start, modeVars, pdVars, rlVars, history
    <2>2. LoopInv'
      BY <1>9 DEF Start, modeVars, pdVars, rlVars, history
    <2>3. RestartInv'
      BY <1>9 DEF Start, modeVars, pdVars, rlVars, history
    <2>4. QED
      BY <2>1, <2>2, <2>3
  <1>10. CASE Check
    <2>1. TypeOK'
      BY <1>10 DEF Check, modeVars, pdVars, rlVars, history
    <2>2. LoopInv'
      BY <1>10 DEF Check, modeVars, pdVars, rlVars, history
    <2>3. RestartInv'
      BY <1>10 DEF Check, modeVars, pdVars, rlVars, history
    <2>4. QED
      BY <2>1, <2>2, <2>3
  <1>11. CASE Snapshot
    <2>1. TypeOK'
      BY <1>11 DEF Snapshot, modeVars, pdVars, rlVars
    <2>2. LoopInv'
      BY <1>11 DEF Snapshot, modeVars, pdVars, rlVars
    <2>3. RestartInv'
      BY <1>11 DEF Snapshot, modeVars, pdVars, rlVars
    <2>4. QED
      BY <2>1, <2>2, <2>3
  <1>12. CASE UpdateKeep
    <2>1. TypeOK'
      BY <1>12 DEF UpdateKeep, modeVars, pdVars, rlVars, history, ToGet
    <2>2. LoopInv'
      BY <1>12 DEF UpdateKeep, modeVars, pdVars, rlVars, history, ToGet
    <2>3. RestartInv'
      BY <1>12 DEF UpdateKeep, modeVars, pdVars, rlVars, history, ToGet
    <2>4. QED
      BY <2>1, <2>2, <2>3
  <1>13. CASE UpdateRead
    <2>1. TypeOK'
      <3>1. reg' \in Nat
        BY <1>13 DEF UpdateRead
      <3>2. QED
        BY <1>13, <3>1 DEF UpdateRead, modeVars, pdVars, rlVars, history
    <2>2. LoopInv'
      BY <1>13 DEF UpdateRead, modeVars, pdVars, rlVars, history
    <2>3. RestartInv'
      BY <1>13 DEF UpdateRead, modeVars, pdVars, rlVars, history
    <2>4. QED
      BY <2>1, <2>2, <2>3
  <1>14. CASE UpdateWrite
    <2>1. TypeOK'
      <3>1. percent' \in [PD -> 0 .. RampSteps]
        BY <1>14 DEF UpdateWrite
      <3>2. jleft' \in SUBSET Joint
        BY <1>14 DEF UpdateWrite, ToGet
      <3>3. QED
        BY <1>14, <3>1, <3>2 DEF UpdateWrite, ToGet, modeVars, rlVars, history
    <2>2. LoopInv'
      BY <1>14 DEF UpdateWrite, modeVars, rlVars, history, ToGet
    <2>3. RestartInv'
      BY <1>14 DEF UpdateWrite, modeVars
    <2>4. QED
      BY <2>1, <2>2, <2>3
  <1>15. CASE UpdatePolicy
    <2>1. TypeOK'
      BY <1>15 DEF UpdatePolicy, modeVars, pdVars, rlVars, history
    <2>2. LoopInv'
      BY <1>15 DEF UpdatePolicy, modeVars, pdVars, rlVars, history
    <2>3. RestartInv'
      BY <1>15 DEF UpdatePolicy, modeVars, pdVars, rlVars, history
    <2>4. QED
      BY <2>1, <2>2, <2>3
  <1>16. CASE Observe
    <2>1. TypeOK'
      BY <1>16 DEF Observe, modeVars, pdVars, history
    <2>2. LoopInv'
      BY <1>16 DEF Observe, modeVars, pdVars, history
    <2>3. RestartInv'
      BY <1>16 DEF Observe, modeVars, pdVars, history
    <2>4. QED
      BY <2>1, <2>2, <2>3
  <1>17. CASE ClearFirstFrame
    <2>1. TypeOK'
      BY <1>17 DEF ClearFirstFrame, modeVars, pdVars, history
    <2>2. LoopInv'
      BY <1>17 DEF ClearFirstFrame, modeVars, pdVars, history
    <2>3. RestartInv'
      BY <1>17 DEF ClearFirstFrame, modeVars, pdVars, history
    <2>4. QED
      BY <2>1, <2>2, <2>3
  <1>18. CASE ComputeActions
    <2>1. TypeOK'
      BY <1>18 DEF ComputeActions, modeVars, pdVars, history
    <2>2. LoopInv'
      BY <1>18 DEF ComputeActions, modeVars, pdVars, history
    <2>3. RestartInv'
      BY <1>18 DEF ComputeActions, modeVars, pdVars, history
    <2>4. QED
      BY <2>1, <2>2, <2>3
  <1>19. CASE InferenceThrows
    <2>1. TypeOK'
      BY <1>19 DEF InferenceThrows, modeVars, pdVars, rlVars, history
    <2>2. LoopInv'
      BY <1>19 DEF InferenceThrows, modeVars, pdVars, rlVars, history
    <2>3. RestartInv'
      BY <1>19 DEF InferenceThrows, modeVars, pdVars, rlVars, history
    <2>4. QED
      BY <2>1, <2>2, <2>3
  <1>20. CASE CountRead
    <2>1. reg' \in Nat
      BY <1>20 DEF CountRead
    <2>2. TypeOK'
      BY <1>20, <2>1 DEF CountRead, modeVars, pdVars, rlVars, history
    <2>3. LoopInv' /\ RestartInv'
      BY <1>20 DEF CountRead, modeVars
    <2>4. QED
      BY <2>2, <2>3
  <1>21. CASE CountWrite
    <2>1. TypeOK'
      <3>1. loop_count' \in [RL -> 0 .. Decimation - 1]
        BY <1>21 DEF CountWrite
      <3>2. jleft' \in SUBSET Joint
        BY <1>21 DEF CountWrite, ToGet
      <3>3. QED
        BY <1>21, <3>1, <3>2 DEF CountWrite, ToGet, modeVars, pdVars, history
    <2>2. LoopInv'
      BY <1>21 DEF CountWrite, modeVars, pdVars, history, ToGet
    <2>3. RestartInv'
      BY <1>21 DEF CountWrite, modeVars, pdVars, history, ToGet
    <2>4. QED
      BY <2>1, <2>2, <2>3
  <1>22. ASSUME NEW j \in Joint, GetJoint(j) PROVE Base'
    <2>1. TypeOK'
      <3>1. running \in Controller
        BY <1>22 DEF GetJoint
      <3>2. JointCommand \in Command
        BY <3>1 DEF JointCommand, Command
      <3>3. cmd_msg' \in [Joint -> Command]
        BY <1>22, <3>2 DEF GetJoint
      <3>4. QED
        BY <1>22, <3>3 DEF GetJoint, modeVars, pdVars, rlVars, history
    <2>2. LoopInv'
      BY <1>22 DEF GetJoint, modeVars, pdVars, rlVars, history, JointCommand
    <2>3. RestartInv'
      BY <1>22 DEF GetJoint, modeVars, pdVars, rlVars, history, JointCommand
    <2>4. QED
      BY <2>1, <2>2, <2>3
  <1>23. CASE NextController
    <2>1. TypeOK'
      BY <1>23 DEF NextController, modeVars, pdVars, rlVars, history
    <2>2. LoopInv'
      BY <1>23 DEF NextController, modeVars
    <2>3. RestartInv'
      BY <1>23 DEF NextController, modeVars
    <2>4. QED
      BY <2>1, <2>2, <2>3
  <1>24. CASE Publish
    <2>1. TypeOK'
      BY <1>24 DEF Publish, modeVars, pdVars, rlVars, AtPublish
    <2>2. LoopInv'
      BY <1>24 DEF Publish, modeVars, pdVars, rlVars, AtPublish
    <2>3. RestartInv'
      BY <1>24 DEF Publish, modeVars, pdVars, rlVars, AtPublish
    <2>4. QED
      BY <2>1, <2>2, <2>3
  <1>25. CASE Shutdown
    <2>1. TypeOK'
      BY <1>25 DEF Shutdown, modeVars, loopVars, pdVars, rlVars, history
    <2>2. LoopInv'
      BY <1>25 DEF Shutdown, modeVars, loopVars, pdVars, rlVars, history
    <2>3. RestartInv'
      BY <1>25 DEF Shutdown, modeVars, loopVars, pdVars, rlVars, history
    <2>4. QED
      BY <2>1, <2>2, <2>3
  <1>26. CASE Tick
    <2>1. TypeOK'
      BY <1>26 DEF Tick, pdVars, rlVars, history, OnTime
    <2>2. LoopInv'
      BY <1>26 DEF Tick, pdVars, rlVars, history, OnTime
    <2>3. RestartInv'
      BY <1>26 DEF Tick, pdVars, rlVars, history, OnTime
    <2>4. QED
      BY <2>1, <2>2, <2>3
  <1>27. CASE UNCHANGED vars
    <2>1. TypeOK'
      BY <1>27 DEF vars, modeVars, loopVars, pdVars, rlVars, history
    <2>2. LoopInv'
      BY <1>27 DEF vars, modeVars, loopVars, pdVars, rlVars, history
    <2>3. RestartInv'
      BY <1>27 DEF vars, modeVars, loopVars, pdVars, rlVars, history
    <2>4. QED
      BY <2>1, <2>2, <2>3
  <1>28. QED
    BY <1>1, <1>2, <1>3, <1>4, <1>5, <1>6, <1>7, <1>8, <1>9, <1>10, <1>11, <1>12, <1>13, <1>14, <1>15, <1>16, <1>17, <1>18, <1>19, <1>20, <1>21, <1>22, <1>23, <1>24, <1>25, <1>26, <1>27 DEF Next, Callback, LoopStep

(* Type correctness, with ramps and counters in their bounds (TypeOK). *)
THEOREM TypeCorrect == Spec => []TypeOK
  <1>1. Base => TypeOK
    BY DEF Base
  <1>2. QED
    BY <1>1, BaseInit, BaseStep, PTL DEF Spec
-----------------------------------------------------------------------------
(* controllers_ lags current_state_name_ only between OnEvent's two writes. *)
SettledInv == tpc # "swap" => controllers = ControllersOf[current_state_name]

(* Every step keeps the list equal to the mode's outside OnEvent. *)
LEMMA SettledStep == SettledInv /\ [Next]_vars => SettledInv'
  <1> SUFFICES ASSUME SettledInv, [Next]_vars PROVE SettledInv'
    OBVIOUS
  <1> USE DEF SettledInv
  <1>1. ASSUME NEW topic \in Topic, TriggerAccepted(topic) PROVE SettledInv'
    BY <1>1 DEF TriggerAccepted
  <1>2. ASSUME NEW topic \in Topic, TriggerRejected(topic) PROVE SettledInv'
    BY <1>2 DEF TriggerRejected
  <1>3. CASE Swap
    BY <1>3 DEF Swap
  <1>4. CASE RestartStart
    BY <1>4 DEF RestartStart
  <1>5. CASE RestartPercent
    BY <1>5 DEF RestartPercent, RestartNext
  <1>6. CASE RestartFirstFrame
    BY <1>6 DEF RestartFirstFrame
  <1>7. CASE RestartCount
    BY <1>7 DEF RestartCount
  <1>8. CASE RestartActions
    BY <1>8 DEF RestartActions, RestartNext
  <1>9. CASE Start
    BY <1>9 DEF Start, modeVars
  <1>10. CASE LoopStep
    BY <1>10 DEF LoopStep, Check, Snapshot, UpdateKeep, UpdateRead, UpdateWrite, UpdatePolicy, Observe, ClearFirstFrame, ComputeActions, InferenceThrows, CountRead, CountWrite, GetJoint, NextController, Publish, modeVars
  <1>11. CASE Shutdown
    BY <1>11 DEF Shutdown, modeVars
  <1>12. CASE Tick
    BY <1>12 DEF Tick
  <1>13. CASE UNCHANGED vars
    BY <1>13 DEF vars, modeVars
  <1>14. QED
    BY <1>1, <1>2, <1>3, <1>4, <1>5, <1>6, <1>7, <1>8, <1>9, <1>10, <1>11, <1>12, <1>13 DEF Next, Callback

(* The list and the mode never part for longer than OnEvent's critical     *)
(* moment, in any interleaving (SettledMode).                              *)
THEOREM SettledModeHolds == Spec => []SettledMode
  <1>1. Init => SettledInv
    BY DEF Init, SMInit, SettledInv
  <1>2. SettledInv => SettledMode
    BY DEF SettledInv, SettledMode
  <1>3. QED
    BY <1>1, <1>2, SettledStep, PTL DEF Spec
-----------------------------------------------------------------------------
(* Every step that is not the loop's leaves the loop's variables alone,    *)
(* except that time passes and an accepted trigger ages the observation.   *)
LEMMA LoopFrame ==
  ASSUME [Next]_vars, ~ LoopStep, ~ Start
  PROVE  UNCHANGED <<pc, names, k, jleft, reg, cmd_msg, late>>
  BY DEF Next, vars, loopVars, history, TriggerAccepted, TriggerRejected, Callback, Swap,
         RestartStart, RestartPercent, RestartFirstFrame, RestartCount, RestartActions,
         Shutdown, Tick

(* The loop leaves the mode machine and the callback alone. *)
LEMMA ModeFrame ==
  ASSUME LoopStep \/ Start
  PROVE  UNCHANGED <<modeVars, run_flag, start, entered>>
  BY DEF LoopStep, Start, Check, Snapshot, UpdateKeep, UpdateRead, UpdateWrite, UpdatePolicy,
         Observe, ClearFirstFrame, ComputeActions, InferenceThrows, CountRead, CountWrite,
         GetJoint, NextController, Publish, pdVars, history

(* While a controller's command is merged, the joints done are its own. *)
AuthorityInv ==
  pc = "get" => \A j \in JointsOf[running] \ jleft : cmd_msg[j].by = running

(* Each message has one author, the last controller of one mode's list     *)
(* (OneAuthority).                                                         *)
THEOREM OneAuthorityHolds == Spec => []OneAuthority
  <1>1. Init => AuthorityInv
    BY DEF Init, AuthorityInv
  <1>2. Base /\ AuthorityInv /\ [Next]_vars => AuthorityInv'
    <2> SUFFICES ASSUME Base, AuthorityInv, [Next]_vars PROVE AuthorityInv'
      OBVIOUS
    <2> USE DEF AuthorityInv, running
    <2>1. CASE ~ LoopStep /\ ~ Start
      BY <2>1, LoopFrame
    <2>2. CASE Start
      BY <2>2 DEF Start
    <2>3. ASSUME NEW j \in Joint, GetJoint(j) PROVE AuthorityInv'
      <3>1. JointCommand.by = running
        BY DEF JointCommand
      <3>2. cmd_msg' = [cmd_msg EXCEPT ![j] = JointCommand] /\ cmd_msg \in [Joint -> Command]
        BY <2>3 DEF GetJoint, Base, TypeOK
      <3>3. /\ pc = "get" /\ jleft' = jleft \ {j}
            /\ UNCHANGED <<pc, names, k>>
        BY <2>3 DEF GetJoint
      <3>4. JointsOf[running] \subseteq Joint
        BY <3>3, ControlAssumption, ModeListsType DEF Base, LoopInv, LoopIdle
      <3>5. QED
        BY <3>1, <3>2, <3>3, <3>4
    <2>4. CASE UpdateKeep \/ UpdateWrite \/ CountWrite
      BY <2>4 DEF UpdateKeep, UpdateWrite, CountWrite, ToGet
    <2>5. CASE Check \/ Snapshot \/ UpdateRead \/ UpdatePolicy \/ Observe \/ ClearFirstFrame
                 \/ ComputeActions \/ InferenceThrows \/ CountRead \/ NextController \/ Publish
      BY <2>5 DEF Check, Snapshot, UpdateRead, UpdatePolicy, Observe, ClearFirstFrame,
                  ComputeActions, InferenceThrows, CountRead, NextController, Publish
    <2>6. QED
      BY <2>1, <2>2, <2>3, <2>4, <2>5 DEF LoopStep
  <1>3. Base /\ AuthorityInv => OneAuthority
    <2> SUFFICES ASSUME Base, AuthorityInv, AtPublish
                 PROVE  /\ \E m \in Mode : names = ControllersOf[m]
                        /\ \A j \in Joint : cmd_msg[j].by = Decider
      BY DEF OneAuthority
    <2>1. names \in ModeLists
      BY ModeListsType DEF AtPublish, Base, LoopInv, LoopIdle
    <2>2. running = Decider
      BY DEF AtPublish, running, Decider
    <2>3. JointsOf[running] = Joint
      BY <2>1, <2>2, LastCoversJoints DEF ModeLists, Decider
    <2>4. QED
      BY <2>1, <2>2, <2>3 DEF ModeLists, AtPublish, AuthorityInv
  <1>4. QED
    BY <1>1, <1>2, <1>3, BaseInit, BaseStep, PTL DEF Spec
-----------------------------------------------------------------------------
(* A controller of the mode is latched, or its restart is still to come. *)
Pending(x) == tpc # "idle" /\ \E h \in DOMAIN todo : todo[h] = x

LatchInv ==
  /\ entered /\ tpc # "swap" =>
       \A i \in DOMAIN controllers :
         controllers[i] \in PD => start[controllers[i]] = "new" \/ Pending(controllers[i])
  /\ tpc = "percent" => start[Head(todo)] = "new"

(* Going on to the next controller to restart forgets none but the head. *)
LEMMA RestartNextPending ==
  ASSUME Base, tpc \in {"percent", "zero"}, RestartNext,
         NEW x, Pending(x), x # Head(todo)
  PROVE  Pending(x)'
  <1>1. todo \in Seq(Controller) /\ todo # <<>>
    BY DEF Base, TypeOK, RestartInv
  <1>2. PICK h \in DOMAIN todo : todo[h] = x
    BY DEF Pending
  <1>3. h \in 2 .. Len(todo)
    BY <1>1, <1>2
  <1>4. /\ todo' \in Seq(Controller) /\ Len(todo') = Len(todo) - 1
        /\ \A i \in 1 .. Len(todo') : todo'[i] = todo[i + 1]
    BY <1>1, HeadTailProperties DEF RestartNext
  <1>5. h - 1 \in DOMAIN todo' /\ todo'[h - 1] = x
    BY <1>2, <1>3, <1>4
  <1>6. tpc' = "restart"
    BY <1>1, <1>3 DEF RestartNext
  <1>7. QED
    BY <1>5, <1>6 DEF Pending

(* Every step keeps what is latched, or leaves it to be restarted. *)
LEMMA LatchStep == Base /\ LatchInv /\ [Next]_vars => LatchInv'
  <1> SUFFICES ASSUME Base, LatchInv, [Next]_vars PROVE LatchInv'
    OBVIOUS
  <1>1. ASSUME NEW topic \in Topic, TriggerAccepted(topic) PROVE LatchInv'
    BY <1>1 DEF TriggerAccepted, LatchInv
  <1>2. ASSUME NEW topic \in Topic, TriggerRejected(topic) PROVE LatchInv'
    BY <1>2 DEF TriggerRejected, pdVars, history, LatchInv, Pending
  <1>3. CASE Swap
    BY <1>3 DEF Swap, LatchInv, Pending
  <1>4. CASE RestartStart
    <2>1. start' = [start EXCEPT ![Head(todo)] = "new"] /\ start \in [PD -> Age] /\ Head(todo) \in PD
      BY <1>4 DEF RestartStart, Base, TypeOK
    <2>2. UNCHANGED <<controllers, todo, entered>> /\ tpc = "restart" /\ tpc' = "percent"
      BY <1>4 DEF RestartStart, history
    <2>3. QED
      BY <2>1, <2>2 DEF LatchInv, Pending
  <1>5. CASE RestartFirstFrame \/ RestartCount
    BY <1>5 DEF RestartFirstFrame, RestartCount, pdVars, history, LatchInv, Pending
  <1>6. CASE RestartPercent \/ RestartActions
    <2>1. /\ RestartNext /\ tpc \in {"percent", "zero"}
          /\ UNCHANGED <<controllers, start, entered>>
          /\ tpc' \notin {"percent", "swap"}
      BY <1>6 DEF RestartPercent, RestartActions, RestartNext, pdVars, history
    <2>2. tpc = "zero" => Head(todo) \notin PD
      BY DEF Base, RestartInv, RL
    <2>3. ASSUME entered, NEW i \in DOMAIN controllers, controllers[i] \in PD
          PROVE  start[controllers[i]] = "new" \/ Pending(controllers[i])'
      <3>1. start[controllers[i]] = "new" \/ Pending(controllers[i])
        BY <2>1, <2>3 DEF LatchInv
      <3>2. CASE controllers[i] = Head(todo)
        BY <3>2, <2>1, <2>2, <2>3 DEF LatchInv
      <3>3. CASE controllers[i] # Head(todo)
        BY <3>1, <3>3, <2>1, RestartNextPending DEF Pending
      <3>4. QED
        BY <3>2, <3>3
    <2>4. QED
      BY <2>1, <2>3 DEF LatchInv, Pending
  <1>7. CASE LoopStep \/ Start
    BY <1>7, ModeFrame DEF modeVars, LatchInv, Pending
  <1>8. CASE Shutdown \/ Tick \/ UNCHANGED vars
    BY <1>8 DEF Shutdown, Tick, vars, modeVars, pdVars, history, LatchInv, Pending
  <1>9. QED
    BY <1>1, <1>2, <1>3, <1>4, <1>5, <1>6, <1>7, <1>8 DEF Next, Callback

(* Every PD controller of a mode ramps from an angle captured after the    *)
(* trigger that entered it (StartLatched).                                 *)
THEOREM StartLatchedHolds == Spec => []StartLatched
  <1>1. Init => LatchInv
    BY DEF Init, LatchInv
  <1>2. LatchInv => StartLatched
    BY DEF LatchInv, StartLatched, Pending
  <1>3. QED
    BY <1>1, <1>2, BaseInit, BaseStep, LatchStep, PTL DEF Spec
-----------------------------------------------------------------------------
(* Once a message has been published after Shutdown, MainLoop tests        *)
(* run_flag_ before it does anything else.                                 *)
LateInv ==
  /\ late <= 1
  /\ late = 1 => ~ run_flag /\ pc \in {"check", "stopped"}

(* Shutdown lets at most the message in progress out                       *)
(* (AtMostOneLateCommand).                                                 *)
THEOREM AtMostOneLateCommandHolds == Spec => []AtMostOneLateCommand
  <1>1. Init => LateInv
    BY DEF Init, LateInv
  <1>2. Base /\ LateInv /\ [Next]_vars => LateInv'
    <2> SUFFICES ASSUME Base, LateInv, [Next]_vars PROVE LateInv'
      OBVIOUS
    <2>1. CASE ~ LoopStep /\ ~ Start
      <3>1. UNCHANGED <<pc, late>>
        BY <2>1, LoopFrame
      <3>2. run_flag' = run_flag \/ run_flag' = FALSE
        BY <2>1 DEF Next, vars, TriggerAccepted, TriggerRejected, Callback, Swap,
           RestartStart, RestartPercent, RestartFirstFrame, RestartCount, RestartActions,
           Shutdown, Tick
      <3>3. QED
        BY <3>1, <3>2 DEF LateInv
    <2>2. CASE Publish
      <3>1. late \in 0 .. 2 /\ pc = "get" /\ pc' = "check" /\ run_flag' = run_flag
        BY <2>2 DEF Publish, AtPublish, Base, TypeOK
      <3>2. late = 0
        BY <3>1 DEF LateInv
      <3>3. QED
        BY <2>2, <3>1, <3>2 DEF Publish, LateInv, AtMost
    <2>3. CASE Check \/ Start
      BY <2>3 DEF Check, Start, LateInv, history
    <2>4. CASE Snapshot \/ UpdateKeep \/ UpdateRead \/ UpdateWrite \/ UpdatePolicy
                 \/ Observe \/ ClearFirstFrame \/ ComputeActions \/ InferenceThrows
                 \/ CountRead \/ CountWrite \/ (\E j \in Joint : GetJoint(j)) \/ NextController
      BY <2>4 DEF Snapshot, UpdateKeep, UpdateRead, UpdateWrite, UpdatePolicy, Observe,
                  ClearFirstFrame, ComputeActions, InferenceThrows, CountRead, CountWrite,
                  GetJoint, NextController, LateInv, history
    <2>5. QED
      BY <2>1, <2>2, <2>3, <2>4 DEF LoopStep
  <1>3. LateInv => AtMostOneLateCommand
    BY DEF LateInv, AtMostOneLateCommand
  <1>4. QED
    BY <1>1, <1>2, <1>3, BaseInit, BaseStep, PTL DEF Spec
-----------------------------------------------------------------------------
(* The loop may still be at the list before the last switch, but only for  *)
(* as long as it may go without copying the names: not so long that the    *)
(* throttle lets the next trigger through.                                 *)
Live == pc # "stopped" /\ names # <<>>

GraphInv ==
  /\ Live => names = controllers \/ (ModeEdge(names, controllers) /\ elapsed <= lag)
  /\ tpc # "idle" => elapsed = 0
  /\ tpc = "swap" => /\ ModeEdge(controllers, ControllersOf[current_state_name])
                     /\ Live => names = controllers

(* A request that passes the throttle finds the loop at the current list. *)
LEMMA GraphTrigger ==
  ASSUME Base, SettledInv, GraphInv, NEW topic \in Topic,
         TriggerAccepted(topic) \/ TriggerRejected(topic)
  PROVE  GraphInv'
  <1>1. Live => names = controllers
    <2>1. elapsed = Interval /\ Interval \in Nat /\ MaxLag \in Nat /\ lag \in 0 .. MaxLag
      BY ControlAssumption DEF TriggerAccepted, TriggerRejected, Base, TypeOK
    <2>2. ~ (elapsed <= lag)
      BY <2>1, LoopOutrunsThrottle
    <2>3. QED
      BY <2>2 DEF GraphInv
  <1>2. UNCHANGED <<pc, names, controllers, lag>> /\ elapsed' = 0
    BY DEF TriggerAccepted, TriggerRejected, loopVars
  <1>3. CASE TriggerRejected(topic)
    <2>1. UNCHANGED <<tpc, current_state_name>> /\ tpc = "idle"
      BY <1>3 DEF TriggerRejected
    <2>2. QED
      BY <1>1, <1>2, <2>1 DEF GraphInv, Live
  <1>4. CASE TriggerAccepted(topic)
    <2>1. controllers = ControllersOf[current_state_name]
      BY <1>4 DEF SettledInv, TriggerAccepted
    <2>2. PICK m \in Mode : OnEvent(topic, m) /\ current_state_name' = m
      BY <1>4 DEF TriggerAccepted
    <2>3. current_state_name \in PreStates[m] /\ current_state_name \in Mode
      BY <2>2 DEF OnEvent, Base, TypeOK
    <2>4. ModeEdge(controllers, ControllersOf[m])
      BY <2>1, <2>3 DEF ModeEdge
    <2>5. QED
      BY <1>1, <1>2, <2>2, <2>4 DEF GraphInv, Live
  <1>5. QED
    BY <1>3, <1>4

(* Every step keeps the loop within one switch of the mode machine. *)
LEMMA GraphStep == Base /\ SettledInv /\ GraphInv /\ [Next]_vars => GraphInv'
  <1> SUFFICES ASSUME Base, SettledInv, GraphInv, [Next]_vars PROVE GraphInv'
    OBVIOUS
  <1>1. ASSUME NEW topic \in Topic, TriggerAccepted(topic) \/ TriggerRejected(topic)
        PROVE  GraphInv'
    BY <1>1, GraphTrigger
  <1>2. CASE Swap
    <2>1. /\ tpc = "swap" /\ tpc' = "restart"
          /\ controllers' = ControllersOf[current_state_name]
          /\ UNCHANGED <<pc, names, elapsed, lag>>
      BY <1>2 DEF Swap, loopVars
    <2>2. lag \in Nat
      BY ControlAssumption DEF Base, TypeOK
    <2>3. QED
      BY <2>1, <2>2 DEF GraphInv, Live
  <1>3. CASE RestartStart \/ RestartPercent \/ RestartFirstFrame \/ RestartCount \/ RestartActions
    <2>1. /\ UNCHANGED <<pc, names, controllers, elapsed, lag>>
          /\ tpc # "idle" /\ tpc' # "swap"
      BY <1>3 DEF RestartStart, RestartPercent, RestartFirstFrame, RestartCount,
                  RestartActions, RestartNext, loopVars
    <2>2. QED
      BY <2>1 DEF GraphInv, Live
  <1>4. CASE Start
    <2>1. names' = <<>> /\ UNCHANGED <<controllers, elapsed, tpc, current_state_name>>
      BY <1>4 DEF Start, Base, LoopInv, modeVars
    <2>2. QED
      BY <2>1 DEF GraphInv, Live
  <1>5. CASE Snapshot
    <2>1. names' = controllers /\ UNCHANGED <<controllers, elapsed, tpc, current_state_name>>
      BY <1>5 DEF Snapshot, modeVars
    <2>2. QED
      BY <2>1 DEF GraphInv, Live
  <1>6. CASE LoopStep /\ ~ Snapshot
    <2>1. /\ UNCHANGED <<names, lag, controllers, elapsed, tpc, current_state_name>>
          /\ pc # "stopped"
      BY <1>6 DEF LoopStep, Check, UpdateKeep, UpdateRead, UpdateWrite, UpdatePolicy,
                  Observe, ClearFirstFrame, ComputeActions, InferenceThrows, CountRead,
                  CountWrite, GetJoint, NextController, Publish, AtPublish, modeVars
    <2>2. QED
      BY <2>1 DEF GraphInv, Live
  <1>7. CASE Tick
    <2>1. /\ UNCHANGED <<pc, names, controllers, tpc, current_state_name>>
          /\ tpc = "idle"
          /\ pc \in {"init", "stopped"} \/ lag < MaxLag
          /\ elapsed' = AtMost(Interval, elapsed + 1)
          /\ lag' = AtMost(MaxLag, lag + 1)
      BY <1>7 DEF Tick, OnTime
    <2>2. elapsed \in Nat /\ lag \in Nat /\ MaxLag \in Nat /\ Interval \in Nat
      BY ControlAssumption DEF Base, TypeOK
    <2>3. ASSUME Live PROVE elapsed <= lag => elapsed' <= lag'
      <3>1. lag < MaxLag
        BY <2>1, <2>3 DEF Live, Base, LoopInv
      <3>2. QED
        BY <2>1, <2>2, <3>1 DEF AtMost
    <2>4. QED
      BY <2>1, <2>3 DEF GraphInv, Live
  <1>8. CASE Shutdown \/ UNCHANGED vars
    BY <1>8 DEF Shutdown, vars, modeVars, loopVars, GraphInv, Live
  <1>9. QED
    BY <1>1, <1>2, <1>3, <1>4, <1>5, <1>6, <1>7, <1>8 DEF Next, Callback

(* The controllers MainLoop runs follow the mode graph: the throttle and   *)
(* the loop's pace together keep it from skipping a mode                   *)
(* (AppliedFollowsGraph).                                                  *)
THEOREM AppliedFollowsGraphHolds == Spec => AppliedFollowsGraph
  <1>1. Init => GraphInv
    BY DEF Init, GraphInv, Live
  <1>2. Base /\ GraphInv /\ [Next]_vars
          => [names # <<>> /\ names' # names => ModeEdge(names, names')]_names
    <2> SUFFICES ASSUME Base, GraphInv, [Next]_vars, names # <<>>, names' # names
                 PROVE  ModeEdge(names, names')
      OBVIOUS
    <2>1. Snapshot
      BY LoopFrame DEF LoopStep, Start, Check, UpdateKeep, UpdateRead, UpdateWrite, UpdatePolicy,
         Observe, ClearFirstFrame, ComputeActions, InferenceThrows, CountRead, CountWrite,
         GetJoint, NextController, Publish
    <2>2. QED
      BY <2>1 DEF Snapshot, GraphInv, Live
  <1>3. Init => SettledInv
    BY DEF Init, SMInit, SettledInv
  <1>4. QED
    BY <1>1, <1>2, <1>3, BaseInit, BaseStep, SettledStep, GraphStep, PTL
       DEF Spec, AppliedFollowsGraph
-----------------------------------------------------------------------------
(* Every step maps to a request, an application, the loop's beginning or   *)
(* its end, or no step of the abstract machine.                            *)
LEMMA AbstractStep ==
  ASSUME Base, SettledInv, GraphInv, [Next]_vars
  PROVE  [Abstract!Next]_(Abstract!vars)
  <1> DEFINE phase == CASE pc = "init" -> "before" [] pc = "stopped" -> "ended" [] OTHER -> "on"
             edges == {e \in ModeLists \X ModeLists : ModeEdge(e[1], e[2])}
  <1> USE DEF Abstract!Next, Abstract!vars
  <1>1. CASE Swap
    <2>1. /\ tpc = "swap"
          /\ controllers' = ControllersOf[current_state_name]
          /\ UNCHANGED <<names, pc>>
      BY <1>1 DEF Swap, loopVars
    <2>2. ModeEdge(controllers, controllers') /\ (Live => names = controllers)
      BY <2>1 DEF GraphInv
    <2>3. <<controllers, controllers'>> \in edges
      BY <2>1, <2>2 DEF Base, TypeOK, LoopInv, ModeLists
    <2>4. phase = "on" => names \in {<<>>, controllers}
      BY <2>2 DEF Live
    <2>5. phase' = phase /\ names' = names
      BY <2>1
    <2>6. Abstract!Request
      BY <2>3, <2>4, <2>5 DEF Abstract!Request
    <2>7. QED
      BY <2>6
  <1>2. CASE Snapshot
    <2>1. pc = "sleep" /\ pc' = "update" /\ names' = controllers /\ controllers' = controllers
      BY <1>2 DEF Snapshot, modeVars
    <2>2. Abstract!Apply
      BY <2>1 DEF Abstract!Apply
    <2>3. QED
      BY <2>2
  <1>3. CASE Start
    <2>1. pc = "init" /\ pc' = "check" /\ UNCHANGED <<names, controllers>>
      BY <1>3 DEF Start, modeVars
    <2>2. Abstract!Begin
      BY <2>1 DEF Abstract!Begin
    <2>3. QED
      BY <2>2
  <1>4. CASE LoopStep /\ ~ Snapshot
    <2>1. UNCHANGED <<names, controllers>> /\ pc \notin {"init", "stopped"} /\ pc' # "init"
      BY <1>4 DEF LoopStep, Check, UpdateKeep, UpdateRead, UpdateWrite, UpdatePolicy,
                  Observe, ClearFirstFrame, ComputeActions, InferenceThrows, CountRead,
                  CountWrite, GetJoint, NextController, Publish, AtPublish, modeVars, ToGet
    <2>2. phase = "on" /\ phase' \in {"on", "ended"}
      BY <2>1
    <2>3. Abstract!End \/ UNCHANGED <<controllers, names, phase>>
      BY <2>1, <2>2 DEF Abstract!End
    <2>4. QED
      BY <2>3
  <1>5. CASE ~ Swap /\ ~ LoopStep /\ ~ Start
    <2>1. UNCHANGED <<names, pc>>
      BY <1>5, LoopFrame
    <2>2. controllers' = controllers
      BY <1>5 DEF Next, vars, modeVars, TriggerAccepted, TriggerRejected, Callback, RestartStart,
         RestartPercent, RestartFirstFrame, RestartCount, RestartActions, Shutdown, Tick
    <2>3. QED
      BY <2>1, <2>2
  <1>6. QED
    BY <1>1, <1>2, <1>3, <1>4, <1>5

(* Mode switching implements its abstract specification                    *)
(* (ImplementsModeSwitch).                                                 *)
THEOREM Refinement == Spec => ImplementsModeSwitch
  <1>1. Init => Abstract!Init
    BY DEF Init, SMInit, Abstract!Init
  <1>2. Init => SettledInv /\ GraphInv
    BY DEF Init, SMInit, SettledInv, GraphInv, Live
  <1>3. QED
    BY <1>1, <1>2, BaseInit, BaseStep, SettledStep, GraphStep, AbstractStep, PTL
       DEF Spec, ImplementsModeSwitch, Abstract!Spec
-----------------------------------------------------------------------------
(* The controllers of the mode the machine is in, and the one that decides *)
(* its messages.                                                           *)
Chosen == ControllersOf[current_state_name]
Last == Chosen[Len(Chosen)]

(* The iteration has come to the controller that runs last. *)
AtLast == pc \notin LoopIdle /\ k = Len(names)

(* An iteration that began after the callback (post) runs the controllers  *)
(* of the mode and has an observation from after the trigger; one that     *)
(* goes on while the entry still counts as clean is such an iteration.     *)
Epoch ==
  /\ tpc # "idle" => ~ post
  /\ ~ post => since = 0
  /\ clean => entered
  /\ clean /\ pc \notin LoopIdle => post
  /\ post /\ pc \notin LoopIdle => names = Chosen
  /\ post /\ pc \in {"clear", "act"} => obs = "new"

(* Only an accepted trigger changes the mode. *)
LEMMA ChosenFrame ==
  ASSUME [Next]_vars, ~ \E topic \in Topic : TriggerAccepted(topic)
  PROVE  current_state_name' = current_state_name
  BY DEF Next, vars, modeVars, TriggerRejected, Callback, Swap, RestartStart, RestartPercent,
         RestartFirstFrame, RestartCount, RestartActions, Start, LoopStep, Check, Snapshot,
         UpdateKeep, UpdateRead, UpdateWrite, UpdatePolicy, Observe, ClearFirstFrame,
         ComputeActions, InferenceThrows, CountRead, CountWrite, GetJoint, NextController,
         Publish, Shutdown, Tick

(* The last controller of a mode is reached last, and only then. *)
LEMMA LastIsLast ==
  ASSUME Base, names = Chosen, pc \notin LoopIdle
  PROVE  /\ k \in 1 .. Len(names) /\ Len(names) \in Nat
         /\ k = Len(names) <=> running = Last
         /\ running = Last => JointsOf[running] = Joint
         /\ Last \in Controller
  <1>1. /\ current_state_name \in Mode /\ Chosen \in Seq(Controller) /\ Chosen # <<>>
        /\ k \in 1 .. Len(names)
    BY StateMachineAssumption DEF Base, TypeOK, LoopInv, Chosen
  <1>2. k < Len(names) => running # Last
    <2>1. SUFFICES ASSUME k < Len(names) PROVE running # Last
      OBVIOUS
    <2>2. k \in 1 .. Len(Chosen) - 1
      BY <1>1, <2>1
    <2>3. QED
      BY <1>1, <2>2, LastRunsOnce DEF Chosen, Last, running
  <1>3. k = Len(names) => running = Last
    BY DEF running, Last
  <1>4. Last \in Controller /\ JointsOf[Last] = Joint
    BY <1>1, LastCoversJoints DEF Last, Chosen
  <1>5. QED
    BY <1>1, <1>2, <1>3, <1>4

(* Every step keeps what an iteration after the callback has. *)
LEMMA EpochStep == Base /\ SettledInv /\ Epoch /\ [Next]_vars => Epoch'
  <1> SUFFICES ASSUME Base, SettledInv, Epoch, [Next]_vars PROVE Epoch'
    OBVIOUS
  <1> USE DEF Epoch, LoopIdle
  <1>1. ASSUME NEW topic \in Topic, TriggerAccepted(topic) PROVE Epoch'
    BY <1>1 DEF TriggerAccepted, LoopIdle
  <1>2. ASSUME NEW topic \in Topic, TriggerRejected(topic) PROVE Epoch'
    BY <1>2 DEF TriggerRejected, loopVars, history, Chosen
  <1>3. CASE Callback
    <2>1. /\ tpc # "idle" /\ UNCHANGED <<clean, post, since, entered, pc, names, obs, current_state_name>>
      BY <1>3 DEF Callback, Swap, RestartStart, RestartPercent, RestartFirstFrame, RestartCount,
                  RestartActions, loopVars, history
    <2>2. QED
      BY <2>1 DEF Chosen
  <1>4. CASE Snapshot
    <2>1. /\ pc' = "update" /\ names' = controllers /\ UNCHANGED <<tpc, since, entered, current_state_name>>
          /\ clean' = (clean /\ tpc = "idle") /\ post' = (tpc = "idle")
      BY <1>4 DEF Snapshot, modeVars
    <2>2. tpc = "idle" => names' = Chosen'
      BY <2>1 DEF SettledInv, Chosen
    <2>3. QED
      BY <2>1, <2>2
  <1>5. CASE Observe
    BY <1>5 DEF Observe, modeVars, history, Chosen
  <1>6. CASE ClearFirstFrame
    BY <1>6 DEF ClearFirstFrame, modeVars, history, Chosen
  <1>7. CASE Publish
    BY <1>7 DEF Publish, AtPublish, modeVars, Chosen
  <1>8. CASE LoopStep /\ ~ Snapshot /\ ~ Observe /\ ~ ClearFirstFrame /\ ~ Publish
    <2>1. /\ UNCHANGED <<modeVars, names, obs, clean, post, since, entered>>
          /\ pc' \notin {"clear", "act"}
          /\ pc' \notin LoopIdle => pc \notin LoopIdle
      BY <1>8 DEF LoopStep, Check, UpdateKeep, UpdateRead, UpdateWrite, UpdatePolicy,
                  ComputeActions, InferenceThrows, CountRead, CountWrite, GetJoint,
                  NextController, ToGet, history
    <2>2. QED
      BY <2>1 DEF modeVars, Chosen
  <1>9. CASE Start
    BY <1>9 DEF Start, modeVars, history, Chosen
  <1>10. CASE Shutdown \/ Tick \/ UNCHANGED vars
    BY <1>10 DEF Shutdown, Tick, vars, modeVars, loopVars, history, Chosen
  <1>11. QED
    BY <1>1, <1>2, <1>3, <1>4, <1>5, <1>6, <1>7, <1>8, <1>9, <1>10 DEF Next
-----------------------------------------------------------------------------
(* The ramp of a clean entry: rewound, or about to be, then one step for   *)
(* every iteration; += adds to the value the last iteration left.          *)
Ramp ==
  clean /\ Last \in PD \ Keep /\ tpc # "swap" =>
    \/ Pending(Last)
    \/ /\ percent[Last] = AtMost(RampSteps, IF AtLast /\ pc = "get" THEN since + 1 ELSE since)
       /\ AtLast /\ pc = "pdwrite" => reg = percent[Last]

(* While a clean entry's iteration runs no callback does, and the last     *)
(* controller of the mode is the last it runs.                             *)
LEMMA CleanRuns ==
  ASSUME Base, Epoch, clean \/ post, pc \notin LoopIdle
  PROVE  /\ post /\ tpc = "idle" /\ names = Chosen
         /\ ~ Pending(Last)
         /\ AtLast <=> running = Last
         /\ running = Last => JointsOf[running] = Joint
         /\ Last \in Controller
         /\ k \in 1 .. Len(names) /\ Len(names) \in Nat
  <1>1. post /\ names = Chosen /\ tpc = "idle"
    BY DEF Epoch
  <1>2. QED
    BY <1>1, LastIsLast DEF Pending, AtLast

(* While the callback of a clean entry restarts the controllers, the loop  *)
(* is between iterations and has published nothing.                        *)
LEMMA CleanRestarts ==
  ASSUME Epoch, clean, tpc # "idle"
  PROVE  pc \in LoopIdle /\ ~ AtLast /\ since = 0
  BY DEF Epoch, AtLast

(* The loop's steps move the ramp of a clean entry by one. *)
LEMMA RampLoopStep ==
  ASSUME Base, Epoch, Ramp, LoopStep PROVE Ramp'
  <1>1. UNCHANGED <<current_state_name, tpc, todo>>
    BY ModeFrame DEF modeVars
  <1>2. Last' = Last /\ (Pending(Last)' <=> Pending(Last))
    BY <1>1 DEF Last, Chosen, Pending
  <1>3. /\ since \in Nat /\ SinceCap \in Nat /\ RampSteps \in Nat /\ RampSteps <= SinceCap
        /\ percent \in [PD -> 0 .. RampSteps]
    BY ControlAssumption DEF Base, TypeOK, SinceCap
  <1>4. SUFFICES ASSUME clean', Last \in PD \ Keep, tpc # "swap", ~ Pending(Last)
        PROVE  /\ percent'[Last] = AtMost(RampSteps, IF AtLast' /\ pc' = "get" THEN since' + 1 ELSE since')
               /\ AtLast' /\ pc' = "pdwrite" => reg' = percent'[Last]
    BY <1>1, <1>2 DEF Ramp
  <1>5. CASE Check \/ Snapshot
    <2>1. /\ pc \in LoopIdle /\ pc' \notin {"get", "pdwrite"} /\ clean
          /\ UNCHANGED <<percent, since>>
      BY <1>4, <1>5 DEF Check, Snapshot, pdVars, history, LoopIdle
    <2>2. QED
      BY <1>4, <2>1 DEF Ramp, AtLast
  <1>6. CASE ~ Check /\ ~ Snapshot
    <2>1. clean /\ pc \notin LoopIdle /\ UNCHANGED names
      BY <1>4, <1>6 DEF LoopStep, UpdateKeep, UpdateRead, UpdateWrite, UpdatePolicy, Observe,
         ClearFirstFrame, ComputeActions, InferenceThrows, CountRead, CountWrite, GetJoint,
         NextController, Publish, AtPublish, history, LoopIdle
    <2>2. /\ post
          /\ AtLast <=> running = Last
          /\ Last \in Controller /\ k \in 1 .. Len(names) /\ Len(names) \in Nat
      BY <2>1, CleanRuns
    <2>3. /\ percent[Last] = AtMost(RampSteps, IF AtLast /\ pc = "get" THEN since + 1 ELSE since)
          /\ AtLast /\ pc = "pdwrite" => reg = percent[Last]
      BY <1>4, <2>1 DEF Ramp
    <2>4. CASE UpdateKeep
      <3>1. UNCHANGED <<k, percent, since>> /\ ~ AtLast /\ pc' = "get"
        BY <1>4, <2>2, <2>4 DEF UpdateKeep, ToGet, pdVars, history
      <3>2. QED
        BY <2>1, <2>3, <3>1 DEF AtLast
    <2>5. CASE UpdateRead
      <3>1. UNCHANGED <<k, percent, since>> /\ pc = "update" /\ pc' = "pdwrite" /\ reg' = percent[running]
        BY <2>5 DEF UpdateRead, pdVars, history
      <3>2. QED
        BY <2>1, <2>2, <2>3, <3>1 DEF AtLast
    <2>6. CASE UpdateWrite
      <3>1. /\ UNCHANGED <<k, since>> /\ pc = "pdwrite" /\ pc' = "get"
            /\ percent' = [percent EXCEPT ![running] = AtMost(RampSteps, reg + 1)]
        BY <2>6 DEF UpdateWrite, ToGet, history
      <3>2. CASE AtLast
        <4>1. percent'[Last] = AtMost(RampSteps, AtMost(RampSteps, since) + 1)
          BY <1>3, <1>4, <2>2, <2>3, <3>1, <3>2
        <4>2. QED
          BY <1>3, <2>1, <3>1, <3>2, <4>1 DEF AtMost, AtLast, LoopIdle
      <3>3. CASE ~ AtLast
        BY <1>3, <1>4, <2>1, <2>2, <2>3, <3>1, <3>3 DEF AtLast
      <3>4. QED
        BY <3>2, <3>3
    <2>7. CASE CountWrite
      <3>1. UNCHANGED <<k, percent, since>> /\ running \notin PD /\ pc' = "get"
        BY <2>7 DEF CountWrite, ToGet, pdVars, history, Base, LoopInv, RL
      <3>2. ~ AtLast
        BY <1>4, <2>2, <3>1
      <3>3. QED
        BY <2>1, <2>3, <3>1, <3>2 DEF AtLast
    <2>8. CASE NextController
      <3>1. /\ UNCHANGED <<percent, since>> /\ k < Len(names) /\ pc' = "update"
        BY <2>8 DEF NextController, pdVars, history
      <3>2. ~ AtLast
        BY <2>2, <3>1 DEF AtLast
      <3>3. QED
        BY <2>3, <3>1, <3>2
    <2>9. CASE Publish
      <3>1. /\ UNCHANGED percent /\ AtLast /\ pc = "get" /\ pc' = "check"
            /\ since' = AtMost(SinceCap, since + 1)
        BY <2>2, <2>9 DEF Publish, AtPublish, pdVars, AtLast, LoopIdle
      <3>2. percent[Last] = AtMost(RampSteps, since + 1)
        BY <2>3, <3>1
      <3>3. AtMost(RampSteps, since + 1) = AtMost(RampSteps, since')
        BY <1>3, <3>1 DEF AtMost
      <3>4. QED
        BY <3>1, <3>2, <3>3
    <2>10. CASE \E j \in Joint : GetJoint(j)
      BY <2>1, <2>3, <2>10 DEF GetJoint, pdVars, history, AtLast
    <2>11. CASE UpdatePolicy \/ Observe \/ ClearFirstFrame \/ ComputeActions \/ InferenceThrows \/ CountRead
      <3>1. UNCHANGED <<percent, since>> /\ pc # "get" /\ pc' \notin {"get", "pdwrite"}
        BY <2>11 DEF UpdatePolicy, Observe, ClearFirstFrame, ComputeActions, InferenceThrows, CountRead,
                     pdVars, history
      <3>2. QED
        BY <2>3, <3>1
    <2>12. QED
      BY <1>6, <2>4, <2>5, <2>6, <2>7, <2>8, <2>9, <2>10, <2>11 DEF LoopStep
  <1>7. QED
    BY <1>5, <1>6

(* Every step keeps the ramp of a clean entry. *)
LEMMA RampStep == Base /\ Epoch /\ Ramp /\ [Next]_vars => Ramp'
  <1> SUFFICES ASSUME Base, Epoch, Ramp, [Next]_vars PROVE Ramp'
    OBVIOUS
  <1>1. ASSUME NEW topic \in Topic, TriggerAccepted(topic) PROVE Ramp'
    BY <1>1 DEF TriggerAccepted, Ramp
  <1>2. CASE ~ \E topic \in Topic : TriggerAccepted(topic)
    <2>1. Last' = Last
      BY <1>2, ChosenFrame DEF Last, Chosen
    <2>2. current_state_name \in Mode /\ Chosen \in Seq(Controller) /\ Chosen # <<>>
      BY StateMachineAssumption DEF Base, TypeOK, Chosen
    <2>3. CASE Swap
      <3>1. /\ tpc' = "restart" /\ todo' = Chosen /\ UNCHANGED pc
        BY <2>3 DEF Swap, loopVars, Chosen
      <3>2. Len(Chosen) \in DOMAIN todo' /\ todo'[Len(Chosen)] = Last
        BY <2>2, <3>1 DEF Last
      <3>3. Pending(Last)'
        BY <2>1, <3>1, <3>2 DEF Pending
      <3>4. clean => pc # "pdwrite"
        BY <2>3, CleanRestarts DEF Swap, LoopIdle
      <3>5. QED
        BY <2>3, <3>1, <3>3, <3>4 DEF Ramp, Swap, history
    <2>4. CASE RestartStart \/ RestartFirstFrame \/ RestartCount
      BY <2>1, <2>4 DEF RestartStart, RestartFirstFrame, RestartCount, loopVars, pdVars, history,
                        Ramp, Pending, AtLast
    <2>5. CASE RestartPercent \/ RestartActions
      <3>1. /\ RestartNext /\ tpc \in {"percent", "zero"}
            /\ UNCHANGED <<pc, k, names, reg, clean, since>>
            /\ tpc' # "swap"
        BY <2>5 DEF RestartPercent, RestartActions, RestartNext, loopVars, history
      <3>2. SUFFICES ASSUME clean, Last \in PD \ Keep
            PROVE  /\ Pending(Last)' \/ percent'[Last] = AtMost(RampSteps, since)
                   /\ pc \in LoopIdle
        BY <2>1, <3>1, CleanRestarts DEF Ramp, AtLast, LoopIdle
      <3>3. pc \in LoopIdle /\ ~ AtLast /\ since = 0
        BY <3>1, <3>2, CleanRestarts
      <3>4. CASE Last = Head(todo)
        <4>1. tpc = "percent"
          BY <3>1, <3>2, <3>4 DEF Base, RestartInv, RL
        <4>2. percent'[Last] = 0
          BY <2>5, <3>2, <3>4, <4>1 DEF RestartPercent, RestartActions, Base, TypeOK
        <4>3. QED
          BY <3>3, <4>2, ControlAssumption DEF AtMost
      <3>5. CASE Last # Head(todo)
        <4>1. percent'[Last] = percent[Last]
          BY <2>5, <3>2, <3>5 DEF RestartPercent, RestartActions, pdVars, Base, TypeOK
        <4>2. Pending(Last) => Pending(Last)'
          BY <2>1, <3>1, <3>5, RestartNextPending DEF Pending
        <4>3. QED
          BY <3>1, <3>2, <3>3, <4>1, <4>2 DEF Ramp
      <3>6. QED
        BY <3>4, <3>5
    <2>6. CASE LoopStep
      BY <2>6, RampLoopStep
    <2>7. CASE Start
      BY <2>1, <2>7 DEF Start, modeVars, pdVars, history, Ramp, Pending, AtLast, LoopIdle
    <2>8. ASSUME NEW topic \in Topic, TriggerRejected(topic) PROVE Ramp'
      BY <2>1, <2>8 DEF TriggerRejected, loopVars, pdVars, history, Ramp, Pending, AtLast
    <2>9. CASE Shutdown \/ Tick \/ UNCHANGED vars
      BY <2>1, <2>9 DEF Shutdown, Tick, vars, modeVars, loopVars, pdVars, history, Ramp, Pending, AtLast
    <2>10. QED
      BY <1>2, <2>3, <2>4, <2>5, <2>6, <2>7, <2>8, <2>9 DEF Next, Callback
  <1>3. QED
    BY <1>1, <1>2
-----------------------------------------------------------------------------
(* What a clean entry's last controller has told the joints it is done     *)
(* with: one more step of the ramp than were published.                    *)
RampGiven ==
  clean /\ Last \in PD \ Keep /\ AtLast /\ pc = "get" =>
    \A j \in Joint \ jleft : /\ cmd_msg[j].from = "new"
                             /\ cmd_msg[j].at = AtMost(RampSteps, since + 1)

FreshPolicy == lpf[Last] = "new" /\ actions[Last] = "new"

(* The same of a policy that has run since the trigger. *)
PolicyGiven ==
  post /\ Last \in RL /\ AtLast /\ pc = "get" /\ FreshPolicy =>
    \A j \in Joint \ jleft : cmd_msg[j].from = "new" /\ cmd_msg[j].act = "new"

(* The commands of a message change in GetJoint only, and the joints still *)
(* to do are all of them when the last controller begins.                  *)
LEMMA GivenFrame ==
  ASSUME Base, Epoch, [Next]_vars, ~ \E topic \in Topic : TriggerAccepted(topic),
         ~ \E j \in Joint : GetJoint(j), post', AtLast', pc' = "get"
  PROVE  \/ Joint \ jleft' = {}
         \/ /\ AtLast /\ pc = "get" /\ tpc = "idle"
            /\ UNCHANGED <<current_state_name, jleft, cmd_msg, lpf, actions, since, clean, post>>
  <1>1. CASE UpdateKeep \/ UpdateWrite \/ CountWrite
    <2>1. /\ pc \notin LoopIdle /\ post /\ UNCHANGED <<names, k>> /\ jleft' = JointsOf[running]
      BY <1>1 DEF UpdateKeep, UpdateWrite, CountWrite, ToGet, history, LoopIdle
    <2>2. AtLast
      BY <2>1 DEF AtLast
    <2>3. QED
      BY <2>1, <2>2, CleanRuns
  <1>2. CASE ~ UpdateKeep /\ ~ UpdateWrite /\ ~ CountWrite
    <2>1. CASE LoopStep \/ Start
      BY <1>2, <2>1 DEF LoopStep, Start, Check, Snapshot, UpdateRead, UpdatePolicy, Observe, ClearFirstFrame,
         ComputeActions, InferenceThrows, CountRead, NextController, Publish
    <2>2. CASE ~ LoopStep /\ ~ Start
      <3>1. UNCHANGED <<pc, names, k, jleft, cmd_msg>>
        BY <2>2, LoopFrame
      <3>2. UNCHANGED <<clean, post, since, current_state_name>>
        BY <2>2 DEF Next, vars, modeVars, history, TriggerRejected, Callback, Swap, RestartStart, RestartPercent,
           RestartFirstFrame, RestartCount, RestartActions, Shutdown, Tick
      <3>3. pc \notin LoopIdle /\ pc = "get" /\ AtLast /\ post
        BY <3>1, <3>2 DEF AtLast, LoopIdle
      <3>4. tpc = "idle"
        BY <3>3 DEF Epoch
      <3>5. UNCHANGED <<lpf, actions>>
        BY <2>2, <3>4 DEF Next, vars, rlVars, TriggerRejected, Callback, Swap, RestartStart, RestartPercent,
           RestartFirstFrame, RestartCount, RestartActions, Shutdown, Tick
      <3>6. QED
        BY <3>1, <3>2, <3>3, <3>4, <3>5
    <2>3. QED
      BY <2>1, <2>2
  <1>3. QED
    BY <1>1, <1>2

(* What GetJoint tells a joint, when the last controller is asked. *)
LEMMA GivenJoint ==
  ASSUME Base, Epoch, NEW j \in Joint, GetJoint(j), post, AtLast
  PROVE  /\ running = Last /\ tpc = "idle"
         /\ jleft' = jleft \ {j} /\ cmd_msg'[j] = JointCommand
         /\ \A i \in Joint \ {j} : cmd_msg'[i] = cmd_msg[i]
         /\ pc = "get" /\ UNCHANGED <<current_state_name, tpc, pc, k, names, since, clean, post, lpf, actions>>
  <1>1. running = Last /\ tpc = "idle"
    BY CleanRuns DEF AtLast
  <1>2. cmd_msg \in [Joint -> Command]
    BY DEF Base, TypeOK
  <1>3. QED
    BY <1>1, <1>2 DEF GetJoint, modeVars, rlVars, history

(* Every step keeps what a clean entry's ramp has told the joints. *)
LEMMA RampGivenStep ==
  Base /\ SettledInv /\ LatchInv /\ Epoch /\ Ramp /\ RampGiven /\ [Next]_vars => RampGiven'
  <1> SUFFICES ASSUME Base, SettledInv, LatchInv, Epoch, Ramp, RampGiven, [Next]_vars,
                      clean', Last' \in PD \ Keep, AtLast', pc' = "get"
               PROVE  \A j \in Joint \ jleft' : /\ cmd_msg'[j].from = "new"
                                                /\ cmd_msg'[j].at = AtMost(RampSteps, since' + 1)
    BY DEF RampGiven
  <1>1. CASE \E topic \in Topic : TriggerAccepted(topic)
    BY <1>1 DEF TriggerAccepted, AtLast, LoopIdle
  <1>2. CASE ~ \E topic \in Topic : TriggerAccepted(topic)
    <2>1. Last' = Last /\ post'
      <3>1. Last' = Last
        BY <1>2, ChosenFrame DEF Last, Chosen
      <3>2. Epoch'
        BY EpochStep
      <3>3. QED
        BY <3>1, <3>2 DEF Epoch, AtLast
    <2>2. ASSUME NEW j \in Joint, GetJoint(j)
          PROVE  \A i \in Joint \ jleft' : /\ cmd_msg'[i].from = "new"
                                           /\ cmd_msg'[i].at = AtMost(RampSteps, since' + 1)
      <3>1. post /\ clean /\ AtLast
        BY <2>1, <2>2 DEF GetJoint, history, AtLast, LoopIdle
      <3>2. /\ running = Last /\ tpc = "idle"
            /\ jleft' = jleft \ {j} /\ cmd_msg'[j] = JointCommand
            /\ \A i \in Joint \ {j} : cmd_msg'[i] = cmd_msg[i]
            /\ pc = "get" /\ since' = since
        BY <2>2, <3>1, GivenJoint
      <3>3. start[Last] = "new"
        <4>1. controllers = Chosen /\ entered
          BY <3>1, <3>2 DEF SettledInv, Chosen, Epoch
        <4>2. Len(Chosen) \in DOMAIN Chosen
          BY StateMachineAssumption DEF Chosen, Base, TypeOK
        <4>3. QED
          BY <2>1, <3>2, <4>1, <4>2 DEF LatchInv, Last, Pending
      <3>4. percent[Last] = AtMost(RampSteps, since + 1)
        BY <2>1, <3>1, <3>2 DEF Ramp, Pending
      <3>5. JointCommand.from = "new" /\ JointCommand.at = AtMost(RampSteps, since + 1)
        BY <2>1, <3>2, <3>3, <3>4 DEF JointCommand
      <3>6. QED
        BY <2>1, <3>1, <3>2, <3>5 DEF RampGiven
    <2>3. CASE ~ \E j \in Joint : GetJoint(j)
      BY <1>2, <2>1, <2>3, GivenFrame DEF RampGiven
    <2>4. QED
      BY <2>2, <2>3
  <1>3. QED
    BY <1>1, <1>2

(* Every step keeps what a policy has told the joints. *)
LEMMA PolicyGivenStep ==
  Base /\ SettledInv /\ Epoch /\ PolicyGiven /\ [Next]_vars => PolicyGiven'
  <1> SUFFICES ASSUME Base, SettledInv, Epoch, PolicyGiven, [Next]_vars,
                      post', Last' \in RL, AtLast', pc' = "get", FreshPolicy'
               PROVE  \A j \in Joint \ jleft' : cmd_msg'[j].from = "new" /\ cmd_msg'[j].act = "new"
    BY DEF PolicyGiven
  <1>1. ~ \E topic \in Topic : TriggerAccepted(topic)
    BY DEF TriggerAccepted
  <1>2. Last' = Last
    BY <1>1, ChosenFrame DEF Last, Chosen
  <1>3. ASSUME NEW j \in Joint, GetJoint(j)
        PROVE  \A i \in Joint \ jleft' : cmd_msg'[i].from = "new" /\ cmd_msg'[i].act = "new"
    <2>1. post /\ AtLast
      BY <1>3 DEF GetJoint, history, AtLast, LoopIdle
    <2>2. /\ running = Last /\ pc = "get"
          /\ jleft' = jleft \ {j} /\ cmd_msg'[j] = JointCommand
          /\ \A i \in Joint \ {j} : cmd_msg'[i] = cmd_msg[i]
          /\ UNCHANGED <<lpf, actions>>
      BY <1>3, <2>1, GivenJoint
    <2>3. FreshPolicy
      BY <1>2, <2>2 DEF FreshPolicy
    <2>4. JointCommand.from = "new" /\ JointCommand.act = "new"
      BY <1>2, <2>2, <2>3 DEF JointCommand, FreshPolicy, RL
    <2>5. QED
      BY <1>2, <2>1, <2>2, <2>3, <2>4 DEF PolicyGiven
  <1>4. CASE ~ \E j \in Joint : GetJoint(j)
    BY <1>1, <1>2, <1>4, GivenFrame DEF PolicyGiven, FreshPolicy
  <1>5. QED
    BY <1>3, <1>4
-----------------------------------------------------------------------------
(* The policy of a clean entry: restarted, or about to be, until its first *)
(* inference; that restarts the filters before it computes the actions.    *)
PolicyEntry ==
  clean /\ Last \in RL /\ pc # "stopped" /\ tpc # "swap" =>
    /\ \/ Pending(Last)
       \/ FreshPolicy
       \/ AtLast /\ pc \in {"clear", "act"} /\ lpf[Last] = "new"
       \/ (AtLast => pc \in {"update", "observe"}) /\ is_first_frame[Last] /\ loop_count[Last] = 0
    /\ tpc \in {"count", "zero"} /\ Head(todo) = Last =>
         is_first_frame[Last] /\ (tpc = "zero" => loop_count[Last] = 0)

(* A controller's fields are changed by the loop only in its own Update. *)
LEMMA OwnFields ==
  ASSUME Base, LoopStep, NEW c \in RL, pc \in LoopIdle \/ running # c
  PROVE  /\ lpf'[c] = lpf[c] /\ actions'[c] = actions[c]
         /\ is_first_frame'[c] = is_first_frame[c] /\ loop_count'[c] = loop_count[c]
  <1>1. /\ lpf \in [RL -> Age] /\ actions \in [RL -> Action]
        /\ is_first_frame \in [RL -> BOOLEAN] /\ loop_count \in [RL -> 0 .. Decimation - 1]
    BY DEF Base, TypeOK
  <1>2. CASE Observe \/ ClearFirstFrame \/ ComputeActions \/ CountWrite
    BY <1>1, <1>2 DEF Observe, ClearFirstFrame, ComputeActions, CountWrite, LoopIdle
  <1>3. CASE ~ (Observe \/ ClearFirstFrame \/ ComputeActions \/ CountWrite)
    BY <1>3 DEF LoopStep, Check, Snapshot, UpdateKeep, UpdateRead, UpdateWrite, UpdatePolicy, InferenceThrows,
                CountRead, GetJoint, NextController, Publish, rlVars
  <1>4. QED
    BY <1>2, <1>3

(* An iteration leaves the last controller to itself until it is reached,  *)
(* and is with it to the end from then on.                                 *)
LEMMA WithLast ==
  ASSUME Base, Epoch, LoopStep, post, pc \notin LoopIdle
  PROVE  /\ AtLast /\ ~ Publish /\ ~ InferenceThrows => AtLast'
         /\ ~ AtLast => running # Last /\ (AtLast' => NextController)
         /\ names = Chosen /\ tpc = "idle" /\ (AtLast <=> running = Last)
         /\ AtLast => ~ NextController
  <1>1. /\ AtLast <=> running = Last
        /\ k \in 1 .. Len(names) /\ Len(names) \in Nat
        /\ names = Chosen /\ tpc = "idle"
    BY CleanRuns
  <1>2. CASE NextController
    BY <1>1, <1>2 DEF NextController, AtLast
  <1>3. CASE ~ NextController
    <2>1. /\ UNCHANGED <<names, k>>
          /\ ~ Publish /\ ~ InferenceThrows => pc' \notin LoopIdle
      BY <1>3 DEF LoopStep, Check, Snapshot, UpdateKeep, UpdateRead, UpdateWrite, UpdatePolicy, Observe, ClearFirstFrame,
         ComputeActions, InferenceThrows, CountRead, CountWrite, GetJoint, Publish, ToGet, LoopIdle
    <2>2. QED
      BY <1>1, <1>3, <2>1 DEF AtLast
  <1>4. QED
    BY <1>2, <1>3

(* What the first inference of a clean entry goes through. *)
LEMMA PolicyLoopStep ==
  ASSUME Base, Epoch, PolicyEntry, LoopStep PROVE PolicyEntry'
  <1>1. UNCHANGED <<current_state_name, tpc, todo>>
    BY ModeFrame DEF modeVars
  <1>2. Last' = Last /\ (Pending(Last)' <=> Pending(Last))
    BY <1>1 DEF Last, Chosen, Pending
  <1>3. SUFFICES ASSUME clean', Last \in RL, pc' # "stopped", tpc # "swap"
        PROVE  /\ \/ Pending(Last)
                  \/ FreshPolicy'
                  \/ AtLast' /\ pc' \in {"clear", "act"} /\ lpf'[Last] = "new"
                  \/ (AtLast' => pc' \in {"update", "observe"}) /\ is_first_frame'[Last] /\ loop_count'[Last] = 0
               /\ tpc \in {"count", "zero"} /\ Head(todo) = Last =>
                    is_first_frame'[Last] /\ (tpc = "zero" => loop_count'[Last] = 0)
    BY <1>1, <1>2 DEF PolicyEntry
  <1>4. CASE Check \/ Snapshot
    <2>1. /\ pc \in LoopIdle /\ pc # "stopped" /\ clean /\ pc' \in {"sleep", "update"}
          /\ UNCHANGED rlVars /\ ~ AtLast
      BY <1>3, <1>4 DEF Check, Snapshot, history, LoopIdle, AtLast
    <2>2. /\ lpf' = lpf /\ actions' = actions /\ is_first_frame' = is_first_frame
          /\ loop_count' = loop_count
      BY <2>1 DEF rlVars
    <2>3. FreshPolicy' <=> FreshPolicy
      BY <1>2, <2>2 DEF FreshPolicy
    <2>4. AtLast' => pc' = "update"
      BY <2>1 DEF AtLast, LoopIdle
    <2>5. QED
      BY <1>3, <2>1, <2>2, <2>3, <2>4 DEF PolicyEntry
  <1>5. CASE ~ Check /\ ~ Snapshot
    <2>1. clean /\ pc \notin LoopIdle
      BY <1>3, <1>5 DEF LoopStep, UpdateKeep, UpdateRead, UpdateWrite, UpdatePolicy, Observe,
         ClearFirstFrame, ComputeActions, InferenceThrows, CountRead, CountWrite, GetJoint,
         NextController, Publish, AtPublish, history, LoopIdle
    <2>2. post
      BY <2>1 DEF Epoch
    <2>3. /\ AtLast /\ ~ Publish /\ ~ InferenceThrows => AtLast'
          /\ ~ AtLast => running # Last /\ (AtLast' => NextController)
          /\ tpc = "idle" /\ (AtLast <=> running = Last)
          /\ AtLast => ~ NextController
      BY <2>1, <2>2, WithLast
    <2>4. \/ FreshPolicy
          \/ AtLast /\ pc \in {"clear", "act"} /\ lpf[Last] = "new"
          \/ (AtLast => pc \in {"update", "observe"}) /\ is_first_frame[Last] /\ loop_count[Last] = 0
      BY <1>3, <2>1, <2>3 DEF PolicyEntry, Pending, LoopIdle
    <2>5. SUFFICES \/ FreshPolicy'
                   \/ AtLast' /\ pc' \in {"clear", "act"} /\ lpf'[Last] = "new"
                   \/ (AtLast' => pc' \in {"update", "observe"}) /\ is_first_frame'[Last] /\ loop_count'[Last] = 0
      BY <2>3
    <2>6. CASE ~ AtLast
      <3>1. /\ lpf'[Last] = lpf[Last] /\ actions'[Last] = actions[Last]
            /\ is_first_frame'[Last] = is_first_frame[Last] /\ loop_count'[Last] = loop_count[Last]
        BY <1>3, <2>3, <2>6, OwnFields
      <3>2. AtLast' => pc' = "update"
        BY <2>3, <2>6 DEF NextController
      <3>3. QED
        BY <1>2, <2>4, <2>6, <3>1, <3>2 DEF FreshPolicy
    <2>7. CASE AtLast /\ Observe
      <3>1. /\ pc = "observe" /\ actions' = actions
            /\ \/ is_first_frame[Last] /\ lpf' = [lpf EXCEPT ![Last] = "new"] /\ pc' = "clear"
               \/ ~ is_first_frame[Last] /\ lpf' = lpf /\ pc' = "act"
        BY <2>3, <2>7 DEF Observe
      <3>2. lpf \in [RL -> Age] /\ AtLast'
        BY <2>3, <2>7 DEF Base, TypeOK, Observe, Publish, AtPublish, InferenceThrows
      <3>3. lpf'[Last] = "new"
        BY <1>3, <2>4, <2>7, <3>1, <3>2 DEF FreshPolicy
      <3>4. QED
        BY <3>1, <3>2, <3>3
    <2>8. CASE AtLast /\ ClearFirstFrame
      BY <1>2, <2>3, <2>4, <2>8 DEF ClearFirstFrame, FreshPolicy, Publish, AtPublish, InferenceThrows
    <2>9. CASE AtLast /\ ComputeActions
      <3>1. pc = "act" /\ obs = "new" /\ lpf' = lpf /\ actions' = [actions EXCEPT ![Last] = obs]
        BY <2>2, <2>3, <2>9 DEF ComputeActions, Epoch
      <3>2. lpf[Last] = "new" /\ actions'[Last] = "new"
        BY <1>3, <2>4, <2>9, <3>1 DEF FreshPolicy, Base, TypeOK
      <3>3. QED
        BY <1>2, <3>1, <3>2 DEF FreshPolicy
    <2>10. CASE AtLast /\ UpdatePolicy
      <3>1. pc = "update" /\ UNCHANGED rlVars /\ pc' = IF loop_count[Last] = 0 THEN "observe" ELSE "count"
        BY <2>3, <2>10 DEF UpdatePolicy
      <3>2. QED
        BY <1>2, <2>4, <3>1 DEF FreshPolicy, rlVars
    <2>11. CASE AtLast /\ (UpdateKeep \/ UpdateRead \/ UpdateWrite)
      BY <1>3, <2>3, <2>11, ControlAssumption
         DEF UpdateKeep, UpdateRead, UpdateWrite, Base, LoopInv, RL
    <2>12. CASE AtLast /\ (CountRead \/ CountWrite \/ (\E j \in Joint : GetJoint(j)) \/ Publish)
      <3>1. FreshPolicy
        BY <2>4, <2>12 DEF CountRead, CountWrite, GetJoint, Publish, AtPublish
      <3>2. UNCHANGED <<lpf, actions>>
        BY <2>12 DEF CountRead, CountWrite, GetJoint, Publish, rlVars
      <3>3. QED
        BY <1>2, <3>1, <3>2 DEF FreshPolicy
    <2>13. CASE AtLast /\ InferenceThrows
      BY <1>3, <2>13 DEF InferenceThrows
    <2>14. QED
      BY <1>5, <2>3, <2>6, <2>7, <2>8, <2>9, <2>10, <2>11, <2>12, <2>13 DEF LoopStep
  <1>6. QED
    BY <1>4, <1>5

(* Swap puts the last controller among those to restart. *)
LEMMA SwapPends ==
  ASSUME Base, Swap
  PROVE  /\ tpc' = "restart" /\ Pending(Last)' /\ Last' = Last
  <1>1. current_state_name \in Mode /\ Chosen \in Seq(Controller) /\ Chosen # <<>>
    BY StateMachineAssumption DEF Base, TypeOK, Chosen
  <1>2. /\ tpc' = "restart" /\ todo' = Chosen /\ current_state_name' = current_state_name
    BY DEF Swap, Chosen
  <1>3. Len(Chosen) \in DOMAIN todo' /\ todo'[Len(Chosen)] = Last
    BY <1>1, <1>2 DEF Last
  <1>4. Last' = Last
    BY <1>2 DEF Last, Chosen
  <1>5. QED
    BY <1>2, <1>3, <1>4 DEF Pending

(* Every step keeps the policy of a clean entry. *)
LEMMA PolicyStep == Base /\ Epoch /\ PolicyEntry /\ [Next]_vars => PolicyEntry'
  <1> SUFFICES ASSUME Base, Epoch, PolicyEntry, [Next]_vars PROVE PolicyEntry'
    OBVIOUS
  <1>1. ASSUME NEW topic \in Topic, TriggerAccepted(topic) PROVE PolicyEntry'
    BY <1>1 DEF TriggerAccepted, PolicyEntry
  <1>2. CASE LoopStep
    BY <1>2, PolicyLoopStep
  <1>3. CASE Swap
    <2>1. tpc' = "restart" /\ Pending(Last)' /\ Last' = Last
      BY <1>3, SwapPends
    <2>2. QED
      BY <2>1 DEF PolicyEntry
  <1>4. CASE RestartStart \/ RestartFirstFrame \/ RestartCount \/ RestartPercent \/ RestartActions
    <2>1. /\ UNCHANGED <<current_state_name, pc, names, k, clean>> /\ tpc # "idle" /\ tpc # "swap"
          /\ Last' = Last
      BY <1>4 DEF RestartStart, RestartFirstFrame, RestartCount, RestartPercent, RestartActions, loopVars, history,
                  Last, Chosen
    <2>2. /\ lpf \in [RL -> Age] /\ actions \in [RL -> Action]
          /\ is_first_frame \in [RL -> BOOLEAN] /\ loop_count \in [RL -> 0 .. Decimation - 1]
      BY DEF Base, TypeOK
    <2>3. SUFFICES ASSUME clean, Last \in RL, pc # "stopped"
          PROVE  /\ \/ Pending(Last)'
                    \/ FreshPolicy'
                    \/ (AtLast' => pc' \in {"update", "observe"}) /\ is_first_frame'[Last] /\ loop_count'[Last] = 0
                 /\ tpc' \in {"count", "zero"} /\ Head(todo)' = Last =>
                      is_first_frame'[Last] /\ (tpc' = "zero" => loop_count'[Last] = 0)
      BY <2>1 DEF PolicyEntry
    <2>4. pc \in LoopIdle /\ ~ AtLast /\ ~ AtLast'
      BY <2>1, <2>3, CleanRestarts DEF AtLast
    <2>5. /\ \/ Pending(Last)
             \/ FreshPolicy
             \/ is_first_frame[Last] /\ loop_count[Last] = 0
          /\ tpc \in {"count", "zero"} /\ Head(todo) = Last =>
               is_first_frame[Last] /\ (tpc = "zero" => loop_count[Last] = 0)
      BY <2>1, <2>3, <2>4 DEF PolicyEntry
    <2>6. CASE RestartStart
      BY <2>1, <2>3, <2>4, <2>5, <2>6 DEF RestartStart, rlVars, Pending, FreshPolicy
    <2>7. CASE RestartFirstFrame
      <3>1. /\ tpc = "restart" /\ tpc' = "count" /\ UNCHANGED <<todo, loop_count, actions, lpf>>
            /\ is_first_frame' = [is_first_frame EXCEPT ![Head(todo)] = TRUE]
        BY <2>7 DEF RestartFirstFrame
      <3>2. is_first_frame[Last] \/ Head(todo) = Last => is_first_frame'[Last]
        BY <2>2, <2>3, <3>1
      <3>3. Pending(Last)' <=> Pending(Last)
        BY <2>1, <3>1 DEF Pending
      <3>4. FreshPolicy' <=> FreshPolicy
        BY <2>1, <3>1 DEF FreshPolicy
      <3>5. QED
        BY <2>4, <2>5, <3>1, <3>2, <3>3, <3>4
    <2>8. CASE RestartCount
      <3>1. /\ tpc = "count" /\ tpc' = "zero" /\ UNCHANGED <<todo, is_first_frame, actions, lpf>>
            /\ loop_count' = [loop_count EXCEPT ![Head(todo)] = 0]
        BY <2>8 DEF RestartCount
      <3>2. loop_count[Last] = 0 \/ Head(todo) = Last => loop_count'[Last] = 0
        BY <2>2, <2>3, <3>1
      <3>3. Pending(Last)' <=> Pending(Last)
        BY <2>1, <3>1 DEF Pending
      <3>4. FreshPolicy' <=> FreshPolicy
        BY <2>1, <3>1 DEF FreshPolicy
      <3>5. QED
        BY <2>4, <2>5, <3>1, <3>2, <3>3, <3>4
    <2>9. CASE RestartPercent \/ RestartActions
      <3>1. /\ RestartNext /\ tpc \in {"percent", "zero"} /\ tpc' \in {"restart", "idle"}
            /\ UNCHANGED <<is_first_frame, loop_count, lpf>>
        BY <2>9 DEF RestartPercent, RestartActions, RestartNext, rlVars
      <3>2. CASE Head(todo) = Last
        <4>1. tpc = "zero"
          BY <2>3, <3>1, <3>2 DEF Base, RestartInv, RL
        <4>2. QED
          BY <2>4, <2>5, <3>1, <3>2, <4>1
      <3>3. CASE Head(todo) # Last
        <4>1. Pending(Last) => Pending(Last)'
          BY <2>1, <3>1, <3>3, RestartNextPending DEF Pending
        <4>2. actions'[Last] = actions[Last]
          BY <2>2, <2>3, <2>9, <3>3 DEF RestartPercent, RestartActions, rlVars
        <4>3. FreshPolicy => FreshPolicy'
          BY <2>1, <3>1, <4>2 DEF FreshPolicy
        <4>4. QED
          BY <2>4, <2>5, <3>1, <4>1, <4>3
      <3>4. QED
        BY <3>2, <3>3
    <2>10. QED
      BY <1>4, <2>6, <2>7, <2>8, <2>9
  <1>5. CASE Start \/ Shutdown \/ Tick \/ UNCHANGED vars \/ (\E topic \in Topic : TriggerRejected(topic))
    <2>1. /\ UNCHANGED <<current_state_name, tpc, todo, names, k, clean, is_first_frame, loop_count, actions, lpf>>
          /\ pc' = pc \/ (pc = "init" /\ pc' = "check")
      BY <1>5 DEF Start, Shutdown, Tick, vars, TriggerRejected, modeVars, loopVars, rlVars, history
    <2>2. /\ Last' = Last /\ (Pending(Last)' <=> Pending(Last)) /\ (FreshPolicy' <=> FreshPolicy)
          /\ (AtLast' <=> AtLast)
      BY <2>1 DEF Last, Chosen, Pending, FreshPolicy, AtLast, LoopIdle
    <2>3. Head(todo)' = Head(todo)
      BY <2>1
    <2>4. CASE pc' = pc
      BY <2>1, <2>2, <2>3, <2>4 DEF PolicyEntry
    <2>5. CASE pc = "init" /\ pc' = "check"
      BY <2>1, <2>2, <2>3, <2>5 DEF PolicyEntry, AtLast, LoopIdle
    <2>6. QED
      BY <2>1, <2>4, <2>5
  <1>6. QED
    BY <1>1, <1>2, <1>3, <1>4, <1>5 DEF Next, Callback

Entry == Epoch /\ Ramp /\ RampGiven /\ PolicyEntry /\ PolicyGiven

(* Nothing has been asked for at first. *)
LEMMA EntryInit == Init => SettledInv /\ LatchInv /\ Entry
  BY DEF Init, SMInit, SettledInv, LatchInv, Entry, Epoch, Ramp, RampGiven, PolicyEntry, PolicyGiven, LoopIdle

(* A message at the last controller's end is the last controller's. *)
LEMMA Decides ==
  ASSUME Base, Epoch, AtPublish, post
  PROVE  Decider = Last /\ AtLast /\ pc = "get" /\ tpc = "idle" /\ Joint \ jleft = Joint
  BY CleanRuns DEF AtPublish, AtLast, LoopIdle, Decider, running

(* The first message after a callback that no iteration overlapped is a    *)
(* fresh start, the n-th is n steps from it, whatever mode was left        *)
(* (CleanEntry; RestartController and Update of both controllers).         *)
THEOREM CleanEntryHolds == Spec => []CleanEntry
  <1>1. Base /\ Entry => CleanEntry
    <2> SUFFICES ASSUME Base, Entry, AtPublish, clean, post, NEW j \in Joint
                 PROVE  /\ Decider \in PD \ Keep => /\ cmd_msg[j].from = "new"
                                                    /\ cmd_msg[j].at = AtMost(RampSteps, since + 1)
                        /\ Decider \in RL => cmd_msg[j].from = "new" /\ cmd_msg[j].act = "new"
      BY DEF CleanEntry
    <2>1. Decider = Last /\ AtLast /\ pc = "get" /\ tpc = "idle" /\ Joint \ jleft = Joint
      BY Decides DEF Entry
    <2>2. Last \in RL => FreshPolicy
      BY <2>1 DEF Entry, PolicyEntry, Pending
    <2>3. QED
      BY <2>1, <2>2 DEF Entry, RampGiven, PolicyGiven
  <1>2. Base /\ SettledInv /\ LatchInv /\ Entry /\ [Next]_vars => Entry'
    BY EpochStep, RampStep, RampGivenStep, PolicyStep, PolicyGivenStep DEF Entry
  <1>3. QED
    BY <1>1, <1>2, EntryInit, BaseInit, BaseStep, SettledStep, LatchStep, PTL DEF Spec
-----------------------------------------------------------------------------
(* A loop still at the list of the mode before runs another policy, if any. *)
Stale ==
  pc # "stopped" /\ Last \in RL =>
    \/ tpc # "swap" /\ names = Chosen
    \/ \A n \in DOMAIN names : names[n] # Last

(* Between restarting the filters and clearing the flag. *)
Held == pc = "clear" /\ Last \in RL /\ running = Last => lpf[Last] = "new"

(* The filters restart at the next inference, unless they did so since the *)
(* trigger or the flag is still to be raised.                              *)
FlagToCome == tpc = "swap" \/ (Pending(Last) /\ ~ (tpc \in {"count", "zero"} /\ Head(todo) = Last))

Raised ==
  pc # "stopped" /\ Last \in RL => is_first_frame[Last] \/ lpf[Last] = "new" \/ FlagToCome

(* The n-th iteration after a callback finds the policy's turn not yet     *)
(* missed: the counter is 0, or past n.                                    *)
Due(n) == (loop_count[Last] = 0 /\ n < Decimation) \/ loop_count[Last] > n

Turn ==
  post /\ Last \in RL /\ pc # "stopped" =>
    \/ FreshPolicy
    \/ ~ AtLast /\ Due(since)
    \/ AtLast /\ pc = "update" /\ Due(since)
    \/ AtLast /\ pc = "observe"
    \/ AtLast /\ pc \in {"clear", "act"} /\ lpf[Last] = "new"
    \/ AtLast /\ pc \in {"count", "countwr"} /\ loop_count[Last] > since
         /\ (pc = "countwr" => reg = loop_count[Last])
    \/ AtLast /\ pc = "get" /\ Due(since + 1)

Recovery == Stale /\ Held /\ Raised /\ Turn

(* The list of a mode the chosen one is entered from. *)
LEMMA EdgeFresh ==
  ASSUME NEW from, NEW m \in Mode, ModeEdge(from, ControllersOf[m]),
         NEW last, last = ControllersOf[m][Len(ControllersOf[m])], last \notin PD
  PROVE  \A n \in DOMAIN from : from[n] # last
  BY PolicyEntersFresh DEF ModeEdge

(* Every step keeps a policy from running in an iteration left behind. *)
LEMMA StaleStep ==
  Base /\ SettledInv /\ GraphInv /\ Stale /\ [Next]_vars => Stale'
  <1> SUFFICES ASSUME Base, SettledInv, GraphInv, Stale, [Next]_vars,
                      pc' # "stopped", Last' \in RL
               PROVE  \/ tpc' # "swap" /\ names' = Chosen'
                      \/ \A n \in DOMAIN names' : names'[n] # Last'
    BY DEF Stale
  <1>1. ASSUME NEW topic \in Topic, TriggerAccepted(topic)
        PROVE  \A n \in DOMAIN names' : names'[n] # Last'
    <2>1. GraphInv' /\ Base'
      BY GraphStep, BaseStep
    <2>2. tpc' = "swap" /\ current_state_name' \in Mode
      BY <1>1, <2>1 DEF TriggerAccepted, Base, TypeOK
    <2>3. ModeEdge(controllers', Chosen') /\ (names' # <<>> => names' = controllers')
      BY <2>1, <2>2 DEF GraphInv, Live, Chosen, ModeEdge
    <2>4. \A n \in DOMAIN controllers' : controllers'[n] # Last'
      BY <2>2, <2>3, EdgeFresh DEF Chosen, Last, RL
    <2>5. QED
      BY <2>3, <2>4
  <1>2. CASE ~ \E topic \in Topic : TriggerAccepted(topic)
    <2>1. Chosen' = Chosen /\ Last' = Last
      BY <1>2, ChosenFrame DEF Chosen, Last
    <2>2. CASE Snapshot
      <3>1. names' = controllers /\ UNCHANGED tpc
        BY <2>2 DEF Snapshot, modeVars
      <3>2. CASE tpc = "swap"
        <4>1. ModeEdge(controllers, ControllersOf[current_state_name]) /\ current_state_name \in Mode
          BY <3>2 DEF GraphInv, Base, TypeOK
        <4>2. \A n \in DOMAIN controllers : controllers[n] # Last
          BY <2>1, <4>1, EdgeFresh DEF Chosen, Last, RL
        <4>3. QED
          BY <2>1, <3>1, <4>2
      <3>3. CASE tpc # "swap"
        BY <2>1, <3>1, <3>3 DEF SettledInv, Chosen
      <3>4. QED
        BY <3>2, <3>3
    <2>3. CASE ~ Snapshot
      <3>1. names' = names /\ pc # "stopped"
        <4>1. CASE LoopStep \/ Start
          BY <2>3, <4>1 DEF LoopStep, Start, Check, UpdateKeep, UpdateRead, UpdateWrite, UpdatePolicy, Observe,
             ClearFirstFrame, ComputeActions, InferenceThrows, CountRead, CountWrite, GetJoint, NextController,
             Publish, AtPublish
        <4>2. CASE ~ LoopStep /\ ~ Start
          BY <4>2, LoopFrame
        <4>3. QED
          BY <4>1, <4>2
      <3>2. tpc' = "swap" => tpc = "swap"
        BY <1>2 DEF Next, vars, modeVars, TriggerRejected, Callback, Swap, RestartStart, RestartPercent,
           RestartFirstFrame, RestartCount, RestartActions, RestartNext, Start, LoopStep, Check, Snapshot,
           UpdateKeep, UpdateRead, UpdateWrite, UpdatePolicy, Observe, ClearFirstFrame,
           ComputeActions, InferenceThrows, CountRead, CountWrite, GetJoint, NextController,
           Publish, Shutdown, Tick
      <3>3. QED
        BY <2>1, <3>1, <3>2 DEF Stale
    <2>4. QED
      BY <2>2, <2>3
  <1>3. QED
    BY <1>1, <1>2

(* The callback's steps touch the policy's flag only to raise it. *)
LEMMA FilterFrame ==
  ASSUME Base, [Next]_vars, ~ LoopStep, ~ \E topic \in Topic : TriggerAccepted(topic)
  PROVE  lpf' = lpf
  BY DEF Next, vars, rlVars, TriggerRejected, Callback, Swap, RestartStart, RestartPercent,
         RestartFirstFrame, RestartCount, RestartActions, Start, Shutdown, Tick

(* The flag is cleared only after the filters restarted. *)
LEMMA HeldStep ==
  Base /\ SettledInv /\ GraphInv /\ Stale /\ Held /\ [Next]_vars => Held'
  <1> SUFFICES ASSUME Base, SettledInv, GraphInv, Stale, Held, [Next]_vars,
                      pc' = "clear", Last' \in RL, running' = Last'
               PROVE  lpf'[Last'] = "new"
    BY DEF Held
  <1>1. CASE \E topic \in Topic : TriggerAccepted(topic)
    <2>1. Stale' /\ Base'
      BY StaleStep, BaseStep
    <2>2. tpc' = "swap"
      BY <1>1 DEF TriggerAccepted
    <2>3. k' \in DOMAIN names'
      BY <2>1 DEF Base, TypeOK, LoopInv, LoopIdle
    <2>4. QED
      BY <2>1, <2>2, <2>3 DEF Stale, running
  <1>2. CASE ~ \E topic \in Topic : TriggerAccepted(topic)
    <2>1. Last' = Last
      BY <1>2, ChosenFrame DEF Chosen, Last
    <2>2. CASE LoopStep \/ Start
      <3>1. Observe
        BY <2>2 DEF LoopStep, Start, Check, Snapshot, UpdateKeep, UpdateRead, UpdateWrite, UpdatePolicy,
             ClearFirstFrame, ComputeActions, InferenceThrows, CountRead, CountWrite, GetJoint, NextController,
             Publish, ToGet
      <3>2. /\ lpf' = [lpf EXCEPT ![running] = "new"] /\ UNCHANGED <<names, k>>
            /\ lpf \in [RL -> Age]
        BY <3>1 DEF Observe, Base, TypeOK
      <3>3. QED
        BY <2>1, <3>2 DEF running
    <2>3. CASE ~ LoopStep /\ ~ Start
      BY <1>2, <2>1, <2>3, LoopFrame, FilterFrame DEF Held, running
    <2>4. QED
      BY <2>2, <2>3
  <1>3. QED
    BY <1>1, <1>2

(* Every step keeps the flag raised until the filters have restarted. *)
LEMMA RaisedStep ==
  Base /\ Held /\ Raised /\ [Next]_vars => Raised'
  <1> SUFFICES ASSUME Base, Held, Raised, [Next]_vars, pc' # "stopped", Last' \in RL
               PROVE  is_first_frame'[Last'] \/ lpf'[Last'] = "new" \/ FlagToCome'
    BY DEF Raised
  <1>1. CASE \E topic \in Topic : TriggerAccepted(topic)
    BY <1>1 DEF TriggerAccepted, FlagToCome
  <1>2. CASE ~ \E topic \in Topic : TriggerAccepted(topic)
    <2>1. Last' = Last
      BY <1>2, ChosenFrame DEF Chosen, Last
    <2>2. pc # "stopped"
      BY LoopFrame DEF LoopStep, Start, Check, Snapshot, UpdateKeep, UpdateRead, UpdateWrite, UpdatePolicy,
         Observe, ClearFirstFrame, ComputeActions, InferenceThrows, CountRead, CountWrite, GetJoint,
         NextController, Publish, AtPublish
    <2>3. is_first_frame[Last] \/ lpf[Last] = "new" \/ FlagToCome
      BY <2>1, <2>2 DEF Raised
    <2>4. lpf \in [RL -> Age] /\ is_first_frame \in [RL -> BOOLEAN]
      BY DEF Base, TypeOK
    <2>5. CASE LoopStep
      <3>1. FlagToCome => FlagToCome'
        BY <2>1, <2>5, ModeFrame DEF FlagToCome, Pending, modeVars
      <3>2. CASE pc \in LoopIdle \/ running # Last
        <4>1. lpf'[Last] = lpf[Last] /\ is_first_frame'[Last] = is_first_frame[Last]
          BY <2>1, <2>5, <3>2, OwnFields
        <4>2. QED
          BY <2>1, <2>3, <3>1, <4>1
      <3>3. CASE pc \notin LoopIdle /\ running = Last
        <4>1. CASE Observe
          <5>1. lpf'[Last] = "new" \/ (lpf' = lpf /\ is_first_frame' = is_first_frame)
            BY <2>1, <2>4, <3>3, <4>1 DEF Observe
          <5>2. QED
            BY <2>1, <2>3, <3>1, <5>1
        <4>2. CASE ClearFirstFrame
          BY <2>1, <3>3, <4>2 DEF ClearFirstFrame, Held
        <4>3. CASE ~ Observe /\ ~ ClearFirstFrame
          <5>1. UNCHANGED <<lpf, is_first_frame>>
            BY <2>5, <4>3 DEF LoopStep, Check, Snapshot, UpdateKeep, UpdateRead, UpdateWrite, UpdatePolicy,
               ComputeActions, InferenceThrows, CountRead, CountWrite, GetJoint, NextController, Publish, rlVars
          <5>2. QED
            BY <2>1, <2>3, <3>1, <5>1
        <4>4. QED
          BY <4>1, <4>2, <4>3
      <3>4. QED
        BY <3>2, <3>3
    <2>6. CASE Swap
      BY <2>6, SwapPends DEF FlagToCome
    <2>7. CASE RestartFirstFrame
      <3>1. /\ tpc = "restart" /\ tpc' = "count" /\ todo' = todo /\ lpf' = lpf
            /\ is_first_frame' = [is_first_frame EXCEPT ![Head(todo)] = TRUE]
        BY <2>7 DEF RestartFirstFrame
      <3>2. is_first_frame[Last] \/ Head(todo) = Last => is_first_frame'[Last]
        BY <2>1, <2>4, <3>1
      <3>3. Head(todo) # Last /\ FlagToCome => FlagToCome'
        BY <2>1, <3>1 DEF FlagToCome, Pending
      <3>4. QED
        BY <2>1, <2>3, <3>1, <3>2, <3>3
    <2>8. CASE RestartStart \/ RestartCount
      <3>1. /\ tpc \in {"restart", "count"} /\ todo' = todo /\ UNCHANGED <<lpf, is_first_frame>>
            /\ tpc = "restart" => tpc' = "percent"
            /\ tpc = "count" => tpc' = "zero"
        BY <2>8 DEF RestartStart, RestartCount, rlVars
      <3>2. FlagToCome => FlagToCome'
        BY <2>1, <3>1 DEF FlagToCome, Pending
      <3>3. QED
        BY <2>1, <2>3, <3>1, <3>2
    <2>9. CASE RestartPercent \/ RestartActions
      <3>1. /\ RestartNext /\ tpc \in {"percent", "zero"} /\ tpc' \in {"restart", "idle"}
            /\ UNCHANGED <<is_first_frame, lpf>>
        BY <2>9 DEF RestartPercent, RestartActions, RestartNext, rlVars
      <3>2. FlagToCome => FlagToCome'
        <4>1. CASE Head(todo) = Last
          BY <2>1, <3>1, <4>1 DEF Base, RestartInv, RL, FlagToCome
        <4>2. CASE Head(todo) # Last
          BY <2>1, <3>1, <4>2, RestartNextPending DEF FlagToCome, Pending
        <4>3. QED
          BY <4>1, <4>2
      <3>3. QED
        BY <2>1, <2>3, <3>1, <3>2
    <2>10. CASE Start \/ Shutdown \/ Tick \/ UNCHANGED vars \/ (\E topic \in Topic : TriggerRejected(topic))
      <3>1. UNCHANGED <<tpc, todo, is_first_frame, lpf>>
        BY <2>10 DEF Start, Shutdown, Tick, vars, TriggerRejected, modeVars, rlVars
      <3>2. FlagToCome => FlagToCome'
        BY <2>1, <3>1 DEF FlagToCome, Pending
      <3>3. QED
        BY <2>1, <2>3, <3>1, <3>2
    <2>11. QED
      BY <1>2, <2>5, <2>6, <2>7, <2>8, <2>9, <2>10 DEF Next, Callback
  <1>3. QED
    BY <1>1, <1>2

(* The counter the policy's turn is told by, wrapping round. *)
LEMMA CountWraps ==
  ASSUME NEW n \in 0 .. Decimation - 1
  PROVE  (n + 1) % Decimation = IF n = Decimation - 1 THEN 0 ELSE n + 1
  BY ControlAssumption

(* Outside the loop nothing that happens during an iteration after the     *)
(* callback touches the policy.                                            *)
LEMMA TurnFrame ==
  ASSUME Base, Epoch, [Next]_vars, ~ LoopStep, post'
  PROVE  /\ post
         /\ UNCHANGED <<current_state_name, names, k, reg, since, lpf, actions, loop_count>>
         /\ pc' = pc \/ (pc = "init" /\ pc' = "check")
  BY DEF Next, vars, modeVars, loopVars, rlVars, history, Epoch, TriggerAccepted, TriggerRejected, Callback,
         Swap, RestartStart, RestartPercent, RestartFirstFrame, RestartCount, RestartActions, Start, Shutdown, Tick

(* Every step of an iteration keeps the policy's turn from being missed.   *)
LEMMA TurnLoopStep ==
  ASSUME Base, SettledInv, Epoch, Raised, Turn, LoopStep PROVE Turn'
  <1>1. UNCHANGED <<current_state_name, tpc, todo>> /\ Last' = Last
    BY ModeFrame DEF modeVars, Last, Chosen
  <1>2. SUFFICES ASSUME post', Last \in RL, pc' # "stopped"
        PROVE  \/ FreshPolicy'
               \/ ~ AtLast' /\ Due(since)'
               \/ AtLast' /\ pc' = "update" /\ Due(since)'
               \/ AtLast' /\ pc' = "observe"
               \/ AtLast' /\ pc' \in {"clear", "act"} /\ lpf'[Last] = "new"
               \/ AtLast' /\ pc' \in {"count", "countwr"} /\ loop_count'[Last] > since'
                    /\ (pc' = "countwr" => reg' = loop_count'[Last])
               \/ AtLast' /\ pc' = "get" /\ Due(since + 1)'
    BY <1>1 DEF Turn
  <1>3. /\ Decimation \in Nat \ {0} /\ SinceCap \in Nat /\ Decimation < SinceCap
        /\ since \in 0 .. SinceCap /\ loop_count[Last] \in 0 .. Decimation - 1
        /\ lpf \in [RL -> Age] /\ actions \in [RL -> Action] /\ loop_count \in [RL -> 0 .. Decimation - 1]
    BY <1>2, ControlAssumption DEF Base, TypeOK, SinceCap
  <1>4. CASE Check
    <2>1. /\ UNCHANGED <<since, rlVars, post>> /\ pc = "check" /\ pc' = "sleep"
      BY <1>2, <1>4 DEF Check, history
    <2>2. FreshPolicy \/ Due(since)
      BY <1>2, <2>1 DEF Turn, AtLast, LoopIdle
    <2>3. ~ AtLast' /\ (FreshPolicy => FreshPolicy') /\ (Due(since) => Due(since)')
      BY <1>1, <2>1 DEF AtLast, LoopIdle, FreshPolicy, Due, rlVars
    <2>4. QED
      BY <2>2, <2>3
  <1>5. CASE Snapshot
    <2>1. /\ UNCHANGED <<since, rlVars>> /\ pc = "sleep" /\ pc' = "update"
      BY <1>5 DEF Snapshot
    <2>2. FreshPolicy \/ Due(since)
      <3>1. CASE post
        BY <1>2, <2>1, <3>1 DEF Turn, AtLast, LoopIdle
      <3>2. CASE ~ post
        <4>1. since = 0
          BY <3>2 DEF Epoch
        <4>2. QED
          BY <1>3, <4>1 DEF Due
      <3>3. QED
        BY <3>1, <3>2
    <2>3. (FreshPolicy => FreshPolicy') /\ (Due(since) => Due(since)')
      BY <1>1, <2>1 DEF FreshPolicy, Due, rlVars
    <2>4. QED
      BY <2>1, <2>2, <2>3
  <1>6. CASE ~ Check /\ ~ Snapshot
    <2>1. post /\ pc \notin LoopIdle
      BY <1>2, <1>6 DEF LoopStep, UpdateKeep, UpdateRead, UpdateWrite, UpdatePolicy, Observe,
         ClearFirstFrame, ComputeActions, InferenceThrows, CountRead, CountWrite, GetJoint,
         NextController, Publish, AtPublish, history, LoopIdle
    <2>2. /\ AtLast /\ ~ Publish /\ ~ InferenceThrows => AtLast'
          /\ ~ AtLast => running # Last /\ (AtLast' => NextController)
          /\ tpc = "idle" /\ (AtLast <=> running = Last)
          /\ AtLast => ~ NextController
      BY <2>1, WithLast
    <2>3. ~ InferenceThrows
      BY <1>2 DEF InferenceThrows
    <2>4. /\ ~ Publish => since' = since
          /\ Publish => AtLast
      BY <1>6, <2>1 DEF LoopStep, UpdateKeep, UpdateRead, UpdateWrite, UpdatePolicy, Observe,
         ClearFirstFrame, ComputeActions, InferenceThrows, CountRead, CountWrite, GetJoint,
         NextController, Publish, AtPublish, history, AtLast
    <2>5. CASE ~ AtLast
      <3>1. /\ lpf'[Last] = lpf[Last] /\ actions'[Last] = actions[Last] /\ loop_count'[Last] = loop_count[Last]
        BY <1>2, <2>2, <2>5, OwnFields
      <3>2. since' = since /\ (AtLast' => pc' = "update")
        BY <2>2, <2>4, <2>5 DEF NextController
      <3>3. FreshPolicy \/ Due(since)
        BY <1>2, <2>1, <2>5 DEF Turn, LoopIdle
      <3>4. (FreshPolicy => FreshPolicy') /\ (Due(since) => Due(since)')
        BY <1>1, <3>1, <3>2 DEF FreshPolicy, Due
      <3>5. QED
        BY <3>2, <3>3, <3>4
    <2>6. CASE AtLast
      <3>1. /\ running = Last /\ running \notin PD /\ (~ Publish => AtLast')
        BY <1>2, <2>2, <2>3, <2>6 DEF RL
      <3>2. \/ FreshPolicy
            \/ pc = "update" /\ Due(since)
            \/ pc = "observe"
            \/ pc \in {"clear", "act"} /\ lpf[Last] = "new"
            \/ pc \in {"count", "countwr"} /\ loop_count[Last] > since
                    /\ (pc = "countwr" => reg = loop_count[Last])
            \/ pc = "get" /\ Due(since + 1)
        BY <1>2, <2>1, <2>6 DEF Turn, LoopIdle
      <3>3. CASE UpdatePolicy
        <4>1. /\ pc = "update" /\ UNCHANGED <<since, lpf, actions, loop_count>>
              /\ pc' = IF loop_count[Last] = 0 THEN "observe" ELSE "count"
          BY <3>1, <3>3 DEF UpdatePolicy, rlVars, history
        <4>2. AtLast'
          BY <3>1, <3>3 DEF UpdatePolicy, Publish, AtPublish
        <4>3. FreshPolicy => FreshPolicy'
          BY <1>1, <4>1 DEF FreshPolicy
        <4>4. FreshPolicy \/ loop_count[Last] = 0 \/ loop_count[Last] > since
          BY <3>2, <4>1 DEF Due
        <4>5. QED
          BY <4>1, <4>2, <4>3, <4>4
      <3>4. CASE Observe
        <4>1. /\ pc = "observe" /\ pc' \in {"clear", "act"} /\ actions' = actions
              /\ \/ lpf' = [lpf EXCEPT ![Last] = "new"]
                 \/ ~ is_first_frame[Last] /\ lpf' = lpf
          BY <3>1, <3>4 DEF Observe
        <4>2. AtLast'
          BY <3>1, <4>1 DEF Publish, AtPublish
        <4>3. is_first_frame[Last] \/ lpf[Last] = "new"
          BY <1>2, <2>1, <2>2, <4>1 DEF Raised, FlagToCome, Pending
        <4>4. lpf'[Last] = "new"
          BY <1>2, <1>3, <4>1, <4>3
        <4>5. QED
          BY <4>1, <4>2, <4>4
      <3>5. CASE ClearFirstFrame
        <4>1. /\ pc = "clear" /\ pc' = "act" /\ UNCHANGED <<lpf, actions>> /\ AtLast'
          BY <3>1, <3>5 DEF ClearFirstFrame, Publish, AtPublish
        <4>2. lpf'[Last] = "new"
          BY <3>2, <4>1 DEF FreshPolicy
        <4>3. QED
          BY <4>1, <4>2
      <3>6. CASE ComputeActions
        <4>1. /\ pc = "act" /\ obs = "new" /\ lpf' = lpf /\ actions' = [actions EXCEPT ![Last] = obs]
          BY <2>1, <3>1, <3>6 DEF ComputeActions, Epoch
        <4>2. lpf[Last] = "new" /\ actions'[Last] = "new"
          BY <1>2, <1>3, <3>2, <4>1 DEF FreshPolicy
        <4>3. FreshPolicy'
          BY <1>1, <4>1, <4>2 DEF FreshPolicy
        <4>4. QED
          BY <4>3
      <3>7. CASE CountRead
        <4>1. /\ pc = "count" /\ pc' = "countwr" /\ reg' = loop_count[Last]
              /\ UNCHANGED <<since, lpf, actions, loop_count>>
          BY <3>1, <3>7 DEF CountRead, rlVars, history
        <4>2. AtLast'
          BY <3>1, <4>1 DEF Publish, AtPublish
        <4>3. FreshPolicy \/ loop_count[Last] > since
          BY <3>2, <4>1
        <4>4. FreshPolicy => FreshPolicy'
          BY <1>1, <4>1 DEF FreshPolicy
        <4>5. QED
          BY <4>1, <4>2, <4>3, <4>4
      <3>8. CASE CountWrite
        <4>1. /\ pc = "countwr" /\ pc' = "get" /\ UNCHANGED <<since, lpf, actions>>
              /\ loop_count' = [loop_count EXCEPT ![Last] = (reg + 1) % Decimation]
          BY <3>1, <3>8 DEF CountWrite, ToGet, history
        <4>2. AtLast'
          BY <3>1, <4>1 DEF Publish, AtPublish
        <4>3. FreshPolicy => FreshPolicy'
          BY <1>1, <4>1 DEF FreshPolicy
        <4>4. CASE loop_count[Last] > since /\ reg = loop_count[Last]
          <5>1. loop_count'[Last] = (loop_count[Last] + 1) % Decimation
            BY <1>2, <1>3, <4>1, <4>4
          <5>2. loop_count'[Last] = IF loop_count[Last] = Decimation - 1 THEN 0 ELSE loop_count[Last] + 1
            BY <1>3, <5>1, CountWraps
          <5>3. Due(since + 1)'
            BY <1>1, <1>3, <4>1, <4>4, <5>2 DEF Due
          <5>4. QED
            BY <4>1, <4>2, <5>3
        <4>5. QED
          BY <3>2, <4>1, <4>3, <4>4
      <3>9. CASE \E j \in Joint : GetJoint(j)
        <4>1. pc = "get" /\ pc' = "get" /\ UNCHANGED <<since, lpf, actions, loop_count, k, names>>
          BY <3>9 DEF GetJoint, rlVars, history
        <4>2. AtLast'
          BY <2>6, <4>1 DEF AtLast, LoopIdle
        <4>3. (FreshPolicy => FreshPolicy') /\ (Due(since + 1) => Due(since + 1)')
          BY <1>1, <4>1 DEF FreshPolicy, Due
        <4>4. QED
          BY <3>2, <4>1, <4>2, <4>3
      <3>10. CASE Publish
        <4>1. /\ pc = "get" /\ pc' = "check" /\ UNCHANGED <<lpf, actions, loop_count>>
              /\ since' = AtMost(SinceCap, since + 1) /\ ~ AtLast'
          BY <2>1, <3>10 DEF Publish, AtPublish, rlVars, AtLast, LoopIdle
        <4>2. FreshPolicy => FreshPolicy'
          BY <1>1, <4>1 DEF FreshPolicy
        <4>3. Due(since + 1) => Due(since)'
          <5>1. Due(since + 1) => since + 1 < Decimation
            BY <1>3 DEF Due
          <5>2. since + 1 < Decimation => since' = since + 1
            BY <1>3, <4>1 DEF AtMost
          <5>3. QED
            BY <1>1, <4>1, <5>1, <5>2 DEF Due
        <4>4. QED
          BY <3>2, <4>1, <4>2, <4>3
      <3>11. CASE UpdateKeep \/ UpdateRead \/ UpdateWrite
        BY <3>1, <3>11, ControlAssumption
           DEF UpdateKeep, UpdateRead, UpdateWrite, Base, LoopInv
      <3>12. QED
        BY <1>6, <2>2, <2>3, <2>6, <3>3, <3>4, <3>5, <3>6, <3>7, <3>8, <3>9, <3>10, <3>11 DEF LoopStep
    <2>7. QED
      BY <2>5, <2>6
  <1>7. QED
    BY <1>4, <1>5, <1>6

(* Every step keeps the policy's turn from being missed. *)
LEMMA TurnStep ==
  Base /\ SettledInv /\ Epoch /\ Raised /\ Turn /\ [Next]_vars => Turn'
  <1> SUFFICES ASSUME Base, SettledInv, Epoch, Raised, Turn, [Next]_vars, ~ LoopStep,
                      post', Last' \in RL, pc' # "stopped"
               PROVE  Turn'
    BY TurnLoopStep DEF Turn
  <1>1. /\ post
        /\ UNCHANGED <<current_state_name, names, k, reg, since, lpf, actions, loop_count>>
        /\ pc' = pc \/ (pc = "init" /\ pc' = "check")
    BY TurnFrame
  <1>2. /\ Last' = Last /\ (FreshPolicy' <=> FreshPolicy) /\ (AtLast' <=> AtLast)
        /\ (Due(since)' <=> Due(since)) /\ (Due(since + 1)' <=> Due(since + 1))
    BY <1>1 DEF Last, Chosen, FreshPolicy, AtLast, LoopIdle, Due
  <1>3. CASE pc' = pc
    BY <1>1, <1>2, <1>3 DEF Turn
  <1>4. CASE pc = "init" /\ pc' = "check"
    BY <1>1, <1>2, <1>4 DEF Turn, AtLast, LoopIdle
  <1>5. QED
    BY <1>1, <1>3, <1>4

(* At first the filters wait for the first frame. *)
LEMMA RecoveryInit == Init => GraphInv /\ Recovery
  <1> SUFFICES ASSUME Init PROVE GraphInv /\ Recovery
    OBVIOUS
  <1>1. GraphInv /\ Held /\ Turn
    BY DEF Init, GraphInv, Live, Held, Turn
  <1>2. Stale
    BY DEF Init, SMInit, Stale
  <1>3. Raised
    BY DEF Init, Raised
  <1>4. QED
    BY <1>1, <1>2, <1>3 DEF Recovery

(* Even when an iteration overlapped the callback, the policy has          *)
(* restarted by the Decimation-th message after it                         *)
(* (RecoversWithinDecimation; RLController::Update and RestartController). *)
THEOREM RecoversWithinDecimationHolds == Spec => []RecoversWithinDecimation
  <1>1. Base /\ Entry /\ Recovery => RecoversWithinDecimation
    <2> SUFFICES ASSUME Base, Entry, Recovery, AtPublish, post, since + 1 >= Decimation,
                        Decider \in RL, NEW j \in Joint
                 PROVE  cmd_msg[j].from = "new" /\ cmd_msg[j].act = "new"
      BY DEF RecoversWithinDecimation
    <2>1. Decider = Last /\ AtLast /\ pc = "get" /\ Joint \ jleft = Joint
      BY Decides DEF Entry
    <2>2. Last \in RL
      BY <2>1
    <2>3. FreshPolicy \/ Due(since + 1)
      BY <2>1, <2>2 DEF Recovery, Turn
    <2>4. ~ Due(since + 1)
      <3>1. since \in Nat /\ Decimation \in Nat /\ loop_count[Last] \in 0 .. Decimation - 1
        BY <2>2, ControlAssumption DEF Base, TypeOK, SinceCap
      <3>2. QED
        BY <3>1 DEF Due
    <2>5. QED
      BY <2>1, <2>2, <2>3, <2>4 DEF Entry, PolicyGiven
  <1>2. Base /\ SettledInv /\ GraphInv /\ Entry /\ Recovery /\ [Next]_vars => Recovery'
    BY StaleStep, HeldStep, RaisedStep, TurnStep DEF Recovery, Entry
  <1>3. Base /\ SettledInv /\ LatchInv /\ Entry /\ [Next]_vars => Entry'
    BY EpochStep, RampStep, RampGivenStep, PolicyStep, PolicyGivenStep DEF Entry
  <1>4. QED
    BY <1>1, <1>2, <1>3, EntryInit, RecoveryInit, BaseInit, BaseStep, SettledStep, LatchStep, GraphStep, PTL DEF Spec
=============================================================================
