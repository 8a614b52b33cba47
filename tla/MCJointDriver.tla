--------------------------- MODULE MCJointDriver ---------------------------
(***************************************************************************)
(* JointDriver with two motors, visited in different orders, every pair of  *)
(* entries for a device with two buses, right or wrong, other devices,     *)
(* and the units of the values they are sent.                              *)
(***************************************************************************)
EXTENDS JointDriver

MCPeriodic == {<<"mit", n>> : n \in 0 .. MaxCmd}
MCOneShot == {<<"enable", 0>>, <<"stop", 0>>}
MCNone == <<"zeroed", 0>>
MCForward == <<"hip", "knee">>
MCBackward == <<"knee", "hip">>

\* A name that is not in actuator_list, ids below, within and above 1 .. MaxId,
\* and two buses on two interfaces, on one, or with one of them unused.
MCMotors == [name : {"hip", "knee", "spare"}, bus : 1 .. 2, id : {0, 1, 4, 5}]
MCInterfaces == {<<"can0", "can1">>, <<"can0", "can0">>, <<"can0", "">>}
MCDevice(interfaces, entries) ==
  [name |-> "legs", enable |-> TRUE, interfaces |-> interfaces, motors |-> entries]

\* All pairs of motors; two devices; and a device that is not enabled.
MCPair == <<[name |-> "hip", bus |-> 1, id |-> 1], [name |-> "knee", bus |-> 1, id |-> 4]>>
MCLegs == MCDevice(<<"can0", "can1">>, MCPair)
MCNetworks ==
  {<<MCDevice(interfaces, <<m, n>>)>> :
     <<interfaces, m, n>> \in MCInterfaces \X MCMotors \X MCMotors}
  \cup {<<MCLegs, MCLegs>>, <<[MCLegs EXCEPT !.enable = FALSE], MCLegs>>,
        <<[MCLegs EXCEPT !.enable = FALSE]>>,
        <<MCDevice(<<"can0", "can1">>, <<MCPair[1]>>),
          [MCDevice(<<"can2", "can3">>, <<MCPair[2]>>) EXCEPT !.name = "ankles"]>>}

MCBindings == {<<[joint |-> "hip_joint", actuator |-> "hip"], [joint |-> "knee_joint", actuator |-> "knee"]>>,
               <<[joint |-> "hip_joint", actuator |-> "hip"], [joint |-> "ankle_joint", actuator |-> "knee"]>>}

MCLimits == {4, 7}   \* neither doubled divides Steps
MCCommands == -8 .. 8
=============================================================================
