---------------------------- MODULE MCJointFeed ----------------------------
(***************************************************************************)
(* JointFeed with two joints, which driver and control module list in      *)
(* different orders, a standing mode and a walking mode.                   *)
(***************************************************************************)
EXTENDS JointFeed

MCDriverOrder == <<"hip", "knee">>
MCControlOrder == <<"knee", "hip">>
MCControllers == <<"pd", "rl">>
MCMaxFeedback == [j \in {"hip", "knee"} |-> IF j = "knee" THEN 2 ELSE 0]
MCModes == <<{"pd"}, {"rl"}>>
=============================================================================
