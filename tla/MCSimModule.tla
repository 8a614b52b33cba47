---------------------------- MODULE MCSimModule -----------------------------
(* Two joints that model and controller list in different orders, and one  *)
(* that the controller does not know.                                      *)
EXTENDS SimModule

MCModelJoints == <<"hip", "knee", "toe">>
MCCmdJoints == <<"knee", "hip">>
=============================================================================
