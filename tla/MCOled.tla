------------------------------- MODULE MCOled -------------------------------
(* The display for TLC, with a clamped screen and the unclamped one. *)
EXTENDS Oled
MCMenu == <<"JointState", "Joystick">>
=============================================================================
