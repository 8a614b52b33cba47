----------------------------- MODULE ModeSwitch -----------------------------
(***************************************************************************)
(* What the mode machine promises the robot: requests walk the graph of    *)
(* the configuration file, and while the control loop runs a request is    *)
(* taken only after the loop has applied the one before it, so that what   *)
(* the robot runs walks the same graph, skipping nothing.                  *)
(***************************************************************************)
CONSTANTS
  First,   \* the controllers of the first mode
  Edges    \* pairs of the controllers of two consecutive modes

VARIABLES
  chosen,    \* the controllers asked for
  applied,   \* the controllers the loop runs, <<>> before the first
  phase      \* of the control loop: "before", "on", "ended"

vars == <<chosen, applied, phase>>

Init == chosen = First /\ applied = <<>> /\ phase = "before"

Request ==
  /\ phase = "on" => applied \in {<<>>, chosen}
  /\ <<chosen, chosen'>> \in Edges
  /\ UNCHANGED <<applied, phase>>

Apply ==
  /\ phase = "on"
  /\ applied' = chosen
  /\ UNCHANGED <<chosen, phase>>

Begin == phase = "before" /\ phase' = "on" /\ UNCHANGED <<chosen, applied>>
End   == phase = "on" /\ phase' = "ended" /\ UNCHANGED <<chosen, applied>>

Next == Request \/ Apply \/ Begin \/ End

Spec == Init /\ [][Next]_vars
=============================================================================
