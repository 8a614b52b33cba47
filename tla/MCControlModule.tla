-------------------------- MODULE MCControlModule --------------------------
(***************************************************************************)
(* ControlModule with the mode graph of rl_mybipedal.yaml (all of it, or   *)
(* zero, stand and walk only), and its properties.                         *)
(***************************************************************************)
EXTENDS ControlModule

MCStatesOf == [t \in Topic |-> <<t>>]    \* one mode per topic, named alike

MCPreStates ==
  [m \in Mode |-> CASE m = "idle"  -> {"zero", "stand"} \cap Mode
                    [] m = "zero"  -> {"idle", "stand"} \cap Mode
                    [] m = "stand" -> {"zero", "walk"}
                    [] m = "walk"  -> {"stand"}]

MCControllersOf ==
  [m \in Mode |-> CASE m = "idle"  -> <<"pd_idle">>
                    [] m = "zero"  -> <<"pd_zero">>
                    [] m = "stand" -> <<"pd_zero", "pd_stand">>
                    [] m = "walk"  -> <<"pd_zero", "pd_stand", "rl_walk">>]

MCJointsOf == [n \in Controller |-> Joint]

=============================================================================
