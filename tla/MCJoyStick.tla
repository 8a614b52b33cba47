----------------------------- MODULE MCJoyStick -----------------------------
(* JoyStick with the mode graph of rl_mybipedal.yaml for stand and walk. *)
EXTENDS JoyStick

MCStatesOf == [t \in Topic |-> <<t>>]
MCPreStates == [m \in Mode |-> Mode \ {m}]
MCControllersOf == [m \in Mode |-> IF m = "stand" THEN <<"pd_zero", "pd_stand">>
                                              ELSE <<"pd_zero", "pd_stand", "rl_walk">>]
MCFloatPubs == <<"stand", "walk">>
MCButtonOf == [t \in Topic |-> t]
MCRaw == {-4, 0}
MCHat == {{}, {"left", "up"}, {"up"}}
=============================================================================
