--------------------------- MODULE MCBridgeServer ---------------------------
(* Small instances of BridgeServer: few wheel states, chosen to switch each *)
(* effect on and off, alone and together, and to move the constant force   *)
(* through the slew limiter and its reversal gate.                         *)
EXTENDS BridgeServer

CONSTANTS off, soft, calibration, d1, d2, c1, c2, srv

MCParams == {off, soft, calibration}

P(spring, damper, autocenter, constant, magnitude) ==
  [ autocenter_enabled     |-> autocenter, autocenter |-> IF autocenter THEN soft ELSE off,
    custom_spring_enabled  |-> spring, spring |-> IF spring THEN soft ELSE off,
    damper_enabled         |-> damper, damper |-> IF damper THEN soft ELSE off,
    constant_force_enabled |-> constant, constant_force_magnitude |-> magnitude ]

(* Magnitudes 3 and 20 are levels 8 and 43, two steps of the limiter apart.*)
EffectPayloads ==
  { P(TRUE, FALSE, FALSE, TRUE, 20), P(FALSE, TRUE, FALSE, TRUE, -3),
    P(FALSE, FALSE, TRUE, FALSE, 0), P(FALSE, FALSE, FALSE, FALSE, 0) }

TwoPayloads == { P(TRUE, FALSE, FALSE, TRUE, 3), P(FALSE, TRUE, TRUE, FALSE, 0) }
ThreePayloads == TwoPayloads \cup { ZeroPayload }

AnyFailure  == {{}, Commands, {"stop_forces"}, {"set_constant_force"}, {"set_damper", "set_led_pattern"}}
DeadOrAlive == {{}, Commands}
=============================================================================
