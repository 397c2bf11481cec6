-------------------------- MODULE MCConstantForce --------------------------
(* Magnitudes on both branches of the curve, at its deadzone, below and    *)
(* above the reversal gate, at saturation and at the ends of int16.        *)
EXTENDS ConstantForce

MCMagnitudes == {-32768, -10000, -40, -10, -5, -4, -3, 0, 2, 3, 4, 6, 12, 64, 1300, 10000}
=============================================================================
