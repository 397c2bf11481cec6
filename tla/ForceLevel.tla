----------------------------- MODULE ForceLevel -----------------------------
(***************************************************************************)
(* What the bridge turns a DirectInput constant-force magnitude into: a    *)
(* signed level of the wheel, -127..127 around the neutral byte 128, by a  *)
(* response curve and a slew limiter (bridge_server.cpp, the anonymous     *)
(* namespace).  Pure operators, no state.                                  *)
(***************************************************************************)
EXTENDS Integers, FiniteSets

Int16    == -32768..32767     \* a magnitude, as the payload carries it
MaxLevel == 127
Level == -MaxLevel..MaxLevel

kNominalForceMax   == 10000
kInputDeadzone     == 2
kMaxStepSameDirection == 24
kMaxStepSignFlip   == 10
kMicroFlipGate     == 8

AbsVal(n) == IF n < 0 THEN -n ELSE n
Smaller(a, b) == IF a < b THEN a ELSE b
Larger(a, b)  == IF a > b THEN a ELSE b
Clamp(low, high, n) == Larger(low, Smaller(high, n))

-----------------------------------------------------------------------------
(* The response curve.  The code computes both branches in floating point  *)
(* and rounds; a branch is given here by the magnitudes at which its       *)
(* rounded value steps up, so its value is the number of steps passed.     *)

(* lround(90 * ((m - 2) / 62)^0.6): the magnitude of step n, 1 <= n <= 90. *)
LowCurveStep ==
  <<  3,  3,  3,  3,  3,  3,  3,  3,  4,  4,  4,  5,  5,  5,  5,  6,  6,  7,
      7,  7,  8,  8,  9,  9, 10, 10, 11, 11, 12, 12, 13, 13, 14, 14, 15, 16,
     16, 17, 18, 18, 19, 20, 20, 21, 22, 22, 23, 24, 25, 25, 26, 27, 28, 29,
     29, 30, 31, 32, 33, 34, 34, 35, 36, 37, 38, 39, 40, 41, 42, 43, 44, 45,
     46, 47, 48, 49, 50, 51, 52, 53, 54, 55, 56, 57, 58, 59, 61, 62, 63, 64 >>

LowCurve(magnitude) == Cardinality({n \in 1..90 : LowCurveStep[n] <= magnitude})

(* lround(254 * sqrt(m / 10000)): n is reached when n - 1/2 <= 254 * ...,  *)
(* squared and brought to integers.                                        *)
HighCurve(magnitude) ==
  Cardinality({n \in 1..254 : 625 * ((2 * n - 1) * (2 * n - 1))
                                <= 16129 * Smaller(magnitude, kNominalForceMax)})

(* Mutant: the curve is not cut at the largest level.                      *)
UncutLevel(signed_magnitude) ==
  LET level == HighCurve(AbsVal(signed_magnitude))
  IN  IF signed_magnitude < 0 THEN -level ELSE level

map_constant_magnitude_to_level(signed_magnitude) ==
  LET magnitude == AbsVal(signed_magnitude)
      level     == Clamp(0, MaxLevel, Larger(LowCurve(magnitude), HighCurve(magnitude)))
  IN  IF magnitude <= kInputDeadzone THEN 0
      ELSE IF signed_magnitude < 0 THEN -level ELSE level

-----------------------------------------------------------------------------
(* The limiter: how far one packet may move the level the wheel holds.     *)

Opposed(a, b) == (a > 0 /\ b < 0) \/ (a < 0 /\ b > 0)

IsMicroFlip(target, last) ==
  Opposed(target, last) /\ AbsVal(target) <= kMicroFlipGate /\ AbsVal(last) <= kMicroFlipGate

(* Mutant: a reversal is limited like any other change.                    *)
MaxStepIgnoresFlip(target, last) == kMaxStepSameDirection

MaxStep(target, last) ==
  IF Opposed(target, last) THEN kMaxStepSignFlip ELSE kMaxStepSameDirection

(* Mutant: as wide as the reversal gate, it swallows small forces.         *)
SettleTooWide(level) == IF AbsVal(level) <= kMicroFlipGate THEN 0 ELSE level

(* A level of one unit is dropped: it would only make the wheel hum.       *)
Settle(level) == IF AbsVal(level) <= 1 THEN 0 ELSE level

(* Mutant: always a full step towards the target.                          *)
FullStepTowards(target, have_last_level, last) ==
  IF ~have_last_level \/ target = last THEN target
  ELSE Settle(IF target > last THEN last + MaxStep(target, last) ELSE last - MaxStep(target, last))

apply_constant_slew_limiter(target, have_last_level, last) ==
  IF ~have_last_level THEN target
  ELSE IF IsMicroFlip(target, last) THEN 0
  ELSE Settle(Clamp(last - MaxStep(target, last), last + MaxStep(target, last), target))
=============================================================================
