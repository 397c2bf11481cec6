-------------------------- MODULE ForceLevelProofs --------------------------
(***************************************************************************)
(* Facts about the response curve and the slew limiter, for every          *)
(* magnitude and every pair of levels.                                     *)
(***************************************************************************)
EXTENDS ForceLevel, FiniteSetTheorems, TLAPS

LEMMA StepsAreFinite == IsFiniteSet(1..90) /\ IsFiniteSet(1..254)
<1>1. 1 \in Int /\ 90 \in Int /\ 254 \in Int
  OBVIOUS
<1> QED  BY <1>1, FS_Interval, Zenon

(* Either branch of the curve is a natural number ...                      *)
LEMMA CurvesAreNat ==
  ASSUME NEW m \in Int
  PROVE  LowCurve(m) \in Nat /\ HighCurve(m) \in Nat
<1>1. IsFiniteSet(1..90) /\ IsFiniteSet(1..254)
  BY StepsAreFinite
<1>2. IsFiniteSet({n \in 1..90 : LowCurveStep[n] <= m})
  BY <1>1, FS_Subset
<1>3. IsFiniteSet({n \in 1..254 : 625 * ((2 * n - 1) * (2 * n - 1))
                                    <= 16129 * Smaller(m, kNominalForceMax)})
  BY <1>1, FS_Subset
<1> QED  BY <1>2, <1>3, FS_CardinalityType DEF LowCurve, HighCurve

(* ... that grows with the magnitude.                                      *)
LEMMA LowStepsAreInt == \A n \in 1..90 : LowCurveStep[n] \in Int
BY DEF LowCurveStep

LEMMA CurvesGrow ==
  ASSUME NEW a \in Int, NEW b \in Int, a <= b
  PROVE  LowCurve(a) <= LowCurve(b) /\ HighCurve(a) <= HighCurve(b)
<1> DEFINE low(m)  == {n \in 1..90 : LowCurveStep[n] <= m}
           high(m) == {n \in 1..254 : 625 * ((2 * n - 1) * (2 * n - 1))
                                        <= 16129 * Smaller(m, kNominalForceMax)}
<1>1. IsFiniteSet(low(b)) /\ IsFiniteSet(high(b))
  BY StepsAreFinite, FS_Subset
<1>2. low(a) \subseteq low(b)
  BY LowStepsAreInt
<1>3. high(a) \subseteq high(b)
  <2>1. 16129 * Smaller(a, kNominalForceMax) <= 16129 * Smaller(b, kNominalForceMax)
    BY DEF Smaller, kNominalForceMax
  <2>2. 16129 * Smaller(a, kNominalForceMax) \in Int /\ 16129 * Smaller(b, kNominalForceMax) \in Int
    BY DEF Smaller, kNominalForceMax
  <2>3. \A square \in Int : square <= 16129 * Smaller(a, kNominalForceMax)
                           => square <= 16129 * Smaller(b, kNominalForceMax)
    BY <2>1, <2>2
  <2>4. \A n \in 1..254 : 625 * ((2 * n - 1) * (2 * n - 1)) \in Int
    OBVIOUS
  <2> QED  BY <2>3, <2>4
<1>4. Cardinality(low(a)) <= Cardinality(low(b)) /\ Cardinality(high(a)) <= Cardinality(high(b))
  BY <1>1, <1>2, <1>3, FS_Subset
<1> QED  BY <1>4 DEF LowCurve, HighCurve

-----------------------------------------------------------------------------
(* The curve maps every magnitude to a level the wheel's byte can carry    *)
(* (map_constant_magnitude_to_level: the sum with 128 never leaves 0..255).*)
THEOREM LevelInRange ==
  \A m \in Int : map_constant_magnitude_to_level(m) \in Level
<1> TAKE m \in Int
<1>1. AbsVal(m) \in Int
  BY DEF AbsVal
<1>2. LowCurve(AbsVal(m)) \in Nat /\ HighCurve(AbsVal(m)) \in Nat
  BY <1>1, CurvesAreNat
<1> QED
  BY <1>1, <1>2
  DEF map_constant_magnitude_to_level, Level, MaxLevel, Clamp, Larger, Smaller, kInputDeadzone

(* A larger magnitude of the same sign never gives a smaller level, and    *)
(* opposite magnitudes give opposite levels: the handover between the two  *)
(* branches of the curve has no dip.                                       *)
THEOREM LevelMonotone ==
  \A a, b \in Nat : a <= b =>
    /\ map_constant_magnitude_to_level(a) <= map_constant_magnitude_to_level(b)
    /\ map_constant_magnitude_to_level(-a) = - map_constant_magnitude_to_level(a)
<1> SUFFICES ASSUME NEW a \in Nat, NEW b \in Nat, a <= b
             PROVE  /\ map_constant_magnitude_to_level(a) <= map_constant_magnitude_to_level(b)
                    /\ map_constant_magnitude_to_level(-a) = - map_constant_magnitude_to_level(a)
  OBVIOUS
<1>1. AbsVal(a) = a /\ AbsVal(b) = b /\ AbsVal(-a) = a
  BY DEF AbsVal
<1>2. /\ LowCurve(a) \in Nat /\ HighCurve(a) \in Nat
      /\ LowCurve(b) \in Nat /\ HighCurve(b) \in Nat
  BY CurvesAreNat
<1>3. LowCurve(a) <= LowCurve(b) /\ HighCurve(a) <= HighCurve(b)
  BY CurvesGrow
<1> QED
  BY <1>1, <1>2, <1>3
  DEF map_constant_magnitude_to_level, MaxLevel, Clamp, Larger, Smaller, kInputDeadzone

(* The curve starts at eight: a magnitude beyond the dead zone passes the  *)
(* first eight steps of the lower branch at once, so no level is a single  *)
(* unit, which the limiter would settle to zero and never reach.           *)
THEOREM LevelNotOne ==
  ASSUME NEW m \in Int
  PROVE  map_constant_magnitude_to_level(m) = 0 \/ AbsVal(map_constant_magnitude_to_level(m)) >= 8
<1> DEFINE a == AbsVal(m)
           passed == {n \in 1..90 : LowCurveStep[n] <= a}
<1>1. a \in Int
  BY DEF AbsVal
<1>2. CASE a <= kInputDeadzone
  BY <1>2 DEF map_constant_magnitude_to_level
<1>3. CASE ~(a <= kInputDeadzone)
  <2>1. \A n \in 1..8 : LowCurveStep[n] = 3
    BY DEF LowCurveStep
  <2>2. 1..8 \subseteq passed
    BY <1>1, <1>3, <2>1 DEF kInputDeadzone
  <2>3. IsFiniteSet(passed)
    BY StepsAreFinite, FS_Subset
  <2>4. Cardinality(1..8) = 8
    <3>1. 1 \in Int /\ 8 \in Int
      OBVIOUS
    <3>2. Cardinality(1..8) = IF 1 > 8 THEN 0 ELSE 8 - 1 + 1
      BY <3>1, FS_Interval, Zenon
    <3> QED
      BY <3>2
  <2>5. Cardinality(1..8) <= Cardinality(passed)
    BY <2>2, <2>3, FS_Subset
  <2>6. LowCurve(a) \in Nat /\ LowCurve(a) >= 8 /\ HighCurve(a) \in Nat
    BY <1>1, <2>4, <2>5, CurvesAreNat DEF LowCurve
  <2> HIDE DEF a, passed
  <2> QED
    BY <1>3, <2>6
    DEF a, map_constant_magnitude_to_level, AbsVal, MaxLevel, Clamp, Larger, Smaller
<1> QED
  BY <1>2, <1>3

-----------------------------------------------------------------------------
(* The limiter keeps to the range of levels, and what it lets through from *)
(* a wheel under force is at most one step (and one unit of settling) away.*)
THEOREM LimiterBounds ==
  ASSUME NEW target \in Level, NEW last \in Level, NEW have \in BOOLEAN
  PROVE  LET new == apply_constant_slew_limiter(target, have, last)
         IN  /\ new \in Level
             /\ have => AbsVal(new - last) <= MaxStep(target, last) + (IF new = 0 THEN 1 ELSE 0)
BY DEF apply_constant_slew_limiter, IsMicroFlip, Opposed, MaxStep, Settle, Clamp, Larger, Smaller,
       AbsVal, Level, MaxLevel, kMaxStepSameDirection, kMaxStepSignFlip, kMicroFlipGate

(* It never passes the target.                                             *)
THEOREM LimiterStaysBetween ==
  ASSUME NEW target \in Level, NEW last \in Level, NEW have \in BOOLEAN
  PROVE  LET new == apply_constant_slew_limiter(target, have, last)
         IN  \/ new = 0
             \/ Smaller(last, target) <= new /\ new <= Larger(last, target)
BY DEF apply_constant_slew_limiter, IsMicroFlip, Opposed, MaxStep, Settle, Clamp, Larger, Smaller,
       AbsVal, Level, MaxLevel, kMaxStepSameDirection, kMaxStepSignFlip, kMicroFlipGate

(* Progress: repeated, a packet brings a wheel under force strictly closer *)
(* to any target (no target is a single unit: the curve starts at 8), so a *)
(* held force is reached; and the target, once reached, is kept.           *)
THEOREM LimiterApproaches ==
  ASSUME NEW target \in Level, AbsVal(target) # 1, NEW last \in Level, last # 0
  PROVE  LET new == apply_constant_slew_limiter(target, TRUE, last)
         IN  IF last = target THEN new = target
             ELSE AbsVal(target - new) < AbsVal(target - last)
BY DEF apply_constant_slew_limiter, IsMicroFlip, Opposed, MaxStep, Settle, Clamp, Larger, Smaller,
       AbsVal, Level, MaxLevel, kMaxStepSameDirection, kMaxStepSignFlip, kMicroFlipGate

(* At most n packets are missing: a level of the target's sign is within n *)
(* steps of it; one of the other sign needs its smaller steps down to zero *)
(* first, and six more cross the rest of the range; from rest it is one.   *)
Within(target, level, n) ==
  IF level = 0 THEN target = 0 \/ n >= 1
  ELSE IF Opposed(target, level) THEN AbsVal(level) <= kMaxStepSignFlip * (n - 6)
  ELSE AbsVal(target - level) <= kMaxStepSameDirection * n

(* Each packet takes one off, whatever settles to zero on the way.         *)
LEMMA PacketApproaches ==
  ASSUME NEW target \in Level, target = 0 \/ AbsVal(target) >= 8,
         NEW level \in Level, NEW n \in Nat, Within(target, level, n)
  PROVE  Within(target, apply_constant_slew_limiter(target, level # 0, level), IF n = 0 THEN 0 ELSE n - 1)
BY DEF Within, apply_constant_slew_limiter, IsMicroFlip, Opposed, MaxStep, Settle, Clamp, Larger, Smaller,
       AbsVal, Level, MaxLevel, kMaxStepSameDirection, kMaxStepSignFlip, kMicroFlipGate

(* The worst case, from one end of the range to the other, is nineteen.    *)
LEMMA NineteenAtMost ==
  ASSUME NEW target \in Level, NEW level \in Level
  PROVE  /\ Within(target, level, 19)
         /\ Within(target, level, 0) => level = target
         /\ \A n \in Nat : Within(target, level, n) => Within(target, level, n + 1)
BY DEF Within, Opposed, AbsVal, Level, MaxLevel, kMaxStepSameDirection, kMaxStepSignFlip
=============================================================================
