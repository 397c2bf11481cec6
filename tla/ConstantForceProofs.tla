------------------------ MODULE ConstantForceProofs ------------------------
(***************************************************************************)
(* The safety of the constant force, for any set of magnitudes: the        *)
(* bridge's memory is the force on the wheel, no packet moves the wheel    *)
(* further than the limiter allows, nor past its target, and nineteen      *)
(* packets of one magnitude take it there.                                 *)
(***************************************************************************)
EXTENDS ConstantForce, ForceLevelProofs

LEMMA LevelOfType == LevelOf \in [Magnitudes -> Level]
<1>1. Magnitudes \subseteq Int
  BY MagnitudesAssumption DEF Int16
<1>2. \A m \in Magnitudes : map_constant_magnitude_to_level(m) \in Level
  BY <1>1, LevelInRange, Zenon
<1> QED  BY <1>2 DEF LevelOf

LEMMA DesiredType == TypeOK => Target \in Level /\ Desired \in Level
<1> SUFFICES ASSUME TypeOK PROVE Target \in Level /\ Desired \in Level
  OBVIOUS
<1>1. Target \in Level
  BY LevelOfType DEF TypeOK, Target
<1> QED  BY <1>1, LimiterBounds DEF TypeOK, Desired

(* The inductive invariant: the types, and the memory's agreement with the *)
(* wheel, without which a suppressed command could hide a difference.      *)
Inv == TypeOK /\ WheelMatchesMemory

LEMMA InitInv == Init => Inv
<1> SUFFICES ASSUME Init PROVE Inv
  OBVIOUS
<1>1. 0 \in Level /\ 0 \in 0..PacketBound
  BY PacketBoundAssumption DEF Level, MaxLevel
<1>2. TypeOK
  BY <1>1 DEF Init, TypeOK
<1>3. WheelMatchesMemory
  BY DEF Init, WheelMatchesMemory
<1> QED  BY <1>2, <1>3 DEF Inv

LEMMA NextInv == Inv /\ [Next]_vars => Inv'
<1> SUFFICES ASSUME Inv, [Next]_vars PROVE Inv'
  OBVIOUS
<1> USE DEF Inv
<1>1. CASE Packet
  <2>1. Desired \in Level
    BY DesiredType
  <2>2. TypeOK'
    BY <1>1, <2>1, PacketBoundAssumption DEF TypeOK, Packet, Smaller
  <2>3. wheel' = Desired
    BY <1>1, <2>1 DEF Packet, LevelChanged, WheelMatchesMemory, TypeOK
  <2> QED  BY <1>1, <2>2, <2>3 DEF Packet, WheelMatchesMemory
<1>2. ASSUME NEW m \in Magnitudes, Retarget(m) PROVE Inv'
  BY <1>2, PacketBoundAssumption DEF TypeOK, WheelMatchesMemory, Retarget, cache
<1>3. CASE UNCHANGED vars
  BY <1>3 DEF TypeOK, WheelMatchesMemory, vars, cache
<1> QED  BY <1>1, <1>2, <1>3 DEF Next

LEMMA InvAlways == Spec => []Inv
BY InitInv, NextInv, PTL DEF Spec

(* Type correctness of the bridge's constant-force memory and of the wheel.*)
THEOREM TypeCorrect == Spec => []TypeOK
<1>1. Inv => TypeOK
  BY DEF Inv
<1> QED  BY <1>1, InvAlways, PTL

(* The memory of apply_wheel_state_locked is the force on the wheel.       *)
THEOREM MemoryCorrect == Spec => []WheelMatchesMemory
<1>1. Inv => WheelMatchesMemory
  BY DEF Inv
<1> QED  BY <1>1, InvAlways, PTL

(* What a step does to a wheel under force is one pass of the limiter.     *)
LEMMA StepOfWheel ==
  ASSUME Inv, [Next]_vars, wheel' # wheel
  PROVE  /\ wheel' = apply_constant_slew_limiter(Target, have_last_constant_level, wheel)
         /\ have_last_constant_level <=> wheel # 0
         /\ wheel \in Level /\ Target \in Level /\ have_last_constant_level \in BOOLEAN
<1>1. Packet
  BY DEF Next, Retarget, vars
<1>2. wheel' = Desired
  BY <1>1 DEF Packet
<1> QED  BY <1>2, DesiredType DEF Inv, TypeOK, WheelMatchesMemory, Desired

(* No packet moves a wheel under force by more than the limiter's step.    *)
THEOREM StepLimited == Spec => LimitedStep
<1>1. Inv /\ [Next]_vars =>
        [ wheel # 0 /\ wheel' # wheel =>
            AbsVal(wheel' - wheel) <=
              (IF Target * wheel < 0 THEN kMaxStepSignFlip ELSE kMaxStepSameDirection)
                + (IF wheel' = 0 THEN 1 ELSE 0) ]_vars
  <2> SUFFICES ASSUME Inv, [Next]_vars, wheel # 0, wheel' # wheel
               PROVE  AbsVal(wheel' - wheel) <=
                        (IF Target * wheel < 0 THEN kMaxStepSignFlip ELSE kMaxStepSameDirection)
                          + (IF wheel' = 0 THEN 1 ELSE 0)
    OBVIOUS
  <2>1. wheel \in Level /\ Target \in Level
    BY StepOfWheel
  <2>2. AbsVal(wheel' - wheel) <= MaxStep(Target, wheel) + (IF wheel' = 0 THEN 1 ELSE 0)
    BY StepOfWheel, LimiterBounds
  <2>3. Opposed(Target, wheel) <=> Target * wheel < 0
    BY <2>1 DEF Opposed, Level, MaxLevel
  <2> QED  BY <2>2, <2>3 DEF MaxStep
<1> QED  BY <1>1, InvAlways, PTL DEF Spec, LimitedStep

(* No packet moves the wheel past its target.                              *)
THEOREM NeverOvershoots == Spec => NoOvershoot
<1>1. Inv /\ [Next]_vars =>
        [ wheel' # wheel =>
            \/ wheel' = 0
            \/ Smaller(wheel, Target) <= wheel' /\ wheel' <= Larger(wheel, Target) ]_vars
  <2> SUFFICES ASSUME Inv, [Next]_vars, wheel' # wheel
               PROVE  \/ wheel' = 0
                      \/ Smaller(wheel, Target) <= wheel' /\ wheel' <= Larger(wheel, Target)
    OBVIOUS
  <2> QED
    BY StepOfWheel, LimiterStaysBetween
<1> QED  BY <1>1, InvAlways, PTL DEF Spec, NoOvershoot

-----------------------------------------------------------------------------
(* A held force is reached.  What is missing to the target never exceeds   *)
(* what is left of the nineteen packets.                                   *)
Left == IF repeats >= PacketsToTarget THEN 0 ELSE PacketsToTarget - repeats

ReachInv == Within(Target, wheel, Left)

LEMMA TargetLevels ==
  ASSUME TypeOK
  PROVE  Target \in Level /\ (Target = 0 \/ AbsVal(Target) >= 8)
<1>1. held \in Magnitudes /\ held \in Int
  BY MagnitudesAssumption DEF TypeOK, Int16
<1>2. Target = map_constant_magnitude_to_level(held)
  BY <1>1 DEF Target, LevelOf
<1> QED
  BY <1>1, <1>2, DesiredType, LevelNotOne

LEMMA LeftType == TypeOK => Left \in Nat /\ Left <= 19
BY PacketBoundAssumption DEF TypeOK, Left, PacketsToTarget

(* A packet takes one off what is missing, and off what is left at most.   *)
LEMMA PacketReaches ==
  ASSUME Inv, ReachInv, Packet
  PROVE  ReachInv'
<1> DEFINE n == IF Left = 0 THEN 0 ELSE Left - 1
<1>1. /\ Target \in Level /\ (Target = 0 \/ AbsVal(Target) >= 8) /\ wheel \in Level
      /\ Left \in Nat /\ Left <= 19 /\ Within(Target, wheel, Left)
  BY TargetLevels, LeftType DEF Inv, TypeOK, ReachInv
<1>2. wheel' = apply_constant_slew_limiter(Target, wheel # 0, wheel)
  <2>1. have_last_constant_level = (wheel # 0) /\ wheel = last_constant_level
    BY DEF Inv, TypeOK, WheelMatchesMemory
  <2>2. Desired = apply_constant_slew_limiter(Target, wheel # 0, wheel)
    BY <2>1 DEF Desired
  <2>3. wheel' = Desired
    BY DesiredType DEF Inv, TypeOK, WheelMatchesMemory, Packet, LevelChanged
  <2> QED
    BY <2>2, <2>3
<1>3. Target' = Target
  BY DEF Packet, Target
<1>4. Within(Target', wheel', n)
  BY <1>1, <1>2, <1>3, PacketApproaches
<1>5. wheel' \in Level /\ Left' \in Nat /\ Left' \in {n, n + 1}
  BY NextInv, LeftType, PacketBoundAssumption
  DEF Inv, TypeOK, Next, Packet, Left, PacketsToTarget, Smaller
<1>6. n \in Nat
  BY <1>1
<1> HIDE DEF n
<1>7. Within(Target', wheel', n + 1)
  BY <1>1, <1>3, <1>4, <1>5, <1>6, NineteenAtMost
<1> QED
  BY <1>4, <1>5, <1>7 DEF ReachInv

(* Another magnitude gives nineteen packets again; the same one, nothing.  *)
LEMMA RetargetReaches ==
  ASSUME Inv, ReachInv, NEW magnitude \in Magnitudes, Retarget(magnitude)
  PROVE  ReachInv'
<1>1. CASE magnitude = held
  BY <1>1 DEF Retarget, ReachInv, Target, Left
<1>2. CASE magnitude # held
  <2>1. Left' = 19
    BY <1>2 DEF Retarget, Left, PacketsToTarget
  <2>2. Inv'
    BY NextInv DEF Next
  <2>3. Target' \in Level /\ wheel' \in Level
    <3>1. held' \in Magnitudes /\ wheel' \in Level
      BY <2>2 DEF Inv, TypeOK
    <3> QED
      BY <3>1, LevelOfType DEF Target
  <2> QED
    BY <2>1, <2>3, NineteenAtMost DEF ReachInv
<1> QED
  BY <1>1, <1>2

(* Nineteen packets of one magnitude bring the wheel to its level, from    *)
(* any level and for any magnitude, and further ones keep it there.        *)
THEOREM HeldReached == Spec => []HeldForceReached
<1>1. Init => ReachInv
  <2> SUFFICES ASSUME Init PROVE ReachInv
    OBVIOUS
  <2>1. TypeOK /\ Left = 19
    BY InitInv DEF Inv, Init, Left, PacketsToTarget
  <2> QED
    BY <2>1, TargetLevels, NineteenAtMost DEF TypeOK, ReachInv
<1>2. Inv /\ ReachInv /\ [Next]_vars => ReachInv'
  <2> SUFFICES ASSUME Inv, ReachInv, [Next]_vars PROVE ReachInv'
    OBVIOUS
  <2>1. CASE UNCHANGED vars
    BY <2>1 DEF vars, cache, ReachInv, Target, Left
  <2> QED
    BY <2>1, PacketReaches, RetargetReaches DEF Next
<1>3. Inv /\ ReachInv => HeldForceReached
  BY TargetLevels, NineteenAtMost DEF Inv, TypeOK, ReachInv, Left, HeldForceReached
<1> QED
  BY <1>1, <1>2, <1>3, InvAlways, PTL DEF Spec
=============================================================================
