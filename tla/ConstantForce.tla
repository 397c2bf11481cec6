--------------------------- MODULE ConstantForce ---------------------------
(***************************************************************************)
(* The constant force of one game session, alone: the client holds a       *)
(* magnitude and sends it packet after packet, the bridge turns each       *)
(* packet into a level through the slew limiter and remembers the level it *)
(* wrote (the constant-force part of apply_wheel_state_locked).  The whole *)
(* server is in BridgeServer; this module covers the full range of levels. *)
(***************************************************************************)
EXTENDS ForceLevel

CONSTANTS
  Magnitudes,   \* the magnitudes a payload may carry
  PacketBound   \* bound of the ghost counter repeats

ASSUME MagnitudesAssumption == Magnitudes # {} /\ Magnitudes \subseteq Int16
ASSUME PacketBoundAssumption == PacketBound \in Nat

VARIABLES
  held,                         \* the magnitude of the payload the client keeps sending
  last_constant_force_active,   \* bridge: a non-zero level is on the wheel
  have_last_constant_level,     \* bridge: last_constant_level is meaningful
  last_constant_level,          \* bridge: the level last written
  wheel,                        \* the level the wheel physically applies
  repeats                       \* ghost: packets since the magnitude last changed

cache == <<last_constant_force_active, have_last_constant_level, last_constant_level>>
vars  == <<held, cache, wheel, repeats>>

TypeOK ==
  /\ held \in Magnitudes
  /\ last_constant_force_active \in BOOLEAN
  /\ have_last_constant_level \in BOOLEAN
  /\ last_constant_level \in Level
  /\ wheel \in Level
  /\ repeats \in 0..PacketBound

Init ==
  /\ held \in Magnitudes
  /\ last_constant_force_active = FALSE
  /\ have_last_constant_level = FALSE
  /\ last_constant_level = 0
  /\ wheel = 0
  /\ repeats = 0

(* The curve, tabulated over the magnitudes a payload may carry.           *)
LevelOf == [magnitude \in Magnitudes |-> map_constant_magnitude_to_level(magnitude)]

Target  == LevelOf[held]
Desired == apply_constant_slew_limiter(Target, have_last_constant_level, last_constant_level)

(* Mutant: a force that ends needs no command.                             *)
LevelChangedNotToZero == Desired # 0 /\ Desired # last_constant_level

(* constant_level_changed: the only case in which a command is sent.       *)
LevelChanged ==
  IF Desired # 0 THEN ~have_last_constant_level \/ Desired # last_constant_level
  ELSE last_constant_force_active

(* One packet carrying the held magnitude, every command accepted.         *)
Packet ==
  /\ wheel' = IF LevelChanged THEN Desired ELSE wheel
  /\ last_constant_force_active' = (Desired # 0)
  /\ have_last_constant_level' = (Desired # 0)
  /\ last_constant_level' = Desired
  /\ repeats' = Smaller(PacketBound, repeats + 1)
  /\ UNCHANGED held

(* The game changes the force.                                             *)
Retarget(magnitude) ==
  /\ held' = magnitude
  /\ repeats' = IF magnitude = held THEN repeats ELSE 0
  /\ UNCHANGED <<cache, wheel>>

Next == Packet \/ \E magnitude \in Magnitudes : Retarget(magnitude)

Spec == Init /\ [][Next]_vars

-----------------------------------------------------------------------------
(* The bridge's memory of the constant force is the force on the wheel:    *)
(* LevelChanged suppresses a command only when the wheel needs none.       *)
WheelMatchesMemory ==
  /\ wheel = last_constant_level
  /\ (last_constant_force_active <=> wheel # 0)
  /\ (have_last_constant_level <=> wheel # 0)

(* A wheel under force is moved by no packet further than the limiter's    *)
(* step, and towards a force of the other sign by no more than its smaller *)
(* step; settling to zero may add one unit.  (A wheel at rest has no such  *)
(* bound: the code jumps from zero to any level at once.)                  *)
LimitedStep ==
  [][ wheel # 0 /\ wheel' # wheel =>
        AbsVal(wheel' - wheel) <=
          (IF Target * wheel < 0 THEN kMaxStepSignFlip ELSE kMaxStepSameDirection)
            + (IF wheel' = 0 THEN 1 ELSE 0) ]_vars

(* A step never overshoots: the level the wheel gets is between the level  *)
(* it had and the level asked for, or zero.                                *)
NoOvershoot ==
  [][ wheel' # wheel =>
        \/ wheel' = 0
        \/ Smaller(wheel, Target) <= wheel' /\ wheel' <= Larger(wheel, Target) ]_vars

(* Nineteen packets of one magnitude bring the wheel to its level from     *)
(* anywhere, and further ones keep it there: the limiter, its reversal     *)
(* gate and its settling to zero neither stall it short of the target nor  *)
(* make it oscillate.                                                      *)
PacketsToTarget == 19
HeldForceReached == repeats >= PacketsToTarget => wheel = Target
=============================================================================
