-------------------------- MODULE MCEffectRuntime --------------------------
(* The effects of a game.  Four of them and a table for three, so that     *)
(* effects are released from every place of a table with others on both    *)
(* sides, and one more is created than there is room for; two where the    *)
(* clock runs, one where its parameters are the subject.  The parameters   *)
(* are chosen so that every field changes, forces of both signs saturate,  *)
(* and effects end, wait for a delay and repeat within the ticks that are  *)
(* followed.                                                               *)
EXTENDS EffectRuntime

CONSTANTS e1, e2, e3, e4

FourEffects == {e1, e2, e3, e4}
AnyOfFour   == Permutations(FourEffects)

TwoEffects == {e1, e2}
AnyOfTwo   == Permutations(TwoEffects)

Push(v) == [magnitude |-> v]
Side(k, sat, dead) == [positive |-> k, negative |-> -k, positive_sat |-> sat, negative_sat |-> sat, dead_band |-> dead]

(* Calls: every call of a game for forces of one strength, of which two    *)
(* saturate.                                                               *)
CallKinds   == {"constant"}
CallOffers  == [k \in CallKinds |-> {[typed |-> Push(7000)]}]
AllCommands == {"reset", "stop_all", "pause", "continue", "actuators_on", "actuators_off"}

(* Time: a force that ends, one that waits, a wave that repeats.           *)
TimeKinds  == {"constant", "square"}
TimeOffers ==
  [k \in TimeKinds |->
     IF k = "constant" THEN {[typed |-> Push(7000), duration |-> 1, delay |-> 1]}
     ELSE {[duration |-> 2]}]
TimeCommands == {"pause", "continue", "stop_all"}

(* Shapes: every kind with its envelope, direction and gain.               *)
Envelope == [attack_level |-> 0, attack_time |-> 2, fade_level |-> 50, fade_time |-> 2]
ShapeTyped(k) ==
  CASE k = "constant" -> {Push(9000), Push(-12000)}
    [] k = "ramp"     -> {[start |-> -10000, end |-> 8000]}
    [] k \in Conditions -> {<<Side(300, 20000, 11000), Side(-10000, 700, 5)>>}
    [] OTHER          -> {[magnitude |-> 6000, offset |-> 5000, phase |-> 9000, period |-> 4]}
ShapeOffers ==
  [k \in AllKinds |->
     {[typed |-> t] : t \in ShapeTyped(k)}
       \cup {[gain |-> 7000, direction |-> [system |-> "cartesian", value |-> -5000]],
             [duration |-> 4, envelope |-> Envelope, direction |-> [system |-> "polar", value |-> 18000]]}]
NoCommands == {}
=============================================================================
