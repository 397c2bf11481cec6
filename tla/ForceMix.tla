------------------------------ MODULE ForceMix ------------------------------
(***************************************************************************)
(* What one effect of a game contributes to a wheel state at a time, how a *)
(* contribution joins the others, and the state that comes of all: the     *)
(* arithmetic, compute_force and apply of the EffectProxy and the mixing   *)
(* part of rebuild_and_send in dinput8_proxy.cpp.                          *)
(*                                                                         *)
(* Forces and gains are in DirectInput's units, -10000..10000.  Times are  *)
(* multiples of one unit.  The three factors that the code computes in     *)
(* floating point (wave, envelope, direction) are hundredths here, and     *)
(* their product with a force is cut to an integer as the code cuts it.    *)
(***************************************************************************)
EXTENDS Integers, SequencesExt

Nominal  == 10000     \* DI_FFNOMINALMAX
Whole    == 100
INFINITE == -1        \* of durations and iterations, the largest DWORD

Clamp(v, low, high) == IF v < low THEN low ELSE IF v > high THEN high ELSE v
Larger(a, b)        == IF a > b THEN a ELSE b
Absolute(v)         == IF v < 0 THEN -v ELSE v

(* Integer division as C++ does it: towards zero.                          *)
Quotient(a, b) == IF a < 0 THEN -((-a) \div b) ELSE a \div b

(* Mutant: the factor is not reduced to the range of a nibble.             *)
ScaleOffByOne(v, top) == (Clamp(v, 0, Nominal) * (top + 1)) \div Nominal

ScaleTo(v, top) == (Clamp(v, 0, Nominal) * top) \div Nominal

scale_byte(v)   == ScaleTo(v, 255)
scale_nibble(v) == ScaleTo(v, 15)

apply_unsigned_gain(v, gain) == (v * Clamp(gain, 0, Nominal)) \div Nominal
apply_signed_gain(v, gain) ==
  Clamp(Quotient(v * Clamp(gain, 0, Nominal), Nominal), -Nominal, Nominal)

(* Mutant: the gain of the device is left out.                             *)
OwnGainOnly(v, own, device) == apply_signed_gain(v, own)

CombinedGain(v, own, device) == apply_signed_gain(apply_signed_gain(v, own), device)

CombinedGainUnsigned(v, own, device) == apply_unsigned_gain(apply_unsigned_gain(v, own), device)

-----------------------------------------------------------------------------
(* Kinds and parameters.  A condition has a coefficient and a saturation   *)
(* for each side and a dead band; an effect has two, one per side.         *)

Conditions  == {"spring", "damper", "friction", "inertia"}
TimeVarying == {"ramp", "sine", "square", "triangle", "sawtooth_up", "sawtooth_down"}
AllKinds    == {"constant"} \cup TimeVarying \cup Conditions

(* An effect without an envelope is one with a flat envelope.              *)
Flat == [attack_level |-> Whole, attack_time |-> 0, fade_level |-> Whole, fade_time |-> 0]

Resting  == [positive |-> 0, negative |-> 0, positive_sat |-> 0, negative_sat |-> 0, dead_band |-> 0]

(* What the constructor of EffectProxy gives the type-specific parameters; *)
(* a period is 100 ms unless the game says otherwise.                      *)
InitialTyped(kind, period) ==
  CASE kind = "constant"      -> [magnitude |-> 0]
    [] kind = "ramp"          -> [start |-> 0, end |-> 0]
    [] kind \in Conditions    -> <<Resting, Resting>>
    [] OTHER                  -> [magnitude |-> Nominal, offset |-> 0, phase |-> 0, period |-> period]

(* The parameters that a game can have given an effect: every number that  *)
(* its DIEFFECT has room for, the levels of an envelope cut to the nominal *)
(* range and a period of zero replaced.                                    *)
ProperEnvelope(v) ==
  /\ v.attack_level \in 0..Whole /\ v.fade_level \in 0..Whole
  /\ v.attack_time \in Nat /\ v.fade_time \in Nat

ProperTyped(kind, t) ==
  /\ kind = "constant" => t.magnitude \in Int
  /\ kind = "ramp" => t.start \in Int /\ t.end \in Int
  /\ kind \in TimeVarying \ {"ramp"} =>
       t.magnitude \in Nat /\ t.offset \in Int /\ t.phase \in Nat /\ t.period \in Nat \ {0}
  /\ kind \in Conditions =>
       \A side \in {1, 2} :
         /\ t[side].positive \in Int /\ t[side].negative \in Int /\ t[side].dead_band \in Int
         /\ t[side].positive_sat \in Nat /\ t[side].negative_sat \in Nat

-----------------------------------------------------------------------------
(* Time.  e is an effect: kind, started, iterations, since (when it was    *)
(* started) and its parameters.                                            *)

Ends(e) == e.params.duration \notin {INFINITE, 0} /\ e.iterations # INFINITE
TotalDuration(e) == IF Ends(e) THEN e.params.duration * e.iterations ELSE 0

(* Mutant: an effect is felt whether or not the game has started it.       *)
ActiveUnlessExpired(e, now) ==
  /\ now <= e.since => e.params.delay = 0
  /\ now > e.since => /\ now - e.since >= e.params.delay
                      /\ Ends(e) => now - e.since - e.params.delay < TotalDuration(e)

is_temporally_active(e, now) ==
  /\ e.started
  /\ now <= e.since => e.params.delay = 0
  /\ now > e.since => /\ now - e.since >= e.params.delay
                      /\ Ends(e) => now - e.since - e.params.delay < TotalDuration(e)

(* Mutant: the delay counts as part of the duration.                       *)
ExpiredDelayCounts(e, now) ==
  e.started /\ Ends(e) /\ now > e.since /\ now - e.since >= TotalDuration(e)

has_expired(e, now) ==
  e.started /\ Ends(e) /\ now > e.since /\ now - e.since - e.params.delay >= TotalDuration(e)

ActiveElapsed(e, now) ==
  Larger((IF now > e.since THEN now - e.since ELSE 0) - e.params.delay, 0)

-----------------------------------------------------------------------------
(* The force of an effect.                                                 *)

envelope_multiplier(e, elapsed) ==
  LET v     == e.params.envelope
      total == TotalDuration(e)
      fade  == Larger(total - v.fade_time, 0)
  IN  IF elapsed < v.attack_time
      THEN v.attack_level + Quotient((Whole - v.attack_level) * elapsed, v.attack_time)
      ELSE IF v.fade_time > 0 /\ elapsed \in fade..(total - 1)
      THEN Whole + Quotient((v.fade_level - Whole) * (elapsed - fade), v.fade_time)
      ELSE Whole

(* The cosine is tabulated at quarter turns only.  A cartesian 0, which    *)
(* is no component along the axis, counts as full.                         *)
direction_multiplier(d) ==
  IF d.system = "cartesian"
  THEN IF d.value = 0 THEN Whole ELSE Clamp(Quotient(d.value, Nominal \div Whole), -Whole, Whole)
  ELSE CASE d.value % 36000 = 0     -> Whole
         [] d.value % 36000 = 18000 -> -Whole
         [] OTHER                   -> 0

(* position is in hundredths of a period; the sine is known at quarters.   *)
periodic_wave_sample(kind, position) ==
  CASE kind = "square"        -> IF position < 50 THEN Whole ELSE -Whole
    [] kind = "triangle"      -> Whole - 4 * Absolute(position - 50)
    [] kind = "sawtooth_up"   -> 2 * position - Whole
    [] kind = "sawtooth_down" -> Whole - 2 * position
    [] OTHER                  -> IF position % 50 = 0 THEN 0 ELSE IF position < 50 THEN Whole ELSE -Whole

RawForce(e, elapsed) ==
  LET t == e.params.typed
      d == e.params.duration
  IN  CASE e.kind = "constant" -> t.magnitude
        [] e.kind = "ramp"     -> IF d \in {0, INFINITE} THEN t.end
                                  ELSE t.start + Quotient((t.end - t.start) * (elapsed % d), d)
        [] OTHER               -> LET position == (((elapsed % t.period) * Whole) \div t.period
                                                     + t.phase \div 360) % Whole
                                  IN  t.offset + Quotient(t.magnitude * periodic_wave_sample(e.kind, position), Whole)

(* The strongest force that the parameters of an effect ask for.           *)
Strength(e) ==
  LET t == e.params.typed
  IN  CASE e.kind = "constant" -> Absolute(t.magnitude)
        [] e.kind = "ramp"     -> Larger(Absolute(t.start), Absolute(t.end))
        [] OTHER               -> t.magnitude + Absolute(t.offset)

compute_force(e, now, device_gain) ==
  LET elapsed == ActiveElapsed(e, now)
      shaped  == Quotient(RawForce(e, elapsed) * envelope_multiplier(e, elapsed)
                            * direction_multiplier(e.params.direction), Whole * Whole)
  IN  CombinedGain(Clamp(shaped, -Nominal, Nominal), e.params.gain, device_gain)

-----------------------------------------------------------------------------
(* Wheel states (WheelStatePayload) and what their fields can hold: flags, *)
(* nibbles, bytes, and a force within the nominal range.  Of several       *)
(* springs or dampers the strongest setting of each field counts; forces   *)
(* add up and saturate.                                                    *)

Flag   == 0..1
Nibble == 0..15
Byte   == 0..255

Autocenters == [on : Flag, force : Byte, slope : Nibble]
Springs     == [on : Flag, k1 : Nibble, k2 : Nibble, sat1 : Nibble, sat2 : Nibble,
                left : Nibble, right : Nibble, clip : Byte]
Dampers     == [on : Flag, positive : Byte, negative : Byte, positive_sat : Byte, negative_sat : Byte]
Constants   == [on : Flag, magnitude : -Nominal..Nominal]
WheelStates == [autocenter : Autocenters, spring : Springs, damper : Dampers, constant : Constants]

Silent ==
  [autocenter |-> [on |-> 0, force |-> 0, slope |-> 0],
   spring     |-> [on |-> 0, k1 |-> 0, k2 |-> 0, sat1 |-> 0, sat2 |-> 0, left |-> 0, right |-> 0, clip |-> 0],
   damper     |-> [on |-> 0, positive |-> 0, negative |-> 0, positive_sat |-> 0, negative_sat |-> 0],
   constant   |-> [on |-> 0, magnitude |-> 0]]

has_state(p) == \E part \in DOMAIN p : p[part].on = 1

Strongest(a, b) == [f \in DOMAIN a |-> Larger(a[f], b[f])]

SpringOf(e, device_gain) ==
  LET c     == e.params.typed
      k(v)  == CombinedGain(Absolute(v), e.params.gain, device_gain)
      sat1  == CombinedGainUnsigned(c[1].positive_sat, e.params.gain, device_gain)
      sat2  == CombinedGainUnsigned(c[2].negative_sat, e.params.gain, device_gain)
  IN  [on |-> 1, k1 |-> scale_nibble(k(c[1].positive)), k2 |-> scale_nibble(k(c[2].negative)),
       sat1 |-> scale_nibble(sat1), sat2 |-> scale_nibble(sat2),
       left |-> scale_nibble(c[1].dead_band), right |-> scale_nibble(c[2].dead_band),
       clip |-> scale_byte(Larger(sat1, sat2))]

DamperOf(e, device_gain) ==
  LET c      == e.params.typed
      k(v)   == scale_byte(CombinedGain(Absolute(v), e.params.gain, device_gain))
      sat(v) == scale_byte(CombinedGainUnsigned(v, e.params.gain, device_gain))
  IN  [on |-> 1, positive |-> k(c[1].positive), negative |-> k(c[2].negative),
       positive_sat |-> sat(c[1].positive_sat), negative_sat |-> sat(c[2].negative_sat)]

AddForce(c, force) ==
  IF force = 0 THEN c ELSE [on |-> 1, magnitude |-> Clamp(c.magnitude + force, -Nominal, Nominal)]

apply(p, e, device_gain, now) ==
  IF ~is_temporally_active(e, now) THEN p
  ELSE IF e.kind = "spring" THEN [p EXCEPT !.spring = Strongest(@, SpringOf(e, device_gain))]
  ELSE IF e.kind \in Conditions THEN [p EXCEPT !.damper = Strongest(@, DamperOf(e, device_gain))]
  ELSE [p EXCEPT !.constant = AddForce(@, compute_force(e, now, device_gain))]

(* The autocenter spring stands in for a game that has set no spring.      *)
Autocenter(device_gain) ==
  [on |-> 1, force |-> scale_byte(apply_unsigned_gain(device_gain, 3200)), slope |-> 4]

(* The wheel state of the effects es at a time.                            *)
Applied(es, gain, time) == FoldLeft(LAMBDA p, e : apply(p, e, gain, time), Silent, es)

Mix(es, gain, center, muted, time) ==
  LET effects == Applied(es, gain, time)
      all     == IF center /\ effects.spring.on = 0
                 THEN [effects EXCEPT !.autocenter = Autocenter(gain)] ELSE effects
  IN  IF muted \/ ~has_state(all) THEN Silent ELSE all
=============================================================================
