--------------------------- MODULE ForceMixProofs ---------------------------
(***************************************************************************)
(* The arithmetic of ForceMix for every value: what one effect adds to a   *)
(* wheel state fits the wire, and gains, envelope and direction only ever  *)
(* weaken it; and what holds of one contribution to any state holds of the *)
(* mix of a table of effects of any length.                                *)
(***************************************************************************)
EXTENDS ForceMix, FiniteSetTheorems, TLAPS

-----------------------------------------------------------------------------
(* Multiplication and division.                                            *)

(* A product with a part of the whole is no more than with the whole.      *)
LEMMA PartOfProduct ==
  ASSUME NEW a \in Nat, NEW b \in Nat, NEW whole \in Nat, b <= whole
  PROVE  a * b \in Nat /\ a * b <= a * whole
BY SMT

(* Cutting a product with a part of the whole to an integer.               *)
LEMMA PartOf ==
  ASSUME NEW a \in Nat, NEW b \in 0..Nominal
  PROVE  /\ (a * b) \div Nominal \in Nat
         /\ (a * b) \div Nominal <= a
         /\ ((a * b) \div Nominal) * Nominal <= a * b
<1> DEFINE k == a * b
<1>1. k \in Nat /\ k <= a * Nominal
  BY PartOfProduct DEF Nominal
<1> HIDE DEF k
<1>2. k \div Nominal \in Nat /\ k \div Nominal <= a /\ (k \div Nominal) * Nominal <= k
  BY <1>1 DEF Nominal
<1> QED
  BY <1>2 DEF k

(* Division towards zero keeps the absolute value's bound and the sign.    *)
LEMMA QuotientBound ==
  ASSUME NEW a \in Int, NEW b \in Nat \ {0}, NEW bound \in Nat, Absolute(a) <= bound * b
  PROVE  Quotient(a, b) \in Int /\ Absolute(Quotient(a, b)) <= bound
<1>1. Absolute(a) \in Nat /\ Absolute(a) \div b \in Nat
  BY DEF Absolute
<1>2. (Absolute(a) \div b) * b <= Absolute(a)
  BY <1>1
<1>3. Absolute(a) \div b <= bound
  <2> DEFINE q == Absolute(a) \div b
  <2>1. q \in Nat /\ q * b <= bound * b
    BY <1>1, <1>2
  <2> HIDE DEF q
  <2>2. ASSUME q > bound
        PROVE  FALSE
    <3>1. q >= bound + 1
      BY <2>1, <2>2
    <3>2. (bound + 1) * b <= q * b
      BY <2>1, <3>1
    <3>3. (bound + 1) * b = bound * b + b
      OBVIOUS
    <3> QED
      BY <2>1, <3>2, <3>3
  <2> QED
    BY <2>1, <2>2 DEF q
<1> QED
  BY <1>1, <1>3 DEF Quotient, Absolute

-----------------------------------------------------------------------------
(* Scales and gains.                                                       *)

(* A scaled value fits its byte or nibble, whatever the value.             *)
THEOREM ScalesFit ==
  ASSUME NEW v \in Int
  PROVE  scale_byte(v) \in 0..255 /\ scale_nibble(v) \in 0..15
BY DEF scale_byte, scale_nibble, ScaleTo, Clamp, Nominal

(* A stronger value is never scaled to a weaker one.                       *)
THEOREM ScalesKeepOrder ==
  ASSUME NEW v \in Int, NEW w \in Int, v <= w
  PROVE  scale_byte(v) <= scale_byte(w) /\ scale_nibble(v) <= scale_nibble(w)
BY DEF scale_byte, scale_nibble, ScaleTo, Clamp, Nominal

LEMMA ClampedGain ==
  ASSUME NEW gain \in Int
  PROVE  Clamp(gain, 0, Nominal) \in Nat /\ Clamp(gain, 0, Nominal) <= Nominal
BY DEF Clamp, Nominal

LEMMA AbsoluteValue ==
  ASSUME NEW v \in Int
  PROVE  Absolute(v) \in Nat /\ (v >= 0 => Absolute(v) = v) /\ (v < 0 => Absolute(v) = -v)
BY DEF Absolute

(* A quotient by the nominal maximum is of the size of the value's and of  *)
(* its sign.                                                               *)
LEMMA SignedQuotient ==
  ASSUME NEW v \in Int, NEW g \in Nat, g <= Nominal
  PROVE  /\ v >= 0 => Quotient(v * g, Nominal) = (Absolute(v) * g) \div Nominal
         /\ v < 0 => Quotient(v * g, Nominal) = -((Absolute(v) * g) \div Nominal)
<1> DEFINE k == v * g
<1>1. CASE v >= 0
  <2>1. k \in Nat /\ Absolute(v) = v
    BY <1>1, AbsoluteValue, PartOfProduct DEF Nominal
  <2>2. Quotient(k, Nominal) = k \div Nominal
    <3> HIDE DEF k
    <3> QED
      BY <2>1 DEF Quotient
  <2> QED
    BY <1>1, <2>1, <2>2
<1>2. CASE v < 0
  <2>1. Absolute(v) = -v /\ -v \in Nat
    BY <1>2, AbsoluteValue
  <2>2. (-v) * g \in Nat /\ k = -((-v) * g)
    BY <2>1, PartOfProduct DEF Nominal
  <2> DEFINE n == (-v) * g
  <2>3. n \in Nat /\ k = -n /\ k \in Int /\ k + n = 0
    BY <2>2
  <2> HIDE DEF k, n
  <2>4. CASE ~(k < 0)
    <3>1. k = 0 /\ n = 0
      BY <2>3, <2>4
    <3>2. 0 \div Nominal = 0
      BY DEF Nominal
    <3>3. Quotient(k, Nominal) = -(n \div Nominal)
      BY <3>1, <3>2 DEF Quotient
    <3> QED
      BY <1>2, <2>1, <3>3 DEF k, n
  <2>5. CASE k < 0
    <3>1. k < 0 /\ -k = n
      BY <2>3, <2>5
    <3>2. Quotient(k, Nominal) = -(n \div Nominal)
      BY <3>1 DEF Quotient
    <3> QED
      BY <1>2, <2>1, <3>2 DEF k, n
  <2> QED
    BY <2>4, <2>5
<1> QED
  BY <1>1, <1>2

(* A gain does not strengthen a value, and of two it leaves the stronger   *)
(* one the stronger.                                                       *)
LEMMA UnsignedGain ==
  ASSUME NEW v \in Nat, NEW gain \in Int
  PROVE  /\ apply_unsigned_gain(v, gain) \in Nat /\ apply_unsigned_gain(v, gain) <= v
         /\ \A w \in 0..v : apply_unsigned_gain(w, gain) <= apply_unsigned_gain(v, gain)
<1> DEFINE g == Clamp(gain, 0, Nominal)
<1>1. g \in 0..Nominal /\ g \in Nat
  BY DEF Clamp, Nominal
<1> HIDE DEF g
<1>2. (v * g) \div Nominal \in Nat /\ (v * g) \div Nominal <= v
  BY <1>1, PartOf
<1>3. ASSUME NEW w \in 0..v
      PROVE  (w * g) \div Nominal <= (v * g) \div Nominal
  <2> DEFINE k == w * g
             m == v * g
  <2>1. k \in Nat /\ m \in Nat /\ k <= m
    <3>1. g * w \in Nat /\ g * w <= g * v
      BY <1>1, PartOfProduct
    <3> QED
      BY <1>1, <3>1
  <2> HIDE DEF k, m
  <2>2. k \div Nominal <= m \div Nominal
    BY <2>1 DEF Nominal
  <2> QED
    BY <2>2 DEF k, m
<1> QED
  BY <1>2, <1>3 DEF apply_unsigned_gain, g

(* The same of two gains.                                                  *)
LEMMA CombinedUnsigned ==
  ASSUME NEW v \in Nat, NEW own \in Int, NEW device \in Int
  PROVE  /\ CombinedGainUnsigned(v, own, device) \in Nat /\ CombinedGainUnsigned(v, own, device) <= v
         /\ \A w \in 0..v : CombinedGainUnsigned(w, own, device) <= CombinedGainUnsigned(v, own, device)
<1> DEFINE first(w) == apply_unsigned_gain(w, own)
<1>1. first(v) \in Nat /\ first(v) <= v /\ \A w \in 0..v : first(w) \in 0..first(v)
  BY UnsignedGain
<1> HIDE DEF first
<1>2. /\ apply_unsigned_gain(first(v), device) \in Nat
      /\ apply_unsigned_gain(first(v), device) <= first(v)
      /\ \A w \in 0..v : apply_unsigned_gain(first(w), device) <= apply_unsigned_gain(first(v), device)
  BY <1>1, UnsignedGain
<1> QED
  BY <1>1, <1>2 DEF CombinedGainUnsigned, first

(* A gain keeps the sign of a force and does not strengthen it.            *)
LEMMA SignedGain ==
  ASSUME NEW v \in Int, NEW gain \in Int
  PROVE  /\ apply_signed_gain(v, gain) \in Int
         /\ Absolute(apply_signed_gain(v, gain)) <= Nominal
         /\ Absolute(apply_signed_gain(v, gain)) <= apply_unsigned_gain(Absolute(v), gain)
         /\ v >= 0 => apply_signed_gain(v, gain) >= 0
         /\ v <= 0 => apply_signed_gain(v, gain) <= 0
<1> DEFINE g == Clamp(gain, 0, Nominal)
           a == Absolute(v)
           k == a * g
           q == k \div Nominal
           w == Quotient(v * g, Nominal)
           r == Clamp(w, -Nominal, Nominal)
<1>1. g \in Nat /\ g <= Nominal /\ a \in Nat
  BY ClampedGain, AbsoluteValue
<1> HIDE DEF g
<1>2. g \in 0..Nominal
  BY <1>1 DEF Nominal
<1>3. q \in Nat /\ q <= a
  BY <1>1, <1>2, PartOf
<1>4. (v >= 0 => w = q) /\ (v < 0 => w = -q)
  BY <1>1, SignedQuotient
<1>5. k \in Nat /\ (v >= 0 => a = v) /\ (v < 0 => a = -v)
  BY <1>1, AbsoluteValue, PartOfProduct DEF Nominal
<1>6. apply_signed_gain(v, gain) = r
  BY DEF apply_signed_gain, g
<1> HIDE DEF a, k, q, w
<1>7. v >= 0 => r \in Nat /\ r <= q /\ r <= Nominal
  BY <1>3, <1>4 DEF Clamp, Nominal
<1>8. v < 0 => r \in Int /\ -r \in Nat /\ -r <= q /\ -r <= Nominal
  BY <1>3, <1>4 DEF Clamp, Nominal
<1>9. v = 0 => q = 0
  BY <1>1, <1>3, <1>5
<1> HIDE DEF r
<1>10. /\ r \in Int /\ Absolute(r) \in Nat /\ Absolute(r) <= q /\ Absolute(r) <= Nominal
       /\ (v >= 0 => r >= 0) /\ (v <= 0 => r <= 0)
  <2>1. CASE v >= 0
    BY <1>7, <1>9, <2>1, AbsoluteValue
  <2>2. CASE v < 0
    <3>1. r \in Int /\ r <= 0 /\ Absolute(r) = -r
      BY <1>8, <2>2, AbsoluteValue
    <3> QED
      BY <1>8, <2>2, <3>1
  <2> QED
    BY <2>1, <2>2
<1>11. apply_unsigned_gain(Absolute(v), gain) = q
  BY DEF apply_unsigned_gain, a, g, k, q
<1> QED
  BY <1>6, <1>10, <1>11

(* Two gains, in this order, do not strengthen a force either, nor do they *)
(* turn it around: what is left of it is within what both leave of its     *)
(* size.                                                                   *)
THEOREM GainsOnlyWeaken ==
  ASSUME NEW v \in Int, NEW own \in Int, NEW device \in Int
  PROVE  /\ CombinedGain(v, own, device) \in Int
         /\ Absolute(CombinedGain(v, own, device)) <= Nominal
         /\ Absolute(CombinedGain(v, own, device)) <= CombinedGainUnsigned(Absolute(v), own, device)
         /\ CombinedGainUnsigned(Absolute(v), own, device) <= Absolute(v)
         /\ v >= 0 => CombinedGain(v, own, device) >= 0
         /\ v <= 0 => CombinedGain(v, own, device) <= 0
<1> DEFINE w == apply_signed_gain(v, own)
           r == apply_signed_gain(w, device)
           a == Absolute(v)
           part == apply_unsigned_gain(a, own)
<1>1. /\ w \in Int /\ Absolute(w) <= part
      /\ v >= 0 => w >= 0
      /\ v <= 0 => w <= 0
  BY SignedGain
<1>2. a \in Nat /\ part \in Nat
  BY AbsoluteValue, UnsignedGain
<1>3. CombinedGain(v, own, device) = r /\ CombinedGainUnsigned(a, own, device) = apply_unsigned_gain(part, device)
  BY DEF CombinedGain, CombinedGainUnsigned
<1>4. CombinedGainUnsigned(a, own, device) <= a
  BY <1>2, CombinedUnsigned
<1> HIDE DEF w, part
<1>5. /\ r \in Int /\ Absolute(r) <= Nominal
      /\ Absolute(r) <= apply_unsigned_gain(Absolute(w), device)
      /\ w >= 0 => r >= 0
      /\ w <= 0 => r <= 0
  BY <1>1, SignedGain
<1> HIDE DEF r
<1> DEFINE b == Absolute(r)
           c == apply_unsigned_gain(Absolute(w), device)
           d == apply_unsigned_gain(part, device)
<1>6. b \in Nat /\ c \in Nat /\ d \in Nat /\ b <= c /\ c <= d
  <2>1. Absolute(w) \in 0..part
    BY <1>1, <1>2, AbsoluteValue
  <2> QED
    BY <1>2, <1>5, <2>1, AbsoluteValue, UnsignedGain
<1> HIDE DEF b, c, d
<1>7. b <= d
  BY <1>6
<1> QED
  BY <1>1, <1>3, <1>4, <1>5, <1>7 DEF b, d, a

-----------------------------------------------------------------------------
(* The force of an effect.                                                 *)

LEMMA AbsoluteProduct ==
  ASSUME NEW a \in Int, NEW b \in Int
  PROVE  Absolute(a * b) = Absolute(a) * Absolute(b)
<1>1. CASE a >= 0 /\ b >= 0
  <2>1. a * b \in Nat /\ Absolute(a) = a /\ Absolute(b) = b
    BY <1>1, AbsoluteValue, PartOfProduct
  <2> QED
    BY <2>1, AbsoluteValue
<1>2. CASE a < 0 /\ b >= 0
  <2>1. /\ (-a) * b \in Nat /\ a * b = -((-a) * b) /\ a * b \in Int
        /\ Absolute(a) = -a /\ Absolute(b) = b
    BY <1>2, AbsoluteValue, PartOfProduct
  <2> QED
    BY <2>1 DEF Absolute
<1>3. CASE a >= 0 /\ b < 0
  <2>1. /\ a * (-b) \in Nat /\ a * b = -(a * (-b)) /\ a * b \in Int
        /\ Absolute(a) = a /\ Absolute(b) = -b
    BY <1>3, AbsoluteValue, PartOfProduct
  <2> QED
    BY <2>1 DEF Absolute
<1>4. CASE a < 0 /\ b < 0
  <2>1. /\ (-a) * (-b) \in Nat /\ a * b = (-a) * (-b)
        /\ Absolute(a) = -a /\ Absolute(b) = -b
    BY <1>4, AbsoluteValue, PartOfProduct
  <2> QED
    BY <2>1, AbsoluteValue
<1> QED
  BY <1>1, <1>2, <1>3, <1>4

Factor == -Whole..Whole

LEMMA FactorBound ==
  ASSUME NEW k \in Factor
  PROVE  k \in Int /\ Absolute(k) \in Nat /\ Absolute(k) <= Whole
BY DEF Factor, Whole, Absolute

LEMMA DirectionIsFactor ==
  ASSUME NEW d, d.value \in Int
  PROVE  direction_multiplier(d) \in Factor
<1>1. CASE d.system = "cartesian" /\ d.value # 0
  <2> DEFINE q == Quotient(d.value, Nominal \div Whole)
  <2>1. q \in Int
    BY DEF Quotient, Nominal, Whole
  <2>2. direction_multiplier(d) = Clamp(q, -Whole, Whole)
    BY <1>1 DEF direction_multiplier
  <2> HIDE DEF q
  <2> QED
    BY <2>1, <2>2 DEF Clamp, Factor, Whole
<1>2. CASE ~(d.system = "cartesian" /\ d.value # 0)
  <2>1. direction_multiplier(d) \in {Whole, -Whole, 0}
    BY <1>2 DEF direction_multiplier
  <2> QED
    BY <2>1 DEF Factor, Whole
<1> QED
  BY <1>1, <1>2

LEMMA WaveIsFactor ==
  ASSUME NEW kind, NEW position \in 0..(Whole - 1)
  PROVE  periodic_wave_sample(kind, position) \in Factor
<1>1. /\ 4 * Absolute(position - 50) \in Nat /\ 4 * Absolute(position - 50) <= 2 * Whole
      /\ Whole \in Factor /\ -Whole \in Factor /\ 0 \in Factor
      /\ 2 * position - Whole \in Factor /\ Whole - 2 * position \in Factor
  BY DEF Absolute, Whole, Factor
<1>2. Whole - 4 * Absolute(position - 50) \in Factor
  BY <1>1 DEF Whole, Factor
<1> QED
  BY <1>1, <1>2 DEF periodic_wave_sample

(* The part of a slope that has been gone, of a height h.                  *)
LEMMA SlopePart ==
  ASSUME NEW h \in Int, NEW done \in Nat, NEW time \in Nat \ {0}, done <= time
  PROVE  /\ Quotient(h * done, time) \in Int
         /\ h >= 0 => Quotient(h * done, time) \in 0..h
         /\ h <= 0 => Quotient(h * done, time) \in h..0
<1>1. Absolute(h) \in Nat
  BY AbsoluteValue
<1>2. Absolute(h) * done <= Absolute(h) * time
  BY <1>1, PartOfProduct
<1>3. Absolute(h * done) = Absolute(h) * done /\ h * done \in Int
  BY <1>1, AbsoluteProduct, AbsoluteValue
<1> DEFINE k == h * done
           q == Quotient(k, time)
<1>4. q \in Int /\ Absolute(q) <= Absolute(h)
  BY <1>1, <1>2, <1>3, QuotientBound
<1>5. /\ h >= 0 => k \in Nat
      /\ h <= 0 => -k \in Nat
  <2>1. h >= 0 => k \in Nat
    BY <1>1, PartOfProduct
  <2>2. h <= 0 => (-h) * done \in Nat
    BY <1>1, PartOfProduct
  <2>3. (-h) * done = -k
    BY <1>1
  <2> QED
    BY <2>1, <2>2, <2>3
<1>6. k \in Int
  BY <1>3
<1> HIDE DEF k
<1>7. /\ k >= 0 => q >= 0
      /\ k <= 0 => q <= 0
  <2>1. CASE k >= 0
    <3>1. q = k \div time
      BY <1>6, <2>1 DEF Quotient
    <3>2. k \div time >= 0 /\ (k = 0 => k \div time = 0)
      BY <1>6, <2>1
    <3> QED
      BY <1>6, <2>1, <3>1, <3>2
  <2>2. CASE k < 0
    <3>1. q = -((-k) \div time)
      BY <1>6, <2>2 DEF Quotient
    <3>2. (-k) \div time >= 0 /\ (-k) \div time \in Int
      BY <1>6, <2>2
    <3> QED
      BY <1>6, <2>2, <3>1, <3>2
  <2> QED
    BY <1>6, <2>1, <2>2
<1> HIDE DEF q
<1>8. /\ h >= 0 => q \in 0..h
      /\ h <= 0 => q \in h..0
  BY <1>1, <1>4, <1>5, <1>6, <1>7 DEF Absolute
<1> QED
  BY <1>4, <1>8 DEF q, k

(* An effect that a game can have made.                                    *)
ProperEffect(e) ==
  /\ e.kind \in AllKinds /\ e.since \in Nat /\ e.iterations \in Nat \cup {INFINITE}
  /\ e.params.gain \in Int /\ e.params.delay \in Nat /\ e.params.duration \in Nat \cup {INFINITE}
  /\ ProperEnvelope(e.params.envelope) /\ e.params.direction.value \in Int
  /\ ProperTyped(e.kind, e.params.typed)

LEMMA TotalIsNat ==
  ASSUME NEW e, ProperEffect(e)
  PROVE  TotalDuration(e) \in Nat
<1>1. CASE Ends(e)
  <2>1. e.params.duration \in Nat /\ e.iterations \in Nat
    BY <1>1 DEF Ends, ProperEffect
  <2>2. e.params.duration * e.iterations \in Nat
    BY <2>1, PartOfProduct
  <2> QED
    BY <1>1, <2>2 DEF TotalDuration
<1>2. CASE ~Ends(e)
  BY <1>2 DEF TotalDuration
<1> QED
  BY <1>1, <1>2

(* An envelope is between nothing and the whole at any time.               *)
LEMMA EnvelopeIsFactor ==
  ASSUME NEW e, ProperEffect(e), NEW elapsed \in Nat
  PROVE  envelope_multiplier(e, elapsed) \in Factor
<1> DEFINE v == e.params.envelope
           total == TotalDuration(e)
           fade == Larger(total - v.fade_time, 0)
<1>1. /\ v.attack_level \in 0..Whole /\ v.fade_level \in 0..Whole
      /\ v.attack_time \in Nat /\ v.fade_time \in Nat /\ total \in Nat
  BY TotalIsNat DEF ProperEffect, ProperEnvelope
<1>2. fade \in Nat /\ total - fade <= v.fade_time
  <2> HIDE DEF v, total
  <2> QED
    BY <1>1 DEF Larger
<1>3. CASE elapsed < v.attack_time
  <2>1. envelope_multiplier(e, elapsed) = v.attack_level + Quotient((Whole - v.attack_level) * elapsed, v.attack_time)
    BY <1>3 DEF envelope_multiplier
  <2> DEFINE h == Whole - v.attack_level
  <2>2. h \in Int /\ h >= 0 /\ v.attack_time \in Nat \ {0} /\ elapsed <= v.attack_time
    BY <1>1, <1>3 DEF Whole
  <2> HIDE DEF h
  <2>3. Quotient(h * elapsed, v.attack_time) \in 0..h
    BY <2>2, SlopePart
  <2> DEFINE r == Quotient(h * elapsed, v.attack_time)
  <2> HIDE DEF r
  <2>4. r \in 0..h
    BY <2>3 DEF r
  <2>5. v.attack_level + r \in Factor
    <3> HIDE DEF v
    <3> QED
      BY <1>1, <2>2, <2>4 DEF h, Factor, Whole
  <2> QED
    BY <2>1, <2>5 DEF r, h
<1>4. CASE ~(elapsed < v.attack_time) /\ v.fade_time > 0 /\ elapsed \in fade..(total - 1)
  <2>1. envelope_multiplier(e, elapsed) = Whole + Quotient((v.fade_level - Whole) * (elapsed - fade), v.fade_time)
    BY <1>4 DEF envelope_multiplier
  <2> DEFINE h == v.fade_level - Whole
             done == elapsed - fade
  <2>2. h \in Int /\ h >= -Whole /\ h <= 0
    BY <1>1 DEF Whole
  <2>3. done \in Nat /\ done <= v.fade_time /\ v.fade_time \in Nat \ {0}
    <3> HIDE DEF fade, total, v
    <3> QED
      BY <1>1, <1>2, <1>4
  <2> HIDE DEF h, done
  <2>4. Quotient(h * done, v.fade_time) \in h..0
    BY <2>2, <2>3, SlopePart
  <2> DEFINE r == Quotient(h * done, v.fade_time)
  <2> HIDE DEF r
  <2>5. r \in h..0
    BY <2>4 DEF r
  <2>6. Whole + r \in Factor
    <3> HIDE DEF v
    <3> QED
      BY <1>1, <2>2, <2>5 DEF h, Factor, Whole
  <2> QED
    BY <2>1, <2>6 DEF r, h, done
<1>5. CASE ~(elapsed < v.attack_time) /\ ~(v.fade_time > 0 /\ elapsed \in fade..(total - 1))
  <2>1. envelope_multiplier(e, elapsed) = Whole
    BY <1>5 DEF envelope_multiplier
  <2> QED
    BY <2>1 DEF Factor, Whole
<1> QED
  BY <1>3, <1>4, <1>5

(* The shape of an effect stays within the force that its parameters ask   *)
(* for, at any time: the slope of a ramp between its ends, a wave within   *)
(* its magnitude of its offset.                                            *)
LEMMA RawWithin ==
  ASSUME NEW e, ProperEffect(e), e.kind \notin Conditions, NEW elapsed \in Nat
  PROVE  /\ RawForce(e, elapsed) \in Int /\ Strength(e) \in Nat
         /\ Absolute(RawForce(e, elapsed)) <= Strength(e)
<1> DEFINE t == e.params.typed
           d == e.params.duration
<1>1. CASE e.kind = "constant"
  <2>1. t.magnitude \in Int
    BY <1>1 DEF ProperEffect, ProperTyped
  <2>2. RawForce(e, elapsed) = t.magnitude /\ Strength(e) = Absolute(t.magnitude)
    BY <1>1 DEF RawForce, Strength
  <2> QED
    BY <2>1, <2>2, AbsoluteValue
<1>2. CASE e.kind = "ramp"
  <2> DEFINE r == RawForce(e, elapsed)
  <2>1. /\ t.start \in Int /\ t.end \in Int /\ d \in Nat \cup {INFINITE}
        /\ Strength(e) = Larger(Absolute(t.start), Absolute(t.end))
    BY <1>2 DEF ProperEffect, ProperTyped, Strength
  <2>2. /\ r \in Int
        /\ (t.start <= r /\ r <= t.end) \/ (t.end <= r /\ r <= t.start)
    <3>1. CASE d \in {0, INFINITE}
      <4>1. r = t.end
        BY <1>2, <3>1 DEF RawForce
      <4> HIDE DEF r, t
      <4> QED
        BY <2>1, <4>1
    <3>2. CASE d \notin {0, INFINITE}
      <4> DEFINE h == t.end - t.start
                 q == Quotient(h * (elapsed % d), d)
      <4>1. r = t.start + q
        BY <1>2, <3>2 DEF RawForce
      <4>2. h \in Int /\ d \in Nat \ {0}
        <5> HIDE DEF t, d
        <5> QED
          BY <2>1, <3>2
      <4> HIDE DEF d, h
      <4>3. elapsed % d \in Nat /\ elapsed % d <= d
        BY <4>2
      <4>4. q \in Int /\ (h >= 0 => q \in 0..h) /\ (h <= 0 => q \in h..0)
        BY <4>2, <4>3, SlopePart
      <4> HIDE DEF q, r, t
      <4> QED
        BY <2>1, <4>1, <4>2, <4>4 DEF h
    <3> QED
      BY <3>1, <3>2
  <2> HIDE DEF r, t
  <2>3. Larger(Absolute(t.start), Absolute(t.end)) \in Nat /\ Absolute(r) <= Larger(Absolute(t.start), Absolute(t.end))
    BY <2>1, <2>2 DEF Larger, Absolute
  <2> QED
    BY <2>1, <2>2, <2>3 DEF r
<1>3. CASE e.kind \in TimeVarying \ {"ramp"}
  <2> DEFINE position == (((elapsed % t.period) * Whole) \div t.period + t.phase \div 360) % Whole
             wave == periodic_wave_sample(e.kind, position)
             q == Quotient(t.magnitude * wave, Whole)
  <2>1. t.magnitude \in Nat /\ t.offset \in Int /\ t.phase \in Nat /\ t.period \in Nat \ {0}
    BY <1>3 DEF ProperEffect, ProperTyped
  <2>2. RawForce(e, elapsed) = t.offset + q /\ Strength(e) = t.magnitude + Absolute(t.offset)
    BY <1>3 DEF RawForce, Strength, TimeVarying
  <2> HIDE DEF t
  <2>3. position \in 0..(Whole - 1)
    <3>1. (elapsed % t.period) * Whole \in Nat
      BY <2>1 DEF Whole
    <3>2. ((elapsed % t.period) * Whole) \div t.period \in Nat /\ t.phase \div 360 \in Nat
      BY <2>1, <3>1
    <3> DEFINE n == ((elapsed % t.period) * Whole) \div t.period + t.phase \div 360
    <3>3. n \in Nat
      BY <3>2
    <3> HIDE DEF n
    <3>4. n % Whole \in 0..(Whole - 1)
      BY <3>3 DEF Whole
    <3> QED
      BY <3>4 DEF n
  <2> HIDE DEF position
  <2>4. wave \in Int /\ Absolute(wave) \in Nat /\ Absolute(wave) <= Whole
    BY <2>3, WaveIsFactor, FactorBound
  <2> HIDE DEF wave
  <2> DEFINE m == t.magnitude
  <2>5. t.magnitude * wave \in Int /\ Absolute(t.magnitude * wave) = t.magnitude * Absolute(wave)
    <3>1. m \in Int /\ Absolute(m) = m
      BY <2>1, AbsoluteValue
    <3> HIDE DEF m
    <3>2. m * wave \in Int /\ Absolute(m * wave) = Absolute(m) * Absolute(wave)
      BY <2>4, <3>1, AbsoluteProduct
    <3> QED
      BY <3>1, <3>2 DEF m
  <2>6. t.magnitude * Absolute(wave) <= t.magnitude * Whole
    BY <2>1, <2>4, PartOfProduct DEF Whole
  <2>7. q \in Int /\ Absolute(q) <= t.magnitude
    BY <2>1, <2>5, <2>6, QuotientBound DEF Whole
  <2> HIDE DEF q
  <2>8. t.offset + q \in Int /\ Absolute(t.offset + q) <= t.magnitude + Absolute(t.offset)
    BY <2>1, <2>7 DEF Absolute
  <2>9. t.magnitude + Absolute(t.offset) \in Nat
    BY <2>1, AbsoluteValue
  <2> QED
    BY <2>2, <2>8, <2>9
<1> QED
  BY <1>1, <1>2, <1>3 DEF ProperEffect, AllKinds

(* The force of an effect is never stronger than what its parameters ask   *)
(* for at the moment, reduced by its own gain and the device's: whatever   *)
(* the envelope, the direction and the gains are.                          *)
THEOREM ForceOnlyWeakens ==
  ASSUME NEW e, ProperEffect(e), e.kind \notin Conditions, NEW now \in Nat, NEW device \in Int
  PROVE  LET raw   == Absolute(RawForce(e, ActiveElapsed(e, now)))
             force == Absolute(compute_force(e, now, device))
         IN  /\ compute_force(e, now, device) \in Int
             /\ force <= Nominal /\ force <= CombinedGainUnsigned(raw, e.params.gain, device)
<1> DEFINE elapsed == ActiveElapsed(e, now)
           raw == RawForce(e, elapsed)
           env == envelope_multiplier(e, elapsed)
           dir == direction_multiplier(e.params.direction)
           product == raw * env * dir
           shaped == Quotient(product, Whole * Whole)
           cut == Clamp(shaped, -Nominal, Nominal)
           own == e.params.gain
<1>1. elapsed \in Nat
  BY DEF ActiveElapsed, Larger, ProperEffect
<1> HIDE DEF elapsed
<1>2. raw \in Int /\ Absolute(raw) \in Nat
  BY <1>1, RawWithin, AbsoluteValue
<1>3. /\ env \in Int /\ Absolute(env) \in Nat /\ Absolute(env) <= Whole
      /\ dir \in Int /\ Absolute(dir) \in Nat /\ Absolute(dir) <= Whole
  BY <1>1, EnvelopeIsFactor, DirectionIsFactor, FactorBound DEF ProperEffect
<1>4. compute_force(e, now, device) = CombinedGain(cut, e.params.gain, device)
  BY DEF compute_force, elapsed
<1> HIDE DEF raw, env, dir
<1>5. product \in Int /\ Absolute(product) <= Absolute(raw) * (Whole * Whole)
  <2>1. raw * env \in Int /\ Absolute(raw * env) = Absolute(raw) * Absolute(env)
    BY <1>2, <1>3, AbsoluteProduct
  <2> DEFINE x == raw * env
             a == Absolute(raw)
  <2>2. a \in Nat /\ a * Absolute(env) \in Nat /\ a * Absolute(env) <= a * Whole
    BY <1>2, <1>3, PartOfProduct DEF Whole
  <2> HIDE DEF x
  <2>3. x \in Int /\ Absolute(x) \in Nat /\ Absolute(x) <= a * Whole
    BY <2>1, <2>2 DEF x
  <2>4. x * dir \in Int /\ Absolute(x * dir) = Absolute(x) * Absolute(dir)
    BY <1>3, <2>3, AbsoluteProduct
  <2>5. Absolute(x) * Absolute(dir) \in Nat /\ Absolute(x) * Absolute(dir) <= Absolute(x) * Whole
    BY <1>3, <2>3, PartOfProduct DEF Whole
  <2> DEFINE y == Absolute(x)
             z == Absolute(x * dir)
  <2>6. y \in Nat /\ z \in Nat /\ z <= y * Whole /\ y <= a * Whole
    BY <2>3, <2>4, <2>5
  <2> HIDE DEF a, y, z
  <2>7. z <= a * (Whole * Whole)
    BY <2>2, <2>6 DEF Whole
  <2> QED
    BY <2>4, <2>7 DEF x, a, z
<1> HIDE DEF product
<1>6. shaped \in Int /\ Absolute(shaped) <= Absolute(raw)
  BY <1>2, <1>5, QuotientBound DEF Whole
<1> HIDE DEF shaped
<1>7. cut \in Int /\ Absolute(cut) \in Nat /\ Absolute(cut) <= Absolute(raw)
  BY <1>2, <1>6 DEF Clamp, Absolute, Nominal
<1> HIDE DEF cut
<1>8. own \in Int
  BY DEF ProperEffect
<1> DEFINE f == Absolute(CombinedGain(cut, own, device))
           b == CombinedGainUnsigned(Absolute(cut), own, device)
           a == CombinedGainUnsigned(Absolute(raw), own, device)
<1>9. CombinedGain(cut, own, device) \in Int /\ f <= Nominal /\ f <= b
  BY <1>7, <1>8, GainsOnlyWeaken
<1>10. b \in Nat /\ a \in Nat /\ b <= a
  <2>1. Absolute(cut) \in 0..Absolute(raw)
    BY <1>2, <1>7
  <2> QED
    BY <1>2, <1>7, <1>8, <2>1, CombinedUnsigned
<1>11. f \in Nat
  BY <1>9, AbsoluteValue
<1> HIDE DEF f, b, a
<1>12. f <= a
  BY <1>9, <1>10, <1>11
<1> QED
  BY <1>4, <1>9, <1>12 DEF f, a, raw, elapsed, own

-----------------------------------------------------------------------------
(* What an effect adds to a wheel state.                                   *)

LEMMA LargerFits ==
  ASSUME NEW top \in Nat, NEW a \in 0..top, NEW b \in 0..top
  PROVE  Larger(a, b) \in 0..top
BY DEF Larger

(* The strongest of two springs is a spring, and so for dampers.           *)
LEMMA StrongestSpring ==
  ASSUME NEW a \in Springs, NEW b \in Springs
  PROVE  Strongest(a, b) \in Springs
<1>1. /\ Larger(a.on, b.on) \in Flag /\ Larger(a.clip, b.clip) \in Byte
      /\ Larger(a.k1, b.k1) \in Nibble /\ Larger(a.k2, b.k2) \in Nibble
      /\ Larger(a.sat1, b.sat1) \in Nibble /\ Larger(a.sat2, b.sat2) \in Nibble
      /\ Larger(a.left, b.left) \in Nibble /\ Larger(a.right, b.right) \in Nibble
  BY LargerFits DEF Springs, Flag, Byte, Nibble
<1>2. Strongest(a, b) = [on |-> Larger(a.on, b.on), k1 |-> Larger(a.k1, b.k1), k2 |-> Larger(a.k2, b.k2),
                         sat1 |-> Larger(a.sat1, b.sat1), sat2 |-> Larger(a.sat2, b.sat2),
                         left |-> Larger(a.left, b.left), right |-> Larger(a.right, b.right),
                         clip |-> Larger(a.clip, b.clip)]
  BY DEF Strongest, Springs
<1> QED
  BY <1>1, <1>2 DEF Springs

LEMMA StrongestDamper ==
  ASSUME NEW a \in Dampers, NEW b \in Dampers
  PROVE  Strongest(a, b) \in Dampers
<1>1. /\ Larger(a.on, b.on) \in Flag
      /\ Larger(a.positive, b.positive) \in Byte /\ Larger(a.negative, b.negative) \in Byte
      /\ Larger(a.positive_sat, b.positive_sat) \in Byte /\ Larger(a.negative_sat, b.negative_sat) \in Byte
  <2>1. /\ a.on \in Flag /\ b.on \in Flag /\ a.positive \in Byte /\ b.positive \in Byte
        /\ a.negative \in Byte /\ b.negative \in Byte
        /\ a.positive_sat \in Byte /\ b.positive_sat \in Byte
        /\ a.negative_sat \in Byte /\ b.negative_sat \in Byte
    BY DEF Dampers
  <2>2. \A x, y \in Flag : Larger(x, y) \in Flag
    BY DEF Larger
  <2>3. \A x, y \in Byte : Larger(x, y) \in Byte
    BY DEF Larger
  <2> QED
    BY <2>1, <2>2, <2>3
<1>2. Strongest(a, b) = [on |-> Larger(a.on, b.on), positive |-> Larger(a.positive, b.positive),
                         negative |-> Larger(a.negative, b.negative),
                         positive_sat |-> Larger(a.positive_sat, b.positive_sat),
                         negative_sat |-> Larger(a.negative_sat, b.negative_sat)]
  BY DEF Strongest, Dampers
<1> QED
  BY <1>1, <1>2 DEF Dampers

(* What a condition of a game is on the wheel.                             *)
LEMMA SpringFits ==
  ASSUME NEW e, ProperEffect(e), e.kind \in Conditions, NEW device \in Int
  PROVE  SpringOf(e, device) \in Springs
<1> DEFINE c == e.params.typed
           own == e.params.gain
           k(v) == CombinedGain(Absolute(v), own, device)
           s1 == CombinedGainUnsigned(c[1].positive_sat, own, device)
           s2 == CombinedGainUnsigned(c[2].negative_sat, own, device)
<1>1. /\ own \in Int /\ c[1].positive \in Int /\ c[2].negative \in Int
      /\ c[1].positive_sat \in Nat /\ c[2].negative_sat \in Nat
      /\ c[1].dead_band \in Int /\ c[2].dead_band \in Int
  BY DEF ProperEffect, ProperTyped
<1>2. k(c[1].positive) \in Int /\ k(c[2].negative) \in Int
  <2>1. Absolute(c[1].positive) \in Int /\ Absolute(c[2].negative) \in Int
    BY <1>1, AbsoluteValue
  <2> QED
    BY <1>1, <2>1, GainsOnlyWeaken
<1>3. s1 \in Int /\ s2 \in Int /\ Larger(s1, s2) \in Int
  <2> DEFINE x == c[1].positive_sat
             y == c[2].negative_sat
  <2>1. x \in Nat /\ y \in Nat /\ own \in Int
    BY <1>1
  <2> HIDE DEF x, y, own
  <2>2. CombinedGainUnsigned(x, own, device) \in Nat /\ CombinedGainUnsigned(y, own, device) \in Nat
    BY <2>1, CombinedUnsigned
  <2>3. \A i, j \in Int : Larger(i, j) \in Int
    BY DEF Larger
  <2> QED
    BY <2>2, <2>3 DEF x, y
<1>4. /\ scale_nibble(k(c[1].positive)) \in Nibble /\ scale_nibble(k(c[2].negative)) \in Nibble
      /\ scale_nibble(s1) \in Nibble /\ scale_nibble(s2) \in Nibble
      /\ scale_nibble(c[1].dead_band) \in Nibble /\ scale_nibble(c[2].dead_band) \in Nibble
      /\ scale_byte(Larger(s1, s2)) \in Byte
  BY <1>1, <1>2, <1>3, ScalesFit DEF Nibble, Byte
<1> QED
  BY <1>4 DEF SpringOf, Springs, Flag

LEMMA DamperFits ==
  ASSUME NEW e, ProperEffect(e), e.kind \in Conditions, NEW device \in Int
  PROVE  DamperOf(e, device) \in Dampers
<1> DEFINE c == e.params.typed
           own == e.params.gain
           k(v) == CombinedGain(Absolute(v), own, device)
           s1 == CombinedGainUnsigned(c[1].positive_sat, own, device)
           s2 == CombinedGainUnsigned(c[2].negative_sat, own, device)
<1>1. /\ own \in Int /\ c[1].positive \in Int /\ c[2].negative \in Int
      /\ c[1].positive_sat \in Nat /\ c[2].negative_sat \in Nat
  BY DEF ProperEffect, ProperTyped
<1>2. k(c[1].positive) \in Int /\ k(c[2].negative) \in Int
  <2>1. Absolute(c[1].positive) \in Int /\ Absolute(c[2].negative) \in Int
    BY <1>1, AbsoluteValue
  <2> QED
    BY <1>1, <2>1, GainsOnlyWeaken
<1>3. s1 \in Int /\ s2 \in Int
  <2> DEFINE x == c[1].positive_sat
             y == c[2].negative_sat
  <2>1. x \in Nat /\ y \in Nat /\ own \in Int
    BY <1>1
  <2> HIDE DEF x, y, own
  <2>2. CombinedGainUnsigned(x, own, device) \in Nat /\ CombinedGainUnsigned(y, own, device) \in Nat
    BY <2>1, CombinedUnsigned
  <2> QED
    BY <2>2 DEF x, y
<1>4. /\ scale_byte(k(c[1].positive)) \in Byte /\ scale_byte(k(c[2].negative)) \in Byte
      /\ scale_byte(s1) \in Byte /\ scale_byte(s2) \in Byte
  BY <1>2, <1>3, ScalesFit DEF Byte
<1> QED
  BY <1>4 DEF DamperOf, Dampers, Flag

LEMMA ClampInRange ==
  ASSUME NEW v \in Int, NEW low \in Int, NEW high \in Int, low <= high
  PROVE  Clamp(v, low, high) \in low..high
BY DEF Clamp

LEMMA ForceFits ==
  ASSUME NEW c \in Constants, NEW force \in Int
  PROVE  AddForce(c, force) \in Constants
<1>1. c.magnitude \in Int
  BY DEF Constants
<1> DEFINE sum == c.magnitude + force
<1>2. sum \in Int
  BY <1>1
<1> HIDE DEF sum
<1>3. Clamp(sum, -Nominal, Nominal) \in -Nominal..Nominal
  <2>1. -Nominal \in Int /\ Nominal \in Int /\ -Nominal <= Nominal
    BY DEF Nominal
  <2> QED
    BY <1>2, <2>1, ClampInRange
<1> QED
  BY <1>3 DEF AddForce, Constants, Flag, sum

(* An effect with any parameters added to a wheel state that fits the wire *)
(* gives one that fits it: at every time, for every gain of the device.    *)
THEOREM ContributionFits ==
  ASSUME NEW p \in WheelStates, NEW e, ProperEffect(e), NEW device \in Int, NEW now \in Nat
  PROVE  apply(p, e, device, now) \in WheelStates
<1>1. p.spring \in Springs /\ p.damper \in Dampers /\ p.constant \in Constants
  BY DEF WheelStates
<1>2. CASE ~is_temporally_active(e, now)
  BY <1>2 DEF apply
<1>3. CASE is_temporally_active(e, now) /\ e.kind = "spring"
  <2>1. Strongest(p.spring, SpringOf(e, device)) \in Springs
    BY <1>1, <1>3, SpringFits, StrongestSpring DEF Conditions
  <2>2. apply(p, e, device, now) = [p EXCEPT !.spring = Strongest(p.spring, SpringOf(e, device))]
    BY <1>3 DEF apply
  <2> QED
    BY <2>1, <2>2 DEF WheelStates
<1>4. CASE is_temporally_active(e, now) /\ e.kind # "spring" /\ e.kind \in Conditions
  <2>1. Strongest(p.damper, DamperOf(e, device)) \in Dampers
    BY <1>1, <1>4, DamperFits, StrongestDamper
  <2>2. apply(p, e, device, now) = [p EXCEPT !.damper = Strongest(p.damper, DamperOf(e, device))]
    BY <1>4 DEF apply
  <2> QED
    BY <2>1, <2>2 DEF WheelStates
<1>5. CASE is_temporally_active(e, now) /\ e.kind \notin Conditions
  <2>1. compute_force(e, now, device) \in Int
    BY <1>5, ForceOnlyWeakens
  <2>2. AddForce(p.constant, compute_force(e, now, device)) \in Constants
    BY <1>1, <2>1, ForceFits
  <2>3. apply(p, e, device, now) = [p EXCEPT !.constant = AddForce(p.constant, compute_force(e, now, device))]
    BY <1>5 DEF apply, Conditions
  <2> QED
    BY <2>2, <2>3 DEF WheelStates
<1> QED
  BY <1>2, <1>3, <1>4, <1>5

(* The state without effects fits the wire, and so does the spring that    *)
(* stands in for a game's own.                                             *)
THEOREM AutocenterFits ==
  ASSUME NEW device \in Int, NEW p \in WheelStates
  PROVE  Silent \in WheelStates /\ [p EXCEPT !.autocenter = Autocenter(device)] \in WheelStates
<1>1. Silent \in WheelStates
  BY DEF Silent, WheelStates, Autocenters, Springs, Dampers, Constants, Flag, Nibble, Byte, Nominal
<1>2. Autocenter(device) \in Autocenters
  <2>1. apply_unsigned_gain(device, 3200) \in Int
    <3> DEFINE x == device * Clamp(3200, 0, Nominal)
    <3>1. x \in Int
      BY DEF Clamp, Nominal
    <3> HIDE DEF x
    <3>2. x \div Nominal \in Int
      BY <3>1 DEF Nominal
    <3> QED
      BY <3>2 DEF apply_unsigned_gain, x
  <2>2. scale_byte(apply_unsigned_gain(device, 3200)) \in Byte
    BY <2>1, ScalesFit DEF Byte
  <2> QED
    BY <2>2 DEF Autocenter, Autocenters, Flag, Nibble
<1> QED
  BY <1>1, <1>2 DEF WheelStates

-----------------------------------------------------------------------------
(* The effects of a table, one after the other.  FoldLeft is a function on *)
(* the sets of indices; that it is what its recursive definition says, and *)
(* what follows from that by induction, comes from the smallest set of     *)
(* indices of which it would not hold.                                     *)

(* A set of sets of indices that is not empty has a smallest one.          *)
LEMMA SmallestSet ==
  ASSUME NEW n \in Nat, NEW sets, \A s \in sets : s \subseteq 1..n, sets # {}
  PROVE  \E s \in sets : \A t \in sets : t \subseteq s => t = s
<1> DEFINE D == 1..n
           less == StrictSubsetOrdering(D)
<1>1. IsFiniteSet(D)
  BY FS_Interval
<1>2. FiniteSubsetsOf(D) = SUBSET D
  BY <1>1, FS_FiniteSubsetsOfFinite
<1>3. IsWellFoundedOn(less, SUBSET D)
  BY <1>2, FS_StrictSubsetOrderingWellFounded
<1>4. sets \subseteq SUBSET D
  OBVIOUS
<1>5. \A s, t \in SUBSET D : t \subseteq s /\ t # s => <<t, s>> \in less
  BY DEF StrictSubsetOrdering
<1> HIDE DEF less, D
<1>6. PICK s \in sets : \A t \in sets : ~(<<t, s>> \in less)
  BY <1>3, <1>4, WFMin
<1> QED
  BY <1>4, <1>5, <1>6

(* The last of some indices.                                               *)
LEMMA LastIndex ==
  ASSUME NEW n \in Nat, NEW s \in SUBSET (1..n), s # {}
  PROVE  Max(s) \in s /\ \A i \in s : i <= Max(s)
<1> DEFINE from(x) == {i \in s : i >= x}
           later == {from(x) : x \in s}
<1>1. \E x \in s : \A y \in s : x >= y
  <2>1. (\A t \in later : t \subseteq 1..n) /\ later # {}
    OBVIOUS
  <2> HIDE DEF later
  <2>2. PICK t \in later : \A u \in later : u \subseteq t => u = t
    BY <2>1, SmallestSet
  <2>3. PICK x \in s : t = from(x)
    BY <2>2 DEF later
  <2>4. ASSUME NEW y \in s, ~(x >= y)
        PROVE  FALSE
    <3>1. x \in Int /\ y \in Int /\ x < y
      BY <2>4
    <3>2. \A i \in s : i >= y => i >= x
      BY <3>1
    <3>3. from(y) \subseteq t /\ from(y) \in later
      BY <2>3, <3>2 DEF later
    <3>4. x \in t /\ x \notin from(y)
      BY <2>3, <3>1
    <3> QED
      BY <2>2, <3>3, <3>4
  <2> QED
    BY <2>4
<1>2. Max(s) \in s /\ \A y \in s : Max(s) >= y
  BY <1>1 DEF Max
<1> QED
  BY <1>2

(* One step of the fold: the last effect on top of the others.             *)
OnTop(es, gain, time, f, s) ==
  IF s = {} THEN Silent ELSE apply(f[s \ {Max(s)}], es[Max(s)], gain, time)

Layers(es, gain, time) ==
  CHOOSE f : f = [s \in SUBSET DOMAIN es |-> OnTop(es, gain, time, f, s)]

LEMMA AppliedIsLayers ==
  ASSUME NEW es, NEW gain, NEW time
  PROVE  Applied(es, gain, time) = Layers(es, gain, time)[DOMAIN es]
BY DEF Applied, FoldLeft, MapThenFoldSet, Layers, OnTop

LEMMA LayersDefined ==
  ASSUME NEW n \in Nat, NEW es, DOMAIN es = 1..n, NEW gain, NEW time
  PROVE  LET f == Layers(es, gain, time)
         IN  \A s \in SUBSET (1..n) : f[s] = OnTop(es, gain, time, f, s)
<1> DEFINE D == 1..n
           Top(f, s) == OnTop(es, gain, time, f, s)
           Has(s) == \E f : \A t \in SUBSET s : f[t] = Top(f, t)
           bad == {s \in SUBSET D : ~Has(s)}
<1>1. bad = {}
  <2>1. SUFFICES ASSUME bad # {}
                 PROVE  FALSE
    OBVIOUS
  <2>2. PICK s \in bad : \A t \in bad : t \subseteq s => t = s
    <3>1. \A t \in bad : t \subseteq 1..n
      OBVIOUS
    <3> HIDE DEF bad
    <3> QED
      BY <2>1, <3>1, SmallestSet
  <2>3. s \in SUBSET D /\ ~Has(s) /\ \A i \in s : i \in Int
    OBVIOUS
  <2>4. CASE s = {}
    <3> DEFINE f == [t \in {{}} |-> Silent]
    <3>1. \A t \in SUBSET s : f[t] = Top(f, t)
      BY <2>4 DEF OnTop
    <3> HIDE DEF f
    <3> QED
      BY <2>3, <3>1
  <2>5. CASE s # {}
    <3> DEFINE x == Max(s)
               r == s \ {x}
    <3>1. x \in s /\ \A i \in s : i <= x
      BY <2>3, <2>5, LastIndex
    <3>2. r \in SUBSET D /\ r \subseteq s /\ r # s
      BY <2>3, <3>1
    <3>3. Has(r)
      BY <2>2, <3>2
    <3> HIDE DEF x, bad
    <3>4. PICK g : \A t \in SUBSET r : g[t] = Top(g, t)
      BY <3>3
    <3> DEFINE h == [t \in SUBSET s |-> IF x \in t THEN apply(g[t \ {x}], es[x], gain, time) ELSE g[t]]
    <3>5. ASSUME NEW t \in SUBSET s
          PROVE  h[t] = Top(h, t)
      <4>1. CASE x \in t
        <5>1. Max(t) \in t /\ \A i \in t : i <= Max(t)
          BY <2>3, <4>1, LastIndex
        <5>2. Max(t) = x
          <6>1. Max(t) \in s /\ x \in s
            BY <3>1, <5>1
          <6>2. Max(t) \in Int /\ x \in Int /\ Max(t) <= x /\ x <= Max(t)
            BY <2>3, <3>1, <4>1, <5>1, <6>1
          <6> QED
            BY <6>2
        <5>3. t \ {x} \in SUBSET s /\ h[t \ {x}] = g[t \ {x}]
          OBVIOUS
        <5>4. h[t] = apply(g[t \ {x}], es[x], gain, time)
          BY <4>1
        <5> HIDE DEF h
        <5> QED
          BY <4>1, <5>2, <5>3, <5>4 DEF OnTop
      <4>2. CASE x \notin t
        <5>1. t \in SUBSET r
          BY <4>2
        <5>2. h[t] = Top(g, t)
          BY <3>4, <4>2, <5>1
        <5>3. \A u \in SUBSET t : h[u] = g[u]
          BY <4>2
        <5> HIDE DEF h
        <5> QED
          BY <5>2, <5>3 DEF OnTop
      <4> QED
        BY <4>1, <4>2
    <3> HIDE DEF h
    <3> QED
      BY <2>3, <3>5
  <2> QED
    BY <2>4, <2>5
<1>2. Has(D)
  <2> HIDE DEF Has
  <2> QED
    BY <1>1
<1>3. PICK g : \A t \in SUBSET D : g[t] = Top(g, t)
  BY <1>2
<1> DEFINE h == [t \in SUBSET D |-> g[t]]
<1>4. h = [s \in SUBSET DOMAIN es |-> Top(h, s)]
  <2>1. ASSUME NEW s \in SUBSET D
        PROVE  g[s] = Top(h, s)
    <3>1. g[s] = Top(g, s)
      BY <1>3
    <3>2. h[s \ {Max(s)}] = g[s \ {Max(s)}]
      OBVIOUS
    <3> HIDE DEF h
    <3> QED
      BY <3>1, <3>2 DEF OnTop
  <2>2. h = [s \in SUBSET D |-> Top(h, s)]
    BY <2>1
  <2> QED
    BY <2>2
<1> HIDE DEF h
<1>5. Layers(es, gain, time) = [s \in SUBSET DOMAIN es |-> Top(Layers(es, gain, time), s)]
  BY <1>4 DEF Layers
<1> DEFINE f == Layers(es, gain, time)
<1>6. f = [s \in SUBSET D |-> Top(f, s)]
  BY <1>5
<1> HIDE DEF f
<1>7. \A s \in SUBSET D : f[s] = Top(f, s)
  BY <1>6
<1> QED
  BY <1>7 DEF f

(* What is claimed of the sum of some effects, for each set of their       *)
(* indices, holds of all of them if it holds of none and each effect on    *)
(* top of others makes it true of one more.                                *)
LEMMA AppliedBuilds ==
  ASSUME NEW n \in Nat, NEW es, DOMAIN es = 1..n, NEW gain, NEW time,
         NEW states, Silent \in states[{}],
         \A s \in SUBSET (1..n) : \A i \in s : \A p \in states[s \ {i}] :
           apply(p, es[i], gain, time) \in states[s]
  PROVE  Applied(es, gain, time) \in states[1..n]
<1> DEFINE D == 1..n
           f == Layers(es, gain, time)
           bad == {s \in SUBSET D : f[s] \notin states[s]}
<1>1. \A s \in SUBSET D : f[s] = OnTop(es, gain, time, f, s)
  BY LayersDefined
<1> HIDE DEF f
<1>2. bad = {}
  <2>1. SUFFICES ASSUME bad # {}
                 PROVE  FALSE
    OBVIOUS
  <2>2. PICK s \in bad : \A t \in bad : t \subseteq s => t = s
    <3>1. \A t \in bad : t \subseteq 1..n
      OBVIOUS
    <3> HIDE DEF bad
    <3> QED
      BY <2>1, <3>1, SmallestSet
  <2>3. s \in SUBSET D /\ f[s] \notin states[s] /\ f[s] = OnTop(es, gain, time, f, s)
    BY <1>1
  <2>4. s # {}
    BY <2>3 DEF OnTop
  <2>5. Max(s) \in s
    BY <2>3, <2>4, LastIndex
  <2>6. f[s \ {Max(s)}] \in states[s \ {Max(s)}]
    BY <2>2, <2>3, <2>5
  <2>7. f[s] = apply(f[s \ {Max(s)}], es[Max(s)], gain, time)
    BY <2>3, <2>4 DEF OnTop
  <2> QED
    BY <2>3, <2>5, <2>6, <2>7
<1>3. f[D] \in states[D]
  BY <1>2
<1> QED
  BY <1>3, AppliedIsLayers DEF f

(* A set of wheel states that the empty state is in and that no effect     *)
(* leaves holds the sum of all effects.                                    *)
THEOREM AppliedStays ==
  ASSUME NEW n \in Nat, NEW es, DOMAIN es = 1..n, NEW gain, NEW time,
         NEW states, Silent \in states,
         \A p \in states, i \in 1..n : apply(p, es[i], gain, time) \in states
  PROVE  Applied(es, gain, time) \in states
<1> DEFINE always == [s \in SUBSET (1..n) |-> states]
<1>1. /\ always[{}] = states /\ always[1..n] = states
      /\ \A s \in SUBSET (1..n) : always[s] = states /\ \A i \in s : always[s \ {i}] = states
  OBVIOUS
<1> HIDE DEF always
<1>2. \A s \in SUBSET (1..n) : \A i \in s : \A p \in always[s \ {i}] :
        apply(p, es[i], gain, time) \in always[s]
  BY <1>1
<1>3. Silent \in always[{}]
  BY <1>1
<1>4. Applied(es, gain, time) \in always[1..n]
  BY <1>2, <1>3, AppliedBuilds
<1> QED
  BY <1>1, <1>4

(* A table with one effect in it.                                          *)
LEMMA AppliedOne ==
  ASSUME NEW es, DOMAIN es = 1..1, NEW gain, NEW time
  PROVE  Applied(es, gain, time) = apply(Silent, es[1], gain, time)
<1> DEFINE f == Layers(es, gain, time)
<1>1. \A s \in SUBSET (1..1) : f[s] = OnTop(es, gain, time, f, s)
  <2>1. PICK n \in Nat : n = 1
    OBVIOUS
  <2>2. DOMAIN es = 1..n
    BY <2>1
  <2>3. \A s \in SUBSET (1..n) : f[s] = OnTop(es, gain, time, f, s)
    BY <2>2, LayersDefined
  <2> QED
    BY <2>1, <2>3
<1>2. Applied(es, gain, time) = f[1..1]
  BY AppliedIsLayers
<1> HIDE DEF f
<1>3. f[{}] = Silent
  BY <1>1 DEF OnTop
<1>4. Max(1..1) = 1
  <2>1. Max(1..1) \in 1..1
    BY LastIndex
  <2> QED
    BY <2>1
<1>5. 1..1 # {} /\ (1..1) \ {1} = {}
  OBVIOUS
<1>6. f[1..1] = apply(f[{}], es[1], gain, time)
  BY <1>1, <1>4, <1>5 DEF OnTop
<1> QED
  BY <1>2, <1>3, <1>6

-----------------------------------------------------------------------------
(* The mix of a table of effects, of any length.                           *)

(* What does not depend on the effects: a mix is empty, or the sum of them *)
(* with or without an autocenter spring.                                   *)
LEMMA MixCases ==
  ASSUME NEW es, NEW gain, NEW center, NEW muted, NEW time
  PROVE  LET p == Applied(es, gain, time)
         IN  Mix(es, gain, center, muted, time)
               \in {Silent, p, [p EXCEPT !.autocenter = Autocenter(gain)]}
BY DEF Mix

LEMMA SilentFits == Silent \in WheelStates
BY DEF Silent, WheelStates, Autocenters, Springs, Dampers, Constants, Flag, Nibble, Byte, Nominal

(* Any number of effects with any parameters mix to a wheel state whose    *)
(* fields fit the bytes and nibbles that they travel in.                   *)
THEOREM MixFits ==
  ASSUME NEW n \in Nat, NEW es, DOMAIN es = 1..n, \A i \in 1..n : ProperEffect(es[i]),
         NEW gain \in Int, NEW center, NEW muted, NEW time \in Nat
  PROVE  Mix(es, gain, center, muted, time) \in WheelStates
<1>1. Silent \in WheelStates
  BY SilentFits
<1>2. \A p \in WheelStates, i \in 1..n : apply(p, es[i], gain, time) \in WheelStates
  BY ContributionFits
<1>3. Applied(es, gain, time) \in WheelStates
  BY <1>1, <1>2, AppliedStays
<1> DEFINE p == Applied(es, gain, time)
<1> HIDE DEF p
<1>4. [p EXCEPT !.autocenter = Autocenter(gain)] \in WheelStates
  BY <1>3, AutocenterFits DEF p
<1>5. Mix(es, gain, center, muted, time) \in {Silent, p, [p EXCEPT !.autocenter = Autocenter(gain)]}
  BY MixCases DEF p
<1> QED
  BY <1>1, <1>3, <1>4, <1>5 DEF p

(* The parts of a wheel state that effects have a hand in.                 *)
KindsOf(part) ==
  CASE part = "spring" -> {"spring"}
    [] part = "damper" -> Conditions \ {"spring"}
    [] OTHER           -> AllKinds \ Conditions

(* What an effect asks of the spring or the damper, and when it counts.    *)
SettingOf(part, e, gain) == IF part = "spring" THEN SpringOf(e, gain) ELSE DamperOf(e, gain)

CountsFor(part, e, time) == is_temporally_active(e, time) /\ e.kind \in KindsOf(part)

(* A spring or damper with the strongest setting of each field among some  *)
(* effects: none asks for more, and one asks for it unless it is zero.     *)
StrongestOf(q, part, es, s, gain, time) ==
  \A field \in DOMAIN q :
    /\ \A i \in s : CountsFor(part, es[i], time) => SettingOf(part, es[i], gain)[field] <= q[field]
    /\ \/ q[field] = 0
       \/ \E i \in s : CountsFor(part, es[i], time) /\ SettingOf(part, es[i], gain)[field] = q[field]

LEMMA PartFits ==
  ASSUME NEW p \in WheelStates, NEW part \in {"spring", "damper"}
  PROVE  /\ p[part] \in IF part = "spring" THEN Springs ELSE Dampers
         /\ DOMAIN p[part] = DOMAIN Silent[part]
         /\ \A field \in DOMAIN p[part] : p[part][field] \in Nat
<1>1. CASE part = "spring"
  BY <1>1 DEF WheelStates, Springs, Silent, Flag, Nibble, Byte
<1>2. CASE part = "damper"
  BY <1>2 DEF WheelStates, Dampers, Silent, Flag, Nibble, Byte
<1> QED
  BY <1>1, <1>2

LEMMA SettingFits ==
  ASSUME NEW part \in {"spring", "damper"}, NEW e, ProperEffect(e), e.kind \in KindsOf(part), NEW gain \in Int
  PROVE  /\ DOMAIN SettingOf(part, e, gain) = DOMAIN Silent[part]
         /\ \A field \in DOMAIN Silent[part] : SettingOf(part, e, gain)[field] \in Nat
<1>1. e.kind \in Conditions
  BY DEF KindsOf, Conditions
<1>2. CASE part = "spring"
  <2>1. SpringOf(e, gain) \in Springs
    BY <1>1, SpringFits
  <2> QED
    BY <1>2, <2>1 DEF SettingOf, Springs, Silent, Flag, Nibble, Byte
<1>3. CASE part = "damper"
  <2>1. DamperOf(e, gain) \in Dampers
    BY <1>1, DamperFits
  <2> QED
    BY <1>3, <2>1 DEF SettingOf, Dampers, Silent, Flag, Nibble, Byte
<1> QED
  BY <1>2, <1>3

(* An effect that does not count leaves the part alone; one that does      *)
(* raises its fields to what it asks for.                                  *)
LEMMA ContributionToPart ==
  ASSUME NEW p \in WheelStates, NEW part \in {"spring", "damper"}, NEW e, NEW gain, NEW time
  PROVE  apply(p, e, gain, time)[part]
           = IF CountsFor(part, e, time) THEN Strongest(p[part], SettingOf(part, e, gain)) ELSE p[part]
<1>0. DOMAIN p = {"autocenter", "spring", "damper", "constant"}
  BY DEF WheelStates
<1>1. CASE ~is_temporally_active(e, time)
  BY <1>1 DEF apply, CountsFor
<1>2. CASE is_temporally_active(e, time) /\ e.kind = "spring"
  <2>1. apply(p, e, gain, time) = [p EXCEPT !.spring = Strongest(p.spring, SpringOf(e, gain))]
    BY <1>2 DEF apply
  <2> QED
    BY <1>0, <1>2, <2>1 DEF CountsFor, KindsOf, SettingOf
<1>3. CASE is_temporally_active(e, time) /\ e.kind \in Conditions \ {"spring"}
  <2>1. apply(p, e, gain, time) = [p EXCEPT !.damper = Strongest(p.damper, DamperOf(e, gain))]
    BY <1>3 DEF apply
  <2> QED
    BY <1>0, <1>3, <2>1 DEF CountsFor, KindsOf, SettingOf
<1>4. CASE is_temporally_active(e, time) /\ e.kind \notin Conditions /\ e.kind # "spring"
  <2>1. apply(p, e, gain, time) = [p EXCEPT !.constant = AddForce(p.constant, compute_force(e, time, gain))]
    BY <1>4 DEF apply
  <2>2. ~CountsFor(part, e, time)
    BY <1>4 DEF CountsFor, KindsOf
  <2> QED
    BY <1>0, <2>1, <2>2
<1> QED
  BY <1>1, <1>2, <1>3, <1>4

(* Of all springs, or of all dampers, in a table of any length the mix has *)
(* the strongest setting of each field.                                    *)
LEMMA AppliedIsStrongest ==
  ASSUME NEW n \in Nat, NEW es, DOMAIN es = 1..n, \A i \in 1..n : ProperEffect(es[i]),
         NEW gain \in Int, NEW time \in Nat, NEW part \in {"spring", "damper"}
  PROVE  /\ Applied(es, gain, time) \in WheelStates
         /\ StrongestOf(Applied(es, gain, time)[part], part, es, 1..n, gain, time)
<1> DEFINE states == [s \in SUBSET (1..n) |-> {p \in WheelStates : StrongestOf(p[part], part, es, s, gain, time)}]
<1>1. Silent \in states[{}]
  <2>1. \A field \in DOMAIN Silent[part] : Silent[part][field] = 0
    BY DEF Silent
  <2>2. StrongestOf(Silent[part], part, es, {}, gain, time)
    BY <2>1 DEF StrongestOf
  <2> QED
    BY <2>2, SilentFits
<1>2. ASSUME NEW s \in SUBSET (1..n), NEW i \in s, NEW p \in states[s \ {i}]
      PROVE  apply(p, es[i], gain, time) \in states[s]
  <2> DEFINE r == apply(p, es[i], gain, time)
             old == p[part]
             new == r[part]
             e == es[i]
             mine == SettingOf(part, e, gain)
             rest == s \ {i}
  <2>1. p \in WheelStates /\ StrongestOf(old, part, es, rest, gain, time) /\ ProperEffect(e)
    OBVIOUS
  <2>2. r \in WheelStates
    BY <2>1, ContributionFits
  <2>3. new = IF CountsFor(part, e, time) THEN Strongest(old, mine) ELSE old
    BY <2>1, ContributionToPart
  <2>4. DOMAIN old = DOMAIN Silent[part] /\ \A field \in DOMAIN old : old[field] \in Nat
    BY <2>1, PartFits
  <2>5. CountsFor(part, e, time) => \A field \in DOMAIN old : mine[field] \in Nat
    BY <2>1, <2>4, SettingFits DEF CountsFor
  <2>6. \A j \in s : j = i \/ j \in rest
    OBVIOUS
  <2> HIDE DEF r
  <2>7. StrongestOf(new, part, es, s, gain, time)
    <3>1. CASE ~CountsFor(part, e, time)
      BY <2>1, <2>3, <2>6, <3>1 DEF StrongestOf
    <3>2. CASE CountsFor(part, e, time)
      <4> DEFINE asks(j, field) == SettingOf(part, es[j], gain)[field]
                 counts(j) == CountsFor(part, es[j], time)
      <4>1. DOMAIN new = DOMAIN old /\ \A field \in DOMAIN old : new[field] = Larger(old[field], mine[field])
        BY <2>3, <3>2 DEF Strongest
      <4>2. ASSUME NEW field \in DOMAIN old, NEW j \in s, counts(j)
            PROVE  asks(j, field) <= new[field]
        <5>1. old[field] \in Nat /\ mine[field] \in Nat /\ new[field] = Larger(old[field], mine[field])
          BY <2>4, <2>5, <3>2, <4>1
        <5>2. CASE j = i
          BY <5>1, <5>2 DEF Larger
        <5>3. CASE j \in rest
          <6>1. asks(j, field) <= old[field]
            BY <2>1, <4>2, <5>3 DEF StrongestOf
          <6>2. asks(j, field) \in Nat
            <7>1. ProperEffect(es[j]) /\ es[j].kind \in KindsOf(part)
              BY <4>2 DEF CountsFor
            <7> QED
              BY <2>4, <7>1, SettingFits
          <6> HIDE DEF asks, old, mine, new
          <6> QED
            BY <5>1, <6>1, <6>2 DEF Larger
        <5> QED
          BY <2>6, <5>2, <5>3
      <4>3. ASSUME NEW field \in DOMAIN old
            PROVE  new[field] = 0 \/ \E j \in s : counts(j) /\ asks(j, field) = new[field]
        <5>1. new[field] = mine[field] \/ new[field] = old[field]
          BY <4>1 DEF Larger
        <5>2. CASE new[field] = mine[field]
          BY <3>2, <5>2
        <5>3. CASE new[field] = old[field]
          BY <2>1, <5>3 DEF StrongestOf
        <5> QED
          BY <5>1, <5>2, <5>3
      <4> QED
        BY <4>1, <4>2, <4>3 DEF StrongestOf
    <3> QED
      BY <3>1, <3>2
  <2> QED
    BY <2>2, <2>7 DEF r
<1> HIDE DEF states
<1>3. Applied(es, gain, time) \in states[1..n]
  BY <1>1, <1>2, AppliedBuilds
<1> QED
  BY <1>3 DEF states

(* The order of the table does not matter to springs and dampers, nor does *)
(* an effect that is in it twice: two tables with the same effects in them *)
(* mix to the same spring and the same damper.                             *)
THEOREM OrderIsNotFelt ==
  ASSUME NEW n \in Nat, NEW es, DOMAIN es = 1..n, \A i \in 1..n : ProperEffect(es[i]),
         NEW m \in Nat, NEW fs, DOMAIN fs = 1..m, \A j \in 1..m : ProperEffect(fs[j]),
         {es[i] : i \in 1..n} = {fs[j] : j \in 1..m},
         NEW gain \in Int, NEW time \in Nat
  PROVE  /\ Applied(es, gain, time).spring = Applied(fs, gain, time).spring
         /\ Applied(es, gain, time).damper = Applied(fs, gain, time).damper
<1> DEFINE p == Applied(es, gain, time)
           q == Applied(fs, gain, time)
<1>1. ASSUME NEW part \in {"spring", "damper"}
      PROVE  p[part] = q[part]
  <2>1. /\ p \in WheelStates /\ StrongestOf(p[part], part, es, 1..n, gain, time)
        /\ q \in WheelStates /\ StrongestOf(q[part], part, fs, 1..m, gain, time)
    BY AppliedIsStrongest
  <2> HIDE DEF p, q
  <2> DEFINE a == p[part]
             b == q[part]
  <2>2. /\ DOMAIN a = DOMAIN Silent[part] /\ DOMAIN b = DOMAIN Silent[part]
        /\ \A field \in DOMAIN Silent[part] : a[field] \in Nat /\ b[field] \in Nat
    BY <2>1, PartFits
  <2>3. (\A i \in 1..n : \E j \in 1..m : es[i] = fs[j]) /\ (\A j \in 1..m : \E i \in 1..n : fs[j] = es[i])
    OBVIOUS
  <2>4. ASSUME NEW field \in DOMAIN Silent[part]
        PROVE  a[field] = b[field]
    <3>1. a[field] <= b[field]
      <4>1. CASE a[field] = 0
        BY <2>2, <4>1
      <4>2. ASSUME NEW i \in 1..n, CountsFor(part, es[i], time), SettingOf(part, es[i], gain)[field] = a[field]
            PROVE  a[field] <= b[field]
        <5>1. PICK j \in 1..m : fs[j] = es[i]
          BY <2>3
        <5>2. SettingOf(part, fs[j], gain)[field] <= b[field]
          BY <2>1, <2>2, <4>2, <5>1 DEF StrongestOf
        <5> QED
          BY <4>2, <5>1, <5>2
      <4>3. a[field] = 0 \/ \E i \in 1..n : CountsFor(part, es[i], time) /\ SettingOf(part, es[i], gain)[field] = a[field]
        BY <2>1, <2>2 DEF StrongestOf
      <4> QED
        BY <4>1, <4>2, <4>3
    <3>2. b[field] <= a[field]
      <4>1. CASE b[field] = 0
        BY <2>2, <4>1
      <4>2. ASSUME NEW j \in 1..m, CountsFor(part, fs[j], time), SettingOf(part, fs[j], gain)[field] = b[field]
            PROVE  b[field] <= a[field]
        <5>1. PICK i \in 1..n : es[i] = fs[j]
          BY <2>3
        <5>2. SettingOf(part, es[i], gain)[field] <= a[field]
          BY <2>1, <2>2, <4>2, <5>1 DEF StrongestOf
        <5> QED
          BY <4>2, <5>1, <5>2
      <4>3. b[field] = 0 \/ \E j \in 1..m : CountsFor(part, fs[j], time) /\ SettingOf(part, fs[j], gain)[field] = b[field]
        BY <2>1, <2>2 DEF StrongestOf
      <4> QED
        BY <4>1, <4>2, <4>3
    <3> HIDE DEF a, b
    <3> QED
      BY <2>2, <3>1, <3>2
  <2>5. a = b
    <3>1. CASE part = "spring"
      <4>1. a \in Springs /\ b \in Springs
        BY <2>1, <3>1, PartFits
      <4> HIDE DEF a, b
      <4> QED
        BY <2>2, <2>4, <4>1 DEF Springs
    <3>2. CASE part = "damper"
      <4>1. a \in Dampers /\ b \in Dampers
        BY <2>1, <3>2, PartFits
      <4> HIDE DEF a, b
      <4> QED
        BY <2>2, <2>4, <4>1 DEF Dampers
    <3> QED
      BY <3>1, <3>2
  <2> QED
    BY <2>5
<1> QED
  BY <1>1

(* One effect switches on no part but the one of its kind, and that only   *)
(* while it is active.                                                     *)
LEMMA ContributionIsOwn ==
  ASSUME NEW p \in WheelStates, NEW e, ProperEffect(e), NEW gain \in Int, NEW time \in Nat,
         NEW part \in {"spring", "damper", "constant"},
         apply(p, e, gain, time)[part].on = 1
  PROVE  p[part].on = 1 \/ (is_temporally_active(e, time) /\ e.kind \in KindsOf(part))
<1> SUFFICES ASSUME p[part].on # 1
             PROVE  is_temporally_active(e, time) /\ e.kind \in KindsOf(part)
  OBVIOUS
<1>0. DOMAIN p = {"autocenter", "spring", "damper", "constant"}
  BY DEF WheelStates
<1>1. is_temporally_active(e, time)
  BY DEF apply
<1>2. CASE e.kind = "spring"
  <2>1. apply(p, e, gain, time) = [p EXCEPT !.spring = Strongest(p.spring, SpringOf(e, gain))]
    BY <1>1, <1>2 DEF apply
  <2>2. part = "spring"
    BY <1>0, <2>1
  <2> QED
    BY <1>1, <1>2, <2>2 DEF KindsOf
<1>3. CASE e.kind # "spring" /\ e.kind \in Conditions
  <2>1. apply(p, e, gain, time) = [p EXCEPT !.damper = Strongest(p.damper, DamperOf(e, gain))]
    BY <1>1, <1>3 DEF apply
  <2>2. part = "damper"
    BY <1>0, <2>1
  <2> QED
    BY <1>1, <1>3, <2>2 DEF KindsOf
<1>4. CASE e.kind \notin Conditions
  <2>1. apply(p, e, gain, time) = [p EXCEPT !.constant = AddForce(p.constant, compute_force(e, time, gain))]
    BY <1>1, <1>4 DEF apply, Conditions
  <2>2. part = "constant"
    BY <1>0, <2>1
  <2> QED
    BY <1>1, <1>4, <2>2 DEF KindsOf, ProperEffect
<1> QED
  BY <1>2, <1>3, <1>4

(* Every part of a wheel state that is on has an active effect behind it.  *)
BackedBy(p, es, time) ==
  \A part \in {"spring", "damper", "constant"} :
    p[part].on = 1 => \E i \in DOMAIN es : is_temporally_active(es[i], time) /\ es[i].kind \in KindsOf(part)

(* No spring, damper or force comes of a mix without an active effect of   *)
(* its kind in it.                                                         *)
THEOREM MixIsBacked ==
  ASSUME NEW n \in Nat, NEW es, DOMAIN es = 1..n, \A i \in 1..n : ProperEffect(es[i]),
         NEW gain \in Int, NEW center, NEW muted, NEW time \in Nat
  PROVE  BackedBy(Mix(es, gain, center, muted, time), es, time)
<1> SUFFICES ASSUME NEW part \in {"spring", "damper", "constant"},
                    Mix(es, gain, center, muted, time)[part].on = 1
             PROVE  \E i \in 1..n : is_temporally_active(es[i], time) /\ es[i].kind \in KindsOf(part)
  BY DEF BackedBy
<1> DEFINE backed == \E i \in 1..n : is_temporally_active(es[i], time) /\ es[i].kind \in KindsOf(part)
           states == {p \in WheelStates : p[part].on = 1 => backed}
           p == Applied(es, gain, time)
<1>1. Silent \in WheelStates /\ Silent[part].on = 0
  BY SilentFits DEF Silent
<1>2. Silent \in states
  BY <1>1
<1>3. ASSUME NEW q \in states, NEW i \in 1..n
      PROVE  apply(q, es[i], gain, time) \in states
  <2>1. apply(q, es[i], gain, time) \in WheelStates
    BY <1>3, ContributionFits
  <2>2. ASSUME apply(q, es[i], gain, time)[part].on = 1
        PROVE  backed
    <3>1. q[part].on = 1 \/ (is_temporally_active(es[i], time) /\ es[i].kind \in KindsOf(part))
      BY <2>2, ContributionIsOwn
    <3> QED
      BY <3>1
  <2> QED
    BY <2>1, <2>2
<1> HIDE DEF states
<1>4. p \in states
  BY <1>2, <1>3, AppliedStays
<1> HIDE DEF p
<1>5. p \in WheelStates /\ (p[part].on = 1 => backed)
  BY <1>4 DEF states
<1>6. Mix(es, gain, center, muted, time) \in {Silent, p, [p EXCEPT !.autocenter = Autocenter(gain)]}
  BY MixCases DEF p
<1>7. [p EXCEPT !.autocenter = Autocenter(gain)][part] = p[part]
  BY <1>5 DEF WheelStates
<1> QED
  BY <1>1, <1>5, <1>6, <1>7

(* The force of one effect alone is not changed by mixing, nor does it come *)
(* of anything but a force.                                                *)
LEMMA MixOfOne ==
  ASSUME NEW es, DOMAIN es = 1..1, ProperEffect(es[1]),
         NEW gain \in Int, NEW center, NEW muted, NEW time \in Nat,
         Mix(es, gain, center, muted, time).constant.on = 1
  PROVE  /\ es[1].kind \notin Conditions
         /\ Mix(es, gain, center, muted, time).constant.magnitude = compute_force(es[1], time, gain)
<1> DEFINE p == Applied(es, gain, time)
           m == Mix(es, gain, center, muted, time)
           e == es[1]
           force == compute_force(e, time, gain)
<1>1. p = apply(Silent, e, gain, time)
  BY AppliedOne
<1>2. Silent \in WheelStates /\ Silent.constant = [on |-> 0, magnitude |-> 0]
  BY SilentFits DEF Silent
<1>3. p \in WheelStates
  BY <1>1, <1>2, ContributionFits
<1> HIDE DEF p
<1>4. m \in {Silent, p, [p EXCEPT !.autocenter = Autocenter(gain)]}
  BY MixCases DEF p
<1>5. [p EXCEPT !.autocenter = Autocenter(gain)].constant = p.constant
  BY <1>3 DEF WheelStates
<1> HIDE DEF m
<1>6. m.constant = p.constant /\ p.constant.on = 1
  <2>1. m.constant.on = 1
    BY DEF m
  <2>2. m # Silent
    BY <1>2, <2>1
  <2> DEFINE q == [p EXCEPT !.autocenter = Autocenter(gain)]
  <2> HIDE DEF q
  <2>3. m = p \/ m = q
    BY <1>4, <2>2 DEF q
  <2>4. m.constant = p.constant
    BY <1>5, <2>3 DEF q
  <2> QED
    BY <2>1, <2>4
<1>7. is_temporally_active(e, time) /\ e.kind \in KindsOf("constant")
  BY <1>1, <1>2, <1>6, ContributionIsOwn
<1>8. e.kind \notin Conditions
  BY <1>7 DEF KindsOf
<1>9. p = [Silent EXCEPT !.constant = AddForce(Silent.constant, force)]
  BY <1>1, <1>7, <1>8 DEF apply, Conditions
<1>10. p.constant = AddForce([on |-> 0, magnitude |-> 0], force)
  BY <1>2, <1>9 DEF WheelStates
<1>11. force \in Int /\ Absolute(force) <= Nominal
  BY <1>8, ForceOnlyWeakens
<1> HIDE DEF force
<1>12. p.constant.magnitude = force
  BY <1>6, <1>10, <1>11 DEF AddForce, Clamp, Absolute, Nominal
<1> QED
  BY <1>6, <1>8, <1>12 DEF m, force
=============================================================================
