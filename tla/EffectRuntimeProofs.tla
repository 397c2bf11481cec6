------------------------ MODULE EffectRuntimeProofs ------------------------
(***************************************************************************)
(* What EffectRuntime promises, for any effects, parameters, capacity,     *)
(* interval and sequence of calls.  When the mix is taken, of what, and    *)
(* what is remembered of it is proved without expanding it; what it can    *)
(* put on the wheel comes from the theorems of ForceMixProofs.             *)
(***************************************************************************)
EXTENDS EffectRuntime, ForceMixProofs, SequenceTheorems, TLAPS

AllFlags == {"EMPTY", "STOPPED", "PAUSED", "ACTUATORSON", "ACTUATORSOFF", "POWERON"}

(* The memory in full: both of its flags are one, and without them nothing *)
(* of this device is on the wheel.                                         *)
MemoryInv ==
  /\ proxy.have_last_payload <=> proxy.last_sent_has_state
  /\ proxy.have_last_payload => sent = proxy.last_payload /\ sent # Silent
  /\ ~proxy.have_last_payload /\ ~inherited => sent = Silent

(* An effect that is no more is not started, and one that is has a kind.   *)
LivesInv ==
  \A e \in Effects : /\ refs[e] = 0 => fx[e] = NoEffect
                     /\ refs[e] # 0 => fx[e].kind \in Kinds

(* A poll rebuilds, or finds a rebuild that is young enough.               *)
PollInv ==
  /\ last_periodic_rebuild <= asOf
  /\ polled /\ ~due /\ has_active_time_varying_effect => now - asOf < Interval

IInv == TypeOK /\ MemoryInv /\ FlagsTellTruth /\ TableSound /\ LivesInv /\ SentIsMix /\ PollInv

-----------------------------------------------------------------------------
(* Effects.                                                                *)

(* The constructor makes a well-typed effect that is not started.          *)
LEMMA NewIsOK ==
  ASSUME NEW k \in AllKinds, now \in Nat
  PROVE  EffectOK(NewEffect(k)) /\ NewEffect(k).kind = k /\ ~NewEffect(k).started
BY DEF EffectOK, NewEffect, INFINITE

LEMMA NoneIsOK ==
  ASSUME now \in Nat
  PROVE  EffectOK(NoEffect) /\ NoEffect.kind = "none" /\ ~NoEffect.started
<1>1. "constant" \in AllKinds
  BY DEF AllKinds
<1>2. EffectOK(NewEffect("constant"))
  BY <1>1, NewIsOK
<1>3. DOMAIN NoEffect = DOMAIN NewEffect("constant") /\ NoEffect.kind = "none" /\ NoEffect.params = NewEffect("constant").params
  BY DEF NoEffect, NewEffect
<1>4. /\ NoEffect.started = FALSE /\ NoEffect.iterations = 1 /\ NoEffect.since = 0
  BY DEF NoEffect, NewEffect
<1>5. DOMAIN NoEffect = {"kind", "started", "iterations", "since", "params"}
  BY <1>2, <1>3 DEF EffectOK
<1>6. NoEffect.kind \in AllKinds \cup {"none"} /\ NoEffect.started \in BOOLEAN
  BY <1>3, <1>4
<1>7. NoEffect.iterations \in (Nat \ {0}) \cup {INFINITE} /\ NoEffect.since \in Nat /\ NoEffect.since <= now
  BY <1>4
<1>8. NoEffect.params.delay \in Nat /\ NoEffect.params.duration \in Nat \cup {INFINITE}
  BY <1>2, <1>3 DEF EffectOK
<1> QED
  BY <1>3, <1>4, <1>5, <1>6, <1>7, <1>8 DEF EffectOK

(* Stopping an effect keeps everything but its being started.              *)
LEMMA StoppedIsOK ==
  ASSUME NEW x, EffectOK(x)
  PROVE  /\ EffectOK(force_stop_runtime(x)) /\ ~force_stop_runtime(x).started
         /\ force_stop_runtime(x).kind = x.kind /\ force_stop_runtime(x).params = x.params
BY DEF EffectOK, force_stop_runtime

(* A rebuild stops an effect or leaves it as it is.                        *)
LEMMA RefreshedIsOK ==
  ASSUME NEW x, EffectOK(x)
  PROVE  /\ EffectOK(refresh_runtime(x))
         /\ refresh_runtime(x).kind = x.kind /\ refresh_runtime(x).params = x.params
         /\ refresh_runtime(x).started => x.started
         /\ ~has_expired(x, now) => refresh_runtime(x) = x
<1>1. CASE has_expired(x, now)
  BY <1>1, StoppedIsOK DEF refresh_runtime
<1>2. CASE ~has_expired(x, now)
  BY <1>2 DEF refresh_runtime
<1> QED
  BY <1>1, <1>2

(* What SetParameters makes of an effect is an effect of the same kind; it *)
(* is started if it was, and only a constant force starts unasked.         *)
LEMMA SetIsOK ==
  ASSUME NEW k \in Kinds, NEW o \in Offers[k], NEW start \in {"no", "restart", "norestart"},
         now \in Nat, NEW x, EffectOK(x), x.kind = k
  PROVE  LET y == AfterSet(x, o, start)
         IN  /\ EffectOK(y) /\ y.kind = x.kind /\ y.iterations = x.iterations
             /\ x.started => y.started
             /\ y.since \in {x.since, now}
             /\ start = "no" /\ x.kind # "constant" => y.started = x.started
<1> DEFINE params  == [p \in ParamFields |-> IF p \in DOMAIN o THEN o[p] ELSE x.params[p]]
           started == [x EXCEPT !.started = @ \/ start # "no", !.since = IF start = "restart" THEN now ELSE @]
           pushes  == x.kind = "constant" /\ params.typed.magnitude # 0
           y == AfterSet(x, o, start)
<1>1. params.delay \in Nat /\ params.duration \in Nat \cup {INFINITE}
  BY OffersAssumption DEF EffectOK, ParamFields
<1>2. /\ DOMAIN started = DOMAIN x /\ started.kind = x.kind /\ started.iterations = x.iterations
      /\ started.started = (x.started \/ start # "no")
      /\ started.since = IF start = "restart" THEN now ELSE x.since
  BY DEF EffectOK
<1>3. y = [started EXCEPT !.params = params, !.started = @ \/ pushes, !.since = IF pushes /\ @ = 0 THEN now ELSE @]
  BY DEF AfterSet
<1>4. pushes \in BOOLEAN /\ (x.kind # "constant" => ~pushes)
  OBVIOUS
<1> HIDE DEF params, started, pushes, y
<1>5. /\ DOMAIN y = DOMAIN x /\ y.kind = x.kind /\ y.iterations = x.iterations /\ y.params = params
      /\ y.started = (x.started \/ start # "no" \/ pushes)
      /\ y.since \in {started.since, now}
  BY <1>2, <1>3 DEF EffectOK
<1>6. y.since \in {x.since, now} /\ y.started \in BOOLEAN
  BY <1>2, <1>4, <1>5 DEF EffectOK
<1>7. EffectOK(y)
  BY <1>1, <1>5, <1>6 DEF EffectOK
<1>8. y = AfterSet(x, o, start)
  BY DEF y
<1> QED
  BY <1>4, <1>5, <1>6, <1>7, <1>8 DEF EffectOK

-----------------------------------------------------------------------------
(* Sending and stopping.                                                   *)

(* After a send the memory is true, the flags are, and the wheel state     *)
(* sent is the one asked for, unless an old device's is still there.       *)
LEMMA SendIsTrue ==
  ASSUME MemoryInv, inherited \in BOOLEAN,
         NEW p, NEW flags, flags \subseteq AllFlags, Send(p, flags)
  PROVE  /\ MemoryInv' /\ FlagsTellTruth' /\ inherited' \in BOOLEAN
         /\ ff_state' \subseteq AllFlags
         /\ DOMAIN proxy' = {"have_last_payload", "last_payload", "last_sent_has_state"}
         /\ Muted(ff_state') = Muted(flags)
         /\ ~inherited' => sent' = p
<1>1. CASE p = Silent
  <2>1. /\ proxy' = Forgotten /\ ff_state' = flags \cup {"EMPTY", "STOPPED"}
        /\ ~inherited' => sent' = Silent
        /\ inherited' \in BOOLEAN
    BY <1>1 DEF Send, MemoryInv
  <2>2. /\ ~proxy'.have_last_payload /\ ~proxy'.last_sent_has_state
        /\ DOMAIN proxy' = {"have_last_payload", "last_payload", "last_sent_has_state"}
    BY <2>1 DEF Forgotten
  <2> QED
    BY <1>1, <2>1, <2>2 DEF MemoryInv, FlagsTellTruth, AllFlags, Muted
<1>2. CASE p # Silent
  <2>1. /\ proxy' = [have_last_payload |-> TRUE, last_payload |-> p, last_sent_has_state |-> TRUE]
        /\ ff_state' = flags \ {"EMPTY", "STOPPED"}
        /\ inherited' \in BOOLEAN
    BY <1>2 DEF Send
  <2>2. sent' = p
    BY <1>2 DEF Send, MemoryInv
  <2> QED
    BY <1>2, <2>1, <2>2 DEF MemoryInv, FlagsTellTruth, AllFlags, Muted
<1> QED
  BY <1>1, <1>2

(* After a stop the device remembers nothing and the wheel has nothing.    *)
LEMMA StopIsTrue ==
  ASSUME NEW flags, flags \subseteq AllFlags, StopAndForget(flags),
         "STOPPED" \in flags <=> "EMPTY" \in flags,
         "STOPPED" \notin flags => "ACTUATORSOFF" \in flags
  PROVE  /\ MemoryInv' /\ FlagsTellTruth' /\ due' /\ due' \in BOOLEAN /\ inherited' \in BOOLEAN
         /\ ff_state' \subseteq AllFlags
         /\ DOMAIN proxy' = {"have_last_payload", "last_payload", "last_sent_has_state"}
         /\ UNCHANGED <<asOf, mixed>>
<1>1. ~proxy'.have_last_payload /\ ~proxy'.last_sent_has_state
  BY DEF StopAndForget, Forgotten
<1> QED
  BY <1>1 DEF StopAndForget, Forgotten, MemoryInv, FlagsTellTruth

-----------------------------------------------------------------------------
(* The table.                                                              *)

LEMMA Entries ==
  ASSUME NEW tab \in Seq(Effects)
  PROVE  /\ Len(tab) \in Nat /\ DOMAIN tab = 1..Len(tab)
         /\ \A i \in 1..Len(tab) : tab[i] \in Effects
BY LenProperties, ElementOfSeq

(* A function on 1..n is a sequence of length n.                           *)
LEMMA Listing ==
  ASSUME NEW n \in Nat, NEW s, s \in [1..n -> Effects]
  PROVE  s \in Seq(Effects) /\ Len(s) = n
<1>1. s \in Seq(Effects)
  BY SeqDef
<1>2. Len(s) \in Nat /\ DOMAIN s = 1..Len(s)
  BY <1>1, LenProperties
<1>3. 1..Len(s) = 1..n
  BY <1>2
<1>4. Len(s) = n
  BY <1>2, <1>3
<1> QED
  BY <1>1, <1>4

(* remove_effect takes out the entry of the effect and moves the others    *)
(* up: each keeps its place or gets the one before, in the same order.     *)
LEMMA WithoutIsShift ==
  ASSUME NEW tab \in Seq(Effects), NEW e \in Effects, InTable(e, tab),
         \A i, j \in DOMAIN tab : tab[i] = tab[j] => i = j
  PROVE  \E at \in 1..Len(tab) :
            /\ tab[at] = e
            /\ Without(tab, e) = [i \in 1..(Len(tab) - 1) |-> tab[IF i < at THEN i ELSE i + 1]]
<1>1. PICK k \in DOMAIN tab : tab[k] = e
  BY DEF InTable
<1>2. \A j \in 1..(k - 1) : tab[j] # e
  BY <1>1, Entries
<1> DEFINE first(i) == tab[i] = e /\ \A j \in 1..(i - 1) : tab[j] # e
           at == CHOOSE i \in DOMAIN tab : first(i)
<1>3. at \in DOMAIN tab /\ first(at)
  <2>1. \E i \in DOMAIN tab : first(i)
    BY <1>1, <1>2
  <2> QED
    BY <2>1
<1>4. Without(tab, e) = [i \in 1..(Len(tab) - 1) |-> tab[IF i < at THEN i ELSE i + 1]]
  BY DEF Without
<1>5. at \in 1..Len(tab) /\ tab[at] = e
  BY <1>3, Entries
<1> HIDE DEF at
<1> QED
  BY <1>4, <1>5

(* After a remove_effect the table is sound and no longer holds the effect, *)
(* and it holds no effect that it has not held before.                     *)
LEMMA WithoutIsSound ==
  ASSUME NEW tab \in Seq(Effects), NEW e \in Effects,
         \A i, j \in DOMAIN tab : tab[i] = tab[j] => i = j
  PROVE  LET new == Without(tab, e)
         IN  /\ new \in Seq(Effects) /\ Len(new) <= Len(tab)
             /\ \A i \in DOMAIN new : InTable(new[i], tab) /\ new[i] # e
             /\ \A i, j \in DOMAIN new : new[i] = new[j] => i = j
<1> DEFINE new == Without(tab, e)
<1>0. Len(tab) \in Nat /\ DOMAIN tab = 1..Len(tab) /\ \A i \in 1..Len(tab) : tab[i] \in Effects
  BY Entries
<1>1. CASE ~InTable(e, tab)
  <2>1. new = tab
    BY <1>1 DEF Without
  <2> QED
    BY <1>0, <1>1, <2>1 DEF InTable
<1>2. CASE InTable(e, tab)
  <2>1. PICK at \in 1..Len(tab) :
           /\ tab[at] = e
           /\ new = [i \in 1..(Len(tab) - 1) |-> tab[IF i < at THEN i ELSE i + 1]]
    BY <1>2, WithoutIsShift
  <2> DEFINE from(i) == IF i < at THEN i ELSE i + 1
  <2>2. \A i \in 1..(Len(tab) - 1) : from(i) \in 1..Len(tab) /\ from(i) # at
    BY <1>0
  <2>3. \A i, j \in 1..(Len(tab) - 1) : from(i) = from(j) => i = j
    BY <1>0
  <2>4. Len(tab) - 1 \in Nat /\ \A i \in 1..(Len(tab) - 1) : new[i] = tab[from(i)]
    BY <1>0, <2>1
  <2> HIDE DEF new, from
  <2>5. DOMAIN new = 1..(Len(tab) - 1) /\ new \in [1..(Len(tab) - 1) -> Effects]
    <3>1. DOMAIN new = 1..(Len(tab) - 1) /\ new = [i \in 1..(Len(tab) - 1) |-> new[i]]
      BY <2>1
    <3>2. \A i \in 1..(Len(tab) - 1) : new[i] \in Effects
      BY <1>0, <2>2, <2>4
    <3> QED
      BY <3>1, <3>2
  <2>6. new \in Seq(Effects) /\ Len(new) = Len(tab) - 1
    BY <2>4, <2>5, Listing
  <2>7. \A i \in DOMAIN new : InTable(new[i], tab) /\ new[i] # e
    BY <1>0, <2>1, <2>2, <2>4, <2>5 DEF InTable
  <2>8. \A i, j \in DOMAIN new : new[i] = new[j] => i = j
    BY <1>0, <2>2, <2>3, <2>4, <2>5
  <2>9. new \in Seq(Effects) /\ Len(new) <= Len(tab)
    BY <1>0, <2>6
  <2>10. new = Without(tab, e)
    BY DEF new
  <2> QED
    BY <2>7, <2>8, <2>9, <2>10
<1> QED
  BY <1>1, <1>2

-----------------------------------------------------------------------------
(* A rebuild.  f and tab are the effects and the table it works on; the    *)
(* table after the call begins with tab.                                   *)

RebuildOf(f, tab, flags) ==
  /\ DOMAIN f = Effects /\ \A e \in Effects : EffectOK(f[e])
  /\ tab \in Seq(Effects) /\ flags \subseteq AllFlags
  /\ Rebuild(f, tab, ff_gain', autocenter', flags)
  /\ now' = now
  /\ Len(tab) <= Len(table') /\ \A i \in 1..Len(tab) : table'[i] = tab[i]

(* The effects after a rebuild are those of the call, or these stopped     *)
(* because they have expired.                                              *)
LEMMA RebuiltEffects ==
  ASSUME NEW f, NEW tab, NEW flags, RebuildOf(f, tab, flags), now \in Nat
  PROVE  /\ EffectsOK'
         /\ \A e \in Effects :
              /\ fx'[e].kind = f[e].kind /\ fx'[e].params = f[e].params
              /\ fx'[e].started => f[e].started
              /\ ~has_expired(f[e], now) => fx'[e] = f[e]
<1>1. fx' = Refreshed(f, tab) /\ DOMAIN fx' = Effects
  BY DEF RebuildOf, Rebuild, Refreshed
<1>2. ASSUME NEW e \in Effects
      PROVE  /\ EffectOK(fx'[e])
             /\ fx'[e].kind = f[e].kind /\ fx'[e].params = f[e].params
             /\ fx'[e].started => f[e].started
             /\ ~has_expired(f[e], now) => fx'[e] = f[e]
  <2>1. EffectOK(f[e])
    BY DEF RebuildOf
  <2>2. CASE fx'[e] = refresh_runtime(f[e])
    <3> DEFINE x == f[e]
    <3> HIDE DEF x
    <3>1. EffectOK(x) /\ fx'[e] = refresh_runtime(x)
      BY <2>1, <2>2 DEF x
    <3>2. /\ EffectOK(fx'[e])
          /\ fx'[e].kind = x.kind /\ fx'[e].params = x.params
          /\ fx'[e].started => x.started
          /\ ~has_expired(x, now) => fx'[e] = x
      BY <3>1, RefreshedIsOK
    <3> QED
      BY <3>2 DEF x
  <2>3. CASE fx'[e] = f[e]
    BY <2>1, <2>3
  <2> QED
    BY <1>1, <2>2, <2>3 DEF Refreshed
<1>3. now' = now
  BY DEF RebuildOf
<1>4. \A e \in Effects : EffectOK(fx[e])'
  BY <1>2, <1>3 DEF EffectOK
<1> QED
  BY <1>1, <1>2, <1>4 DEF EffectsOK

(* What has been sent after a rebuild is the mix of the table's beginning. *)
LEMMA RebuiltSends ==
  ASSUME NEW f, NEW tab, NEW flags, RebuildOf(f, tab, flags),
         MemoryInv, inherited \in BOOLEAN, Interval \in Nat \ {0},
         now \in Nat \ {0}, last_periodic_rebuild' \in Nat, last_periodic_rebuild' <= now
  PROVE  /\ MemoryInv' /\ FlagsTellTruth' /\ SentIsMix' /\ PollInv'
         /\ asOf' = now /\ mixed' = Len(tab) /\ due' = FALSE
         /\ inherited' \in BOOLEAN /\ ff_state' \subseteq AllFlags
         /\ DOMAIN proxy' = {"have_last_payload", "last_payload", "last_sent_has_state"}
<1> DEFINE p == Mix(Listed(Refreshed(f, tab), tab), ff_gain', autocenter', Muted(flags), now)
<1>1. fx' = Refreshed(f, tab) /\ Send(p, flags) /\ asOf' = now /\ mixed' = Len(tab) /\ due' = FALSE
  BY DEF RebuildOf, Rebuild
<1> HIDE DEF p
<1>2. /\ MemoryInv' /\ FlagsTellTruth' /\ inherited' \in BOOLEAN /\ ff_state' \subseteq AllFlags
      /\ DOMAIN proxy' = {"have_last_payload", "last_payload", "last_sent_has_state"}
      /\ Muted(ff_state') = Muted(flags)
      /\ ~inherited' => sent' = p
  BY <1>1, SendIsTrue DEF RebuildOf
<1>3. Listed(Refreshed(f, tab), tab) = MixedEffects'
  <2>1. DOMAIN tab = 1..Len(tab)
    BY Entries DEF RebuildOf
  <2> QED
    BY <1>1, <2>1 DEF Listed, MixedEffects, RebuildOf
<1>4. p = Mix(MixedEffects', ff_gain', autocenter', Muted(ff_state'), asOf')
  BY <1>1, <1>2, <1>3 DEF p
<1>5. SentIsMix'
  BY <1>2, <1>4 DEF SentIsMix, MixAt
<1>6. now' = now
  BY DEF RebuildOf
<1>7. PollInv'
  BY <1>1, <1>6 DEF PollInv
<1> QED
  BY <1>1, <1>2, <1>5, <1>7

-----------------------------------------------------------------------------
(* The calls of a game, by what they do to the table.                      *)

(* A rebuild does not touch an effect that does not exist.                 *)
LEMMA RebuiltLives ==
  ASSUME NEW f, NEW tab, NEW flags, RebuildOf(f, tab, flags), now \in Nat,
         \A e \in Effects : refs'[e] = 0 => f[e] = NoEffect,
         \A e \in Effects : refs'[e] # 0 => f[e].kind \in Kinds
  PROVE  LivesInv'
<1>1. ASSUME NEW e \in Effects, refs'[e] = 0
      PROVE  fx'[e] = NoEffect
  <2>1. ~has_expired(f[e], now)
    BY <1>1, NoneIsOK DEF has_expired
  <2> QED
    BY <1>1, <2>1, RebuiltEffects
<1>2. ASSUME NEW e \in Effects, refs'[e] # 0
      PROVE  fx'[e].kind \in Kinds
  BY <1>2, RebuiltEffects
<1> QED
  BY <1>1, <1>2 DEF LivesInv

(* Calls that leave the table and the references alone and rebuild.        *)
LEMMA CallKeeps ==
  ASSUME IInv, NEW f, NEW flags,
         DOMAIN f = Effects, \A e \in Effects : EffectOK(f[e]),
         \A e \in Effects : f[e].kind = fx[e].kind,
         \A e \in Effects : refs[e] = 0 => f[e] = fx[e],
         flags \subseteq AllFlags,
         Rebuild(f, table, ff_gain', autocenter', flags),
         UNCHANGED <<now, refs, table>>,
         last_periodic_rebuild' \in {last_periodic_rebuild, now},
         polled' \in BOOLEAN, ff_gain' \in 0..Nominal, autocenter' \in BOOLEAN
  PROVE  IInv'
<1>1. table \in Seq(Effects) /\ Len(table) \in Nat /\ mixed \in 0..Len(table) /\ Len(table) <= Capacity
  BY Entries DEF IInv, TypeOK, TableOK
<1>2. RebuildOf(f, table, flags)
  BY <1>1 DEF RebuildOf
<1>3. now \in Nat \ {0} /\ inherited \in BOOLEAN /\ last_periodic_rebuild' \in Nat /\ last_periodic_rebuild' <= now
  BY DEF IInv, TypeOK, CountersOK
<1>4. /\ MemoryInv' /\ FlagsTellTruth' /\ SentIsMix' /\ PollInv'
      /\ asOf' = now /\ mixed' = Len(table) /\ due' = FALSE
      /\ inherited' \in BOOLEAN /\ ff_state' \subseteq AllFlags
      /\ DOMAIN proxy' = {"have_last_payload", "last_payload", "last_sent_has_state"}
  BY <1>2, <1>3, BoundsAssumption, RebuiltSends DEF IInv
<1>5. EffectsOK'
  BY <1>2, <1>3, RebuiltEffects
<1>6. LivesInv'
  <2>1. \A e \in Effects : refs'[e] = 0 => f[e] = NoEffect
    BY DEF IInv, LivesInv
  <2>2. \A e \in Effects : refs'[e] # 0 => f[e].kind \in Kinds
    BY DEF IInv, LivesInv
  <2> QED
    BY <1>2, <1>3, <2>1, <2>2, RebuiltLives
<1>7. CountersOK'
  <2>1. now' \in Nat \ {0} /\ asOf' \in Nat \ {0} /\ asOf' <= now'
    BY <1>3, <1>4
  <2>2. last_periodic_rebuild' \in Nat /\ last_periodic_rebuild' <= now'
    BY <1>3
  <2>3. due' \in BOOLEAN /\ inherited' \in BOOLEAN /\ polled' \in BOOLEAN
    BY <1>4
  <2> QED
    BY <2>1, <2>2, <2>3 DEF CountersOK
<1>8. TableOK'
  BY <1>1, <1>4 DEF IInv, TypeOK, TableOK
<1>9. DeviceOK'
  BY <1>4 DEF DeviceOK, AllFlags
<1>10. TableSound'
  BY DEF IInv, TableSound, Exists
<1> QED
  BY <1>4, <1>5, <1>6, <1>7, <1>8, <1>9, <1>10 DEF IInv, TypeOK

(* Calls that stop the wheel past the mix; they leave each effect as it is *)
(* or stop it.                                                             *)
LEMMA StopKeeps ==
  ASSUME IInv, NEW flags, flags \subseteq AllFlags, StopAndForget(flags),
         "STOPPED" \in flags <=> "EMPTY" \in flags,
         "STOPPED" \notin flags => "ACTUATORSOFF" \in flags,
         fx' = fx \/ fx' = AllStopped,
         UNCHANGED <<now, refs, deviceVars, polled>>
  PROVE  IInv'
<1>1. /\ MemoryInv' /\ FlagsTellTruth' /\ due' /\ due' \in BOOLEAN /\ inherited' \in BOOLEAN
      /\ ff_state' \subseteq AllFlags
      /\ DOMAIN proxy' = {"have_last_payload", "last_payload", "last_sent_has_state"}
      /\ UNCHANGED <<asOf, mixed>>
  BY StopIsTrue
<1>2. ASSUME NEW e \in Effects
      PROVE  EffectOK(fx'[e]) /\ fx'[e].kind = fx[e].kind /\ (refs[e] = 0 => fx'[e] = fx[e])
  <2>1. EffectOK(fx[e])
    BY DEF IInv, TypeOK, EffectsOK
  <2>2. InTable(e, table) => refs[e] > 0
    BY DEF IInv, TableSound, InTable, Exists
  <2>3. fx'[e] = fx[e] \/ (InTable(e, table) /\ fx'[e] = force_stop_runtime(fx[e]))
    BY DEF AllStopped
  <2>4. refs[e] \in Nat
    BY BoundsAssumption DEF IInv, TypeOK, TableOK
  <2>5. CASE fx'[e] = fx[e]
    BY <2>1, <2>5
  <2>6. CASE InTable(e, table) /\ fx'[e] = force_stop_runtime(fx[e])
    <3> DEFINE x == fx[e]
    <3> HIDE DEF x
    <3>1. EffectOK(x) /\ fx'[e] = force_stop_runtime(x)
      BY <2>1, <2>6 DEF x
    <3>2. EffectOK(fx'[e]) /\ fx'[e].kind = x.kind
      BY <3>1, StoppedIsOK
    <3> QED
      BY <2>2, <2>4, <2>6, <3>2 DEF x
  <2> QED
    BY <2>3, <2>5, <2>6
<1>3. now' = now
  OBVIOUS
<1>4. EffectsOK'
  <2>1. \A e \in Effects : EffectOK(fx[e])'
    BY <1>2, <1>3 DEF EffectOK
  <2>2. DOMAIN fx' = Effects
    BY DEF AllStopped, IInv, TypeOK, EffectsOK
  <2> QED
    BY <2>1, <2>2 DEF EffectsOK
<1>5. LivesInv'
  BY <1>2 DEF IInv, LivesInv
<1>6. SentIsMix'
  BY <1>1 DEF SentIsMix
<1>7. PollInv'
  BY <1>1 DEF IInv, PollInv, deviceVars
<1>8. CountersOK' /\ TableOK' /\ DeviceOK' /\ TableSound'
  BY <1>1 DEF IInv, TypeOK, CountersOK, TableOK, DeviceOK, TableSound, Exists, deviceVars, AllFlags
<1> QED
  BY <1>1, <1>4, <1>5, <1>6, <1>7, <1>8 DEF IInv, TypeOK

(* A new effect enters at the end of the table, or not at all.             *)
LEMMA EnterKeepsTable ==
  ASSUME IInv, NEW e \in Effects, Enter(e)
  PROVE  /\ table \in Seq(Effects) /\ Len(table) \in Nat
         /\ table' \in Seq(Effects) /\ Len(table') <= Capacity
         /\ Len(table) <= Len(table') /\ \A i \in 1..Len(table) : table'[i] = table[i]
         /\ refs' \in [Effects -> 0..References]
         /\ refs[e] = 0 /\ refs'[e] = 1 /\ \A d \in Effects \ {e} : refs'[d] = refs[d]
         /\ ~InTable(e, table)
         /\ TableSound'
<1>0. /\ table \in Seq(Effects) /\ Len(table) \in Nat /\ Len(table) <= Capacity
      /\ DOMAIN table = 1..Len(table) /\ \A i \in 1..Len(table) : table[i] \in Effects
      /\ refs \in [Effects -> 0..References]
  BY Entries DEF IInv, TypeOK, TableOK
<1>1. /\ refs[e] = 0 /\ refs' = [refs EXCEPT ![e] = 1]
      /\ table' = IF Len(table) < Capacity THEN Append(table, e) ELSE table
  BY <1>0, BoundsAssumption DEF Enter, Exists
<1>2. ~InTable(e, table)
  BY <1>1 DEF IInv, TableSound, InTable, Exists
<1>3. /\ refs' \in [Effects -> 0..References]
      /\ refs'[e] = 1 /\ \A d \in Effects \ {e} : refs'[d] = refs[d]
  BY <1>0, <1>1, BoundsAssumption
<1>4. CASE Len(table) < Capacity
  <2>1. table' = Append(table, e)
    BY <1>1, <1>4
  <2>2. /\ table' \in Seq(Effects) /\ Len(table') = Len(table) + 1
        /\ \A i \in 1..Len(table) : table'[i] = table[i]
        /\ table'[Len(table) + 1] = e
    BY <1>0, <2>1, AppendProperties
  <2>3. DOMAIN table' = 1..(Len(table) + 1)
    BY <2>2, LenProperties
  <2>4. TableSound'
    <3>1. \A i \in DOMAIN table' : refs'[table'[i]] > 0
      BY <1>0, <1>1, <1>3, <2>2, <2>3 DEF IInv, TableSound, Exists
    <3>2. \A i \in 1..Len(table) : table[i] # e
      BY <1>0, <1>2 DEF InTable
    <3>3. \A i, j \in 1..Len(table) : table[i] = table[j] => i = j
      BY <1>0 DEF IInv, TableSound
    <3>4. ASSUME NEW i \in 1..(Len(table) + 1), NEW j \in 1..(Len(table) + 1), table'[i] = table'[j]
          PROVE  i = j
      <4>1. CASE i \in 1..Len(table) /\ j \in 1..Len(table)
        BY <2>2, <3>3, <3>4, <4>1
      <4>2. CASE i = Len(table) + 1 /\ j \in 1..Len(table)
        BY <2>2, <3>2, <3>4, <4>2
      <4>3. CASE i \in 1..Len(table) /\ j = Len(table) + 1
        BY <2>2, <3>2, <3>4, <4>3
      <4>4. i \in 1..Len(table) \/ i = Len(table) + 1
        BY <1>0
      <4>5. j \in 1..Len(table) \/ j = Len(table) + 1
        BY <1>0
      <4> QED
        BY <4>1, <4>2, <4>3, <4>4, <4>5
    <3> QED
      BY <2>3, <3>1, <3>4 DEF TableSound, Exists
  <2>5. Len(table') <= Capacity
    BY <1>0, <1>4, <2>2, BoundsAssumption
  <2> QED
    BY <1>0, <1>1, <1>2, <1>3, <2>2, <2>4, <2>5
<1>5. CASE ~(Len(table) < Capacity)
  <2>1. table' = table
    BY <1>1, <1>5
  <2>2. \A i \in DOMAIN table : refs[table[i]] > 0 /\ refs'[table[i]] > 0
    <3>1. \A i \in DOMAIN table : table[i] # e /\ refs[table[i]] > 0
      BY <1>2 DEF InTable, IInv, TableSound, Exists
    <3> QED
      BY <1>0, <1>3, <3>1
  <2>3. TableSound'
    BY <2>1, <2>2 DEF IInv, TableSound, Exists
  <2>4. /\ Len(table') <= Capacity /\ Len(table) <= Len(table')
        /\ \A i \in 1..Len(table) : table'[i] = table[i]
    BY <1>0, <2>1
  <2> QED
    BY <1>0, <1>1, <1>2, <1>3, <2>1, <2>3, <2>4
<1> QED
  BY <1>4, <1>5

LEMMA CreateKeeps ==
  ASSUME IInv, NEW e \in Effects, NEW k \in Kinds, CreateEffect(e, k)
  PROVE  IInv'
<1>1. Enter(e) /\ fx' = [fx EXCEPT ![e] = NewEffect(k)] /\ UNCHANGED sendVars
  BY DEF CreateEffect
<1>2. UNCHANGED <<now, ff_gain, autocenter, last_periodic_rebuild, polled>>
  BY <1>1 DEF Enter
<1>3. /\ table \in Seq(Effects) /\ Len(table) \in Nat
      /\ table' \in Seq(Effects) /\ Len(table') <= Capacity
      /\ Len(table) <= Len(table') /\ \A i \in 1..Len(table) : table'[i] = table[i]
      /\ refs' \in [Effects -> 0..References]
      /\ refs[e] = 0 /\ refs'[e] = 1 /\ \A d \in Effects \ {e} : refs'[d] = refs[d]
      /\ ~InTable(e, table)
      /\ TableSound'
  BY <1>1, EnterKeepsTable
<1>4. now \in Nat /\ now' = now
  BY <1>2 DEF IInv, TypeOK, CountersOK
<1>5. EffectOK(NewEffect(k)) /\ NewEffect(k).kind = k /\ ~NewEffect(k).started
  BY <1>4, KindsAssumption, NewIsOK
<1>6. /\ DOMAIN fx = Effects /\ DOMAIN fx' = Effects /\ fx'[e] = NewEffect(k)
      /\ \A d \in Effects \ {e} : fx'[d] = fx[d]
      /\ \A d \in Effects : EffectOK(fx[d])
  BY <1>1 DEF IInv, TypeOK, EffectsOK
<1>7. EffectsOK'
  <2>1. \A d \in Effects : EffectOK(fx'[d])
    BY <1>5, <1>6
  <2>2. \A d \in Effects : EffectOK(fx[d])'
    BY <1>4, <2>1 DEF EffectOK
  <2> QED
    BY <1>6, <2>2 DEF EffectsOK
<1>8. LivesInv'
  BY <1>3, <1>5, <1>6 DEF IInv, LivesInv
<1>9. mixed \in 0..Len(table) /\ mixed' = mixed
  BY <1>1 DEF IInv, TypeOK, TableOK, sendVars
<1>10. SentIsMix'
  <2>1. \A i \in 1..mixed : table[i] \in Effects \ {e} /\ table'[i] = table[i]
    BY <1>3, <1>9, Entries DEF InTable
  <2>2. MixedEffects' = MixedEffects
    BY <1>6, <1>9, <2>1 DEF MixedEffects
  <2> QED
    BY <1>1, <1>2, <2>2 DEF IInv, SentIsMix, MixAt, sendVars
<1>11. PollInv'
  <2>1. has_active_time_varying_effect' => has_active_time_varying_effect
    <3>1. ASSUME NEW i \in DOMAIN table', fx'[table'[i]].started, fx'[table'[i]].kind \in TimeVarying
          PROVE  has_active_time_varying_effect
      <4>1. table'[i] \in Effects /\ DOMAIN table' = 1..Len(table')
        BY <1>3, <3>1, Entries
      <4>2. table'[i] # e
        BY <1>5, <1>6, <3>1
      <4>3. i \in 1..Len(table)
        BY <1>1, <1>3, <4>1, <4>2, AppendProperties DEF Enter
      <4>4. DOMAIN table = 1..Len(table)
        BY <1>3, Entries
      <4> QED
        BY <1>3, <1>6, <3>1, <4>1, <4>2, <4>3, <4>4 DEF has_active_time_varying_effect
    <3> QED
      BY <3>1 DEF has_active_time_varying_effect
  <2> QED
    BY <1>1, <1>2, <2>1 DEF IInv, PollInv, sendVars
<1>12. CountersOK' /\ DeviceOK' /\ MemoryInv' /\ FlagsTellTruth'
  BY <1>1, <1>2 DEF IInv, TypeOK, CountersOK, DeviceOK, MemoryInv, FlagsTellTruth, sendVars
<1>13. TableOK'
  BY <1>3, <1>9 DEF TableOK
<1> QED
  BY <1>3, <1>7, <1>8, <1>10, <1>11, <1>12, <1>13 DEF IInv, TypeOK

LEMMA CreateWithKeeps ==
  ASSUME IInv, NEW e \in Effects, NEW k \in Kinds, NEW o \in Offers[k], CreateEffectWith(e, k, o)
  PROVE  IInv'
<1> DEFINE f == [fx EXCEPT ![e] = AfterSet(NewEffect(k), o, "no")]
<1>1. Enter(e) /\ Rebuild(f, table, ff_gain, autocenter, ff_state)
  BY DEF CreateEffectWith
<1>2. UNCHANGED <<now, ff_gain, autocenter, last_periodic_rebuild, polled>>
  BY <1>1 DEF Enter
<1>3. /\ table \in Seq(Effects) /\ Len(table) \in Nat
      /\ table' \in Seq(Effects) /\ Len(table') <= Capacity
      /\ Len(table) <= Len(table') /\ \A i \in 1..Len(table) : table'[i] = table[i]
      /\ refs' \in [Effects -> 0..References]
      /\ refs[e] = 0 /\ refs'[e] = 1 /\ \A d \in Effects \ {e} : refs'[d] = refs[d]
      /\ TableSound'
  BY <1>1, EnterKeepsTable
<1>4. /\ now \in Nat \ {0} /\ now' = now /\ inherited \in BOOLEAN
      /\ last_periodic_rebuild' \in Nat /\ last_periodic_rebuild' <= now
  BY <1>2 DEF IInv, TypeOK, CountersOK
<1>5. EffectOK(AfterSet(NewEffect(k), o, "no")) /\ AfterSet(NewEffect(k), o, "no").kind = k
  <2> DEFINE x == NewEffect(k)
  <2>1. EffectOK(x) /\ x.kind = k
    BY <1>4, KindsAssumption, NewIsOK
  <2> HIDE DEF x
  <2>2. EffectOK(AfterSet(x, o, "no")) /\ AfterSet(x, o, "no").kind = x.kind
    BY <1>4, <2>1, SetIsOK
  <2> QED
    BY <2>1, <2>2 DEF x
<1>6. /\ DOMAIN f = Effects /\ f[e] = AfterSet(NewEffect(k), o, "no")
      /\ \A d \in Effects \ {e} : f[d] = fx[d]
      /\ \A d \in Effects : EffectOK(fx[d])
  BY DEF IInv, TypeOK, EffectsOK
<1> HIDE DEF f
<1>7. RebuildOf(f, table, ff_state)
  <2>1. \A d \in Effects : EffectOK(f[d])
    BY <1>5, <1>6
  <2>2. ff_state \subseteq AllFlags
    BY DEF IInv, TypeOK, DeviceOK, AllFlags
  <2> QED
    BY <1>1, <1>2, <1>3, <1>6, <2>1, <2>2 DEF RebuildOf
<1>8. /\ MemoryInv' /\ FlagsTellTruth' /\ SentIsMix' /\ PollInv'
      /\ asOf' = now /\ mixed' = Len(table) /\ due' = FALSE
      /\ inherited' \in BOOLEAN /\ ff_state' \subseteq AllFlags
      /\ DOMAIN proxy' = {"have_last_payload", "last_payload", "last_sent_has_state"}
  BY <1>4, <1>7, BoundsAssumption, RebuiltSends DEF IInv
<1>9. EffectsOK'
  BY <1>4, <1>7, RebuiltEffects
<1>10. LivesInv'
  <2>1. \A d \in Effects : refs'[d] = 0 => f[d] = NoEffect
    BY <1>3, <1>6 DEF IInv, LivesInv
  <2>2. \A d \in Effects : refs'[d] # 0 => f[d].kind \in Kinds
    BY <1>3, <1>5, <1>6 DEF IInv, LivesInv
  <2> QED
    BY <1>4, <1>7, <2>1, <2>2, RebuiltLives
<1>11. CountersOK'
  <2>1. now' \in Nat \ {0} /\ asOf' \in Nat \ {0} /\ asOf' <= now'
    BY <1>4, <1>8
  <2>2. last_periodic_rebuild' \in Nat /\ last_periodic_rebuild' <= now'
    BY <1>4
  <2>3. due' \in BOOLEAN /\ inherited' \in BOOLEAN /\ polled' \in BOOLEAN
    BY <1>2, <1>8 DEF IInv, TypeOK, CountersOK
  <2> QED
    BY <2>1, <2>2, <2>3 DEF CountersOK
<1>12. TableOK' /\ DeviceOK'
  BY <1>2, <1>3, <1>8 DEF IInv, TypeOK, TableOK, DeviceOK, AllFlags
<1> QED
  BY <1>3, <1>8, <1>9, <1>10, <1>11, <1>12 DEF IInv, TypeOK

(* The last release of an effect takes it out of the table.                *)
LEMMA ReleaseKeeps ==
  ASSUME IInv, NEW e \in Effects, Release(e), ~(refs[e] > 1)
  PROVE  IInv'
<1> DEFINE f == [fx EXCEPT ![e] = NoEffect]
<1>1. /\ refs[e] > 0 /\ refs' = [refs EXCEPT ![e] = @ - 1]
      /\ table' = Without(table, e) /\ Rebuild(f, Without(table, e), ff_gain, autocenter, ff_state)
      /\ UNCHANGED <<now, ff_gain, autocenter, last_periodic_rebuild, polled>>
  BY DEF Release, Exists
<1>2. /\ now \in Nat \ {0} /\ now' = now /\ inherited \in BOOLEAN
      /\ last_periodic_rebuild' \in Nat /\ last_periodic_rebuild' <= now
  BY <1>1 DEF IInv, TypeOK, CountersOK
<1>3. /\ table \in Seq(Effects) /\ Len(table) \in Nat /\ Len(table) <= Capacity
      /\ refs \in [Effects -> 0..References]
  BY Entries DEF IInv, TypeOK, TableOK
<1>4. /\ refs' \in [Effects -> 0..References] /\ refs'[e] = 0
      /\ \A d \in Effects \ {e} : refs'[d] = refs[d]
  <2>1. refs[e] = 1
    BY <1>1, <1>3, BoundsAssumption
  <2> QED
    BY <1>1, <1>3, <2>1, BoundsAssumption
<1>5. /\ table' \in Seq(Effects) /\ Len(table') <= Len(table)
      /\ \A i \in DOMAIN table' : InTable(table'[i], table) /\ table'[i] # e
      /\ \A i, j \in DOMAIN table' : table'[i] = table'[j] => i = j
  BY <1>1, <1>3, WithoutIsSound DEF IInv, TableSound
<1>6. Len(table') \in Nat /\ Len(table') <= Capacity
  BY <1>3, <1>5, Entries, BoundsAssumption
<1>7. TableSound'
  <2>1. ASSUME NEW i \in DOMAIN table'
        PROVE  refs'[table'[i]] > 0
    <3>1. table'[i] \in Effects \ {e}
      BY <1>5, Entries
    <3>2. refs[table'[i]] > 0
      BY <1>5 DEF IInv, TableSound, InTable, Exists
    <3> QED
      BY <1>4, <3>1, <3>2
  <2> QED
    BY <1>5, <2>1 DEF TableSound, Exists
<1>8. /\ DOMAIN f = Effects /\ f[e] = NoEffect
      /\ \A d \in Effects \ {e} : f[d] = fx[d]
      /\ \A d \in Effects : EffectOK(fx[d])
  BY DEF IInv, TypeOK, EffectsOK
<1> HIDE DEF f
<1>9. RebuildOf(f, table', ff_state)
  <2>1. \A d \in Effects : EffectOK(f[d])
    BY <1>2, <1>8, NoneIsOK
  <2>2. ff_state \subseteq AllFlags
    BY DEF IInv, TypeOK, DeviceOK, AllFlags
  <2>3. Rebuild(f, table', ff_gain', autocenter', ff_state)
    BY <1>1
  <2> QED
    BY <1>2, <1>5, <1>6, <1>8, <2>1, <2>2, <2>3 DEF RebuildOf
<1>10. /\ MemoryInv' /\ FlagsTellTruth' /\ SentIsMix' /\ PollInv'
       /\ asOf' = now /\ mixed' = Len(table') /\ due' = FALSE
       /\ inherited' \in BOOLEAN /\ ff_state' \subseteq AllFlags
       /\ DOMAIN proxy' = {"have_last_payload", "last_payload", "last_sent_has_state"}
  BY <1>2, <1>9, BoundsAssumption, RebuiltSends DEF IInv
<1>11. EffectsOK'
  BY <1>2, <1>9, RebuiltEffects
<1>12. LivesInv'
  <2>1. \A d \in Effects : refs'[d] = 0 => f[d] = NoEffect
    BY <1>4, <1>8 DEF IInv, LivesInv
  <2>2. \A d \in Effects : refs'[d] # 0 => f[d].kind \in Kinds
    BY <1>4, <1>8 DEF IInv, LivesInv
  <2> QED
    BY <1>2, <1>9, <2>1, <2>2, RebuiltLives
<1>13. CountersOK'
  <2>1. now' \in Nat \ {0} /\ asOf' \in Nat \ {0} /\ asOf' <= now'
    BY <1>2, <1>10
  <2>2. last_periodic_rebuild' \in Nat /\ last_periodic_rebuild' <= now'
    BY <1>2
  <2>3. due' \in BOOLEAN /\ inherited' \in BOOLEAN /\ polled' \in BOOLEAN
    BY <1>1, <1>10 DEF IInv, TypeOK, CountersOK
  <2> QED
    BY <2>1, <2>2, <2>3 DEF CountersOK
<1>14. TableOK' /\ DeviceOK'
  BY <1>1, <1>4, <1>5, <1>6, <1>10 DEF IInv, TypeOK, TableOK, DeviceOK, AllFlags
<1> QED
  BY <1>7, <1>10, <1>11, <1>12, <1>13, <1>14 DEF IInv, TypeOK

(* References come and go without an effect on the wheel.                  *)
LEMMA ReferenceKeeps ==
  ASSUME IInv, NEW e \in Effects, refs[e] > 0, refs'[e] > 0,
         refs' \in [Effects -> 0..References], \A d \in Effects \ {e} : refs'[d] = refs[d],
         UNCHANGED <<now, fx, deviceVars, sendVars, polled>>
  PROVE  IInv'
<1>1. LivesInv'
  <2>1. \A d \in Effects : refs[d] = 0 <=> refs'[d] = 0
    BY BoundsAssumption DEF IInv, TypeOK, TableOK
  <2> QED
    BY <2>1 DEF IInv, LivesInv
<1>2. TableSound'
  <2>1. \A d \in Effects : refs[d] > 0 => refs'[d] > 0
    OBVIOUS
  <2>2. table \in Seq(Effects) /\ table' = table
    BY DEF IInv, TypeOK, TableOK, deviceVars
  <2>3. \A i \in DOMAIN table : table[i] \in Effects
    BY <2>2, Entries
  <2> QED
    BY <2>1, <2>2, <2>3 DEF IInv, TableSound, Exists
<1>3. EffectsOK'
  BY DEF IInv, TypeOK, EffectsOK, EffectOK
<1>4. TableOK'
  BY DEF IInv, TypeOK, TableOK, deviceVars, sendVars
<1>5. CountersOK' /\ DeviceOK' /\ MemoryInv' /\ FlagsTellTruth'
  BY DEF IInv, TypeOK, CountersOK, DeviceOK, MemoryInv, FlagsTellTruth, deviceVars, sendVars
<1>6. SentIsMix' /\ PollInv'
  BY DEF IInv, SentIsMix, MixAt, MixedEffects, PollInv, has_active_time_varying_effect, deviceVars, sendVars
<1> QED
  BY <1>1, <1>2, <1>3, <1>4, <1>5, <1>6 DEF IInv, TypeOK

-----------------------------------------------------------------------------
(* The invariant.                                                          *)

THEOREM InitHolds == Init => IInv
<1> SUFFICES ASSUME Init
             PROVE  IInv
  OBVIOUS
<1>1. table = <<>> /\ table \in Seq(Effects) /\ Len(table) = 0 /\ DOMAIN table = 1..0
  <2>1. table = <<>> /\ table \in Seq(Effects) /\ Len(<<>>) = 0
    BY EmptySeq DEF Init
  <2>2. Len(table) = 0
    BY <2>1
  <2> QED
    BY <2>1, <2>2, LenProperties
<1>2. EffectsOK
  BY NoneIsOK DEF Init, EffectsOK
<1>3. CountersOK
  <2>1. now = 1 /\ last_periodic_rebuild = 0 /\ asOf = 1
    BY DEF Init
  <2>2. polled \in BOOLEAN /\ due \in BOOLEAN /\ inherited \in BOOLEAN
    BY DEF Init
  <2> QED
    BY <2>1, <2>2 DEF CountersOK
<1>4. TableOK
  BY <1>1, BoundsAssumption DEF Init, TableOK
<1>5. DeviceOK
  BY DEF Init, DeviceOK, InitialFlags, Forgotten, Nominal
<1>6. MemoryInv /\ FlagsTellTruth
  BY DEF Init, MemoryInv, FlagsTellTruth, InitialFlags, Forgotten
<1>7. TableSound
  BY <1>1 DEF TableSound
<1>8. LivesInv
  BY DEF Init, LivesInv
<1>9. SentIsMix
  BY DEF Init, SentIsMix
<1>10. PollInv
  BY DEF Init, PollInv
<1> QED
  BY <1>2, <1>3, <1>4, <1>5, <1>6, <1>7, <1>8, <1>9, <1>10 DEF IInv, TypeOK

(* The calls that set, start or stop an effect, or set the device, and a   *)
(* poll.                                                                   *)
LEMMA EffectCallsKeep ==
  ASSUME IInv, NEW e \in Effects
  PROVE  /\ Stop(e) => IInv'
         /\ \A n \in Iterations : Start(e, n) => IInv'
         /\ \A k \in Kinds, start \in {"no", "restart", "norestart"} : \A o \in Offers[k] :
              fx[e].kind = k /\ SetParameters(e, o, start) => IInv'
<1>1. /\ DOMAIN fx = Effects /\ \A d \in Effects : EffectOK(fx[d])
      /\ now \in Nat /\ ff_state \subseteq AllFlags
      /\ polled \in BOOLEAN /\ ff_gain \in 0..Nominal /\ autocenter \in BOOLEAN
  BY DEF IInv, TypeOK, EffectsOK, CountersOK, DeviceOK, AllFlags
<1>2. ASSUME NEW x, EffectOK(x), x.kind = fx[e].kind, refs[e] > 0,
             RebuildAndSend([fx EXCEPT ![e] = x]),
             UNCHANGED <<now, refs, last_periodic_rebuild, polled>>
      PROVE  IInv'
  <2> DEFINE f == [fx EXCEPT ![e] = x]
  <2>1. /\ DOMAIN f = Effects /\ f[e] = x /\ \A d \in Effects \ {e} : f[d] = fx[d]
    BY <1>1
  <2>2. Rebuild(f, table, ff_gain', autocenter', ff_state) /\ UNCHANGED <<table, ff_gain, autocenter>>
    BY <1>2 DEF RebuildAndSend
  <2> HIDE DEF f
  <2>3. \A d \in Effects : EffectOK(f[d]) /\ f[d].kind = fx[d].kind
    BY <1>1, <1>2, <2>1
  <2>4. \A d \in Effects : refs[d] = 0 => f[d] = fx[d]
    BY <1>2, <2>1
  <2> QED
    BY <1>1, <1>2, <2>1, <2>2, <2>3, <2>4, CallKeeps
<1>3. ASSUME Stop(e)
      PROVE  IInv'
  <2> DEFINE x == fx[e]
  <2>1. EffectOK(x) /\ refs[e] > 0 /\ x.kind = fx[e].kind
    BY <1>1, <1>3 DEF Stop, Exists
  <2>2. RebuildAndSend([fx EXCEPT ![e] = force_stop_runtime(x)])
        /\ UNCHANGED <<now, refs, last_periodic_rebuild, polled>>
    BY <1>3 DEF Stop
  <2> HIDE DEF x
  <2>3. EffectOK(force_stop_runtime(x)) /\ force_stop_runtime(x).kind = fx[e].kind
    BY <2>1, StoppedIsOK
  <2> QED
    BY <1>2, <2>1, <2>2, <2>3
<1>4. ASSUME NEW n \in Iterations, Start(e, n)
      PROVE  IInv'
  <2> DEFINE x == [fx[e] EXCEPT !.started = TRUE, !.since = now, !.iterations = IF n = 0 THEN 1 ELSE n]
  <2>1. EffectOK(x) /\ x.kind = fx[e].kind
    <3>1. EffectOK(fx[e]) /\ (IF n = 0 THEN 1 ELSE n) \in (Nat \ {0}) \cup {INFINITE}
      BY <1>1, CallsAssumption
    <3>2. /\ DOMAIN x = DOMAIN fx[e] /\ x.kind = fx[e].kind /\ x.params = fx[e].params
          /\ x.started = TRUE /\ x.since = now /\ x.iterations = IF n = 0 THEN 1 ELSE n
      BY <3>1 DEF EffectOK
    <3> QED
      BY <1>1, <3>1, <3>2 DEF EffectOK
  <2>2. [fx EXCEPT ![e].started = TRUE, ![e].since = now, ![e].iterations = IF n = 0 THEN 1 ELSE n]
          = [fx EXCEPT ![e] = x]
    BY <1>1
  <2>3. /\ refs[e] > 0 /\ RebuildAndSend([fx EXCEPT ![e] = x])
        /\ UNCHANGED <<now, refs, last_periodic_rebuild, polled>>
    BY <1>4, <2>2 DEF Start, Exists
  <2> HIDE DEF x
  <2> QED
    BY <1>2, <2>1, <2>3
<1>5. ASSUME NEW k \in Kinds, NEW start \in {"no", "restart", "norestart"}, NEW o \in Offers[k],
             fx[e].kind = k, SetParameters(e, o, start)
      PROVE  IInv'
  <2> DEFINE x == fx[e]
             y == AfterSet(x, o, start)
  <2>1. EffectOK(x) /\ refs[e] > 0 /\ x.kind = k
    BY <1>1, <1>5 DEF SetParameters, Exists
  <2>2. RebuildAndSend([fx EXCEPT ![e] = y])
        /\ UNCHANGED <<now, refs, last_periodic_rebuild, polled>>
    BY <1>5 DEF SetParameters
  <2> HIDE DEF x
  <2>3. EffectOK(y) /\ y.kind = x.kind
    BY <1>1, <2>1, SetIsOK
  <2>4. y.kind = fx[e].kind
    BY <2>3 DEF x
  <2> HIDE DEF y
  <2> QED
    BY <1>2, <2>1, <2>2, <2>3, <2>4
<1> QED
  BY <1>3, <1>4, <1>5

LEMMA DeviceCallsKeep ==
  ASSUME IInv
  PROVE  /\ \A g \in Gains : SetGain(g) => IInv'
         /\ \A center \in Centers : SetAutocenter(center) => IInv'
         /\ Continue \/ ActuatorsOn => IInv'
         /\ Unacquire \/ StopAll \/ ActuatorsOff => IInv'
<1>1. /\ DOMAIN fx = Effects /\ \A d \in Effects : EffectOK(fx[d])
      /\ ff_state \subseteq AllFlags
      /\ polled \in BOOLEAN /\ ff_gain \in 0..Nominal /\ autocenter \in BOOLEAN
  BY DEF IInv, TypeOK, EffectsOK, CountersOK, DeviceOK, AllFlags
<1>2. ASSUME NEW flags, flags \subseteq AllFlags, Rebuild(fx, table, ff_gain', autocenter', flags),
             UNCHANGED <<now, refs, table, last_periodic_rebuild, polled>>,
             ff_gain' \in 0..Nominal, autocenter' \in BOOLEAN
      PROVE  IInv'
  BY <1>1, <1>2, CallKeeps
<1>3. ASSUME NEW g \in Gains, SetGain(g)
      PROVE  IInv'
  <2>1. Clamp(g, 0, Nominal) \in 0..Nominal
    BY CallsAssumption DEF Clamp, Nominal
  <2> QED
    BY <1>1, <1>2, <1>3, <2>1 DEF SetGain
<1>4. ASSUME NEW center \in Centers, SetAutocenter(center)
      PROVE  IInv'
  BY <1>1, <1>2, <1>4, CallsAssumption DEF SetAutocenter
<1>5. ASSUME Continue \/ ActuatorsOn
      PROVE  IInv'
  <2>1. /\ ff_state \ {"PAUSED"} \subseteq AllFlags
        /\ (ff_state \cup {"ACTUATORSON"}) \ {"ACTUATORSOFF"} \subseteq AllFlags
    BY <1>1 DEF AllFlags
  <2> QED
    BY <1>1, <1>2, <1>5, <2>1 DEF Continue, ActuatorsOn, deviceVars
<1>6. ASSUME Unacquire \/ StopAll \/ ActuatorsOff
      PROVE  IInv'
  <2> DEFINE unacquired == ff_state \cup {"STOPPED", "EMPTY"}
             stopped    == (ff_state \cup {"STOPPED", "EMPTY"}) \ {"PAUSED"}
             off        == (ff_state \cup {"ACTUATORSOFF"}) \ {"ACTUATORSON"}
  <2>1. unacquired \subseteq AllFlags /\ stopped \subseteq AllFlags /\ off \subseteq AllFlags
    BY <1>1 DEF AllFlags
  <2>2. "STOPPED" \in ff_state <=> "EMPTY" \in ff_state
    BY DEF IInv, FlagsTellTruth
  <2>3. UNCHANGED <<now, refs, deviceVars, polled>> /\ (fx' = fx \/ fx' = AllStopped)
    BY <1>6 DEF Unacquire, StopAll, ActuatorsOff
  <2>4. CASE Unacquire
    BY <2>1, <2>3, <2>4, StopKeeps DEF Unacquire
  <2>5. CASE StopAll
    BY <2>1, <2>3, <2>5, StopKeeps DEF StopAll
  <2>6. CASE ActuatorsOff
    <3>1. /\ "STOPPED" \in off <=> "EMPTY" \in off
          /\ "ACTUATORSOFF" \in off
      BY <2>2
    <3> QED
      BY <2>1, <2>3, <2>6, <3>1, StopKeeps DEF ActuatorsOff
  <2> QED
    BY <1>6, <2>4, <2>5, <2>6
<1> QED
  BY <1>3, <1>4, <1>5, <1>6

LEMMA PollKeeps ==
  ASSUME IInv, Poll
  PROVE  IInv'
<1>1. polled' = TRUE /\ UNCHANGED <<now, refs>>
  BY DEF Poll
<1>2. /\ DOMAIN fx = Effects /\ \A d \in Effects : EffectOK(fx[d])
      /\ ff_state \subseteq AllFlags /\ ff_gain \in 0..Nominal /\ autocenter \in BOOLEAN
  BY DEF IInv, TypeOK, EffectsOK, DeviceOK, AllFlags
<1>3. CASE RebuildAndSend(fx) /\ last_periodic_rebuild' = now
  BY <1>1, <1>2, <1>3, CallKeeps DEF RebuildAndSend
<1>4. CASE /\ ~has_active_time_varying_effect
              \/ ~(last_periodic_rebuild = 0 \/ now - last_periodic_rebuild >= Interval)
           /\ UNCHANGED <<fx, deviceVars, sendVars>>
  <2>1. UNCHANGED <<now, fx, refs, deviceVars, sendVars>>
    BY <1>1, <1>4
  <2>2. PollInv'
    <3>1. now \in Nat /\ asOf \in Nat /\ last_periodic_rebuild \in Nat /\ Interval \in Nat
      BY BoundsAssumption DEF IInv, TypeOK, CountersOK
    <3>2. has_active_time_varying_effect' <=> has_active_time_varying_effect
      BY <2>1 DEF has_active_time_varying_effect, deviceVars
    <3>3. has_active_time_varying_effect => now - asOf < Interval
      BY <1>4, <3>1 DEF IInv, PollInv
    <3> QED
      BY <2>1, <3>1, <3>2, <3>3 DEF IInv, PollInv, deviceVars, sendVars
  <2>3. EffectsOK' /\ TableOK' /\ DeviceOK'
    BY <2>1 DEF IInv, TypeOK, EffectsOK, EffectOK, TableOK, DeviceOK, deviceVars, sendVars
  <2>4. CountersOK'
    <3>1. polled' \in BOOLEAN
      BY <1>1
    <3> QED
      BY <2>1, <3>1 DEF IInv, TypeOK, CountersOK, deviceVars, sendVars
  <2>5. MemoryInv' /\ FlagsTellTruth' /\ TableSound' /\ LivesInv'
    BY <2>1 DEF IInv, MemoryInv, FlagsTellTruth, TableSound, Exists, LivesInv, deviceVars, sendVars
  <2>6. SentIsMix'
    BY <2>1 DEF IInv, SentIsMix, MixAt, MixedEffects, deviceVars, sendVars
  <2> QED
    BY <2>2, <2>3, <2>4, <2>5, <2>6 DEF IInv, TypeOK
<1> QED
  BY <1>3, <1>4 DEF Poll

(* The steps that leave the effects and the table alone and send nothing.  *)
LEMMA QuietKeeps ==
  ASSUME IInv, Pause \/ RecreateDevice \/ Tick \/ UNCHANGED vars
  PROVE  IInv'
<1>1. UNCHANGED <<fx, refs, table, sent, asOf, mixed>>
  BY DEF Pause, RecreateDevice, Tick, vars, deviceVars, sendVars
<1>2. /\ now \in Nat \ {0} /\ last_periodic_rebuild \in Nat /\ last_periodic_rebuild <= now
      /\ asOf \in Nat \ {0} /\ asOf <= now
      /\ polled \in BOOLEAN /\ due \in BOOLEAN /\ inherited \in BOOLEAN
  BY DEF IInv, TypeOK, CountersOK
<1>3. now' \in Nat /\ now <= now' /\ last_periodic_rebuild' \in {0, last_periodic_rebuild}
  BY <1>2 DEF Pause, RecreateDevice, Tick, vars, deviceVars, sendVars
<1>4. /\ polled' \in {FALSE, polled} /\ due' \in {TRUE, due}
      /\ inherited' \in {sent # Silent, inherited}
  BY DEF Pause, RecreateDevice, Tick, vars, deviceVars, sendVars
<1>5. EffectsOK'
  <2>1. \A e \in Effects : EffectOK(fx[e])'
    BY <1>1, <1>2, <1>3 DEF IInv, TypeOK, EffectsOK, EffectOK
  <2> QED
    BY <1>1, <2>1 DEF IInv, TypeOK, EffectsOK
<1>6. CountersOK'
  <2>1. now' \in Nat \ {0} /\ asOf' \in Nat \ {0} /\ asOf' <= now'
    BY <1>1, <1>2, <1>3
  <2>2. last_periodic_rebuild' \in Nat /\ last_periodic_rebuild' <= now'
    BY <1>2, <1>3
  <2>3. due' \in BOOLEAN /\ inherited' \in BOOLEAN /\ polled' \in BOOLEAN
    BY <1>2, <1>4
  <2> QED
    BY <2>1, <2>2, <2>3 DEF CountersOK
<1>7. TableOK' /\ TableSound' /\ LivesInv'
  BY <1>1 DEF IInv, TypeOK, TableOK, TableSound, Exists, LivesInv
<1>8. DeviceOK' /\ FlagsTellTruth' /\ MemoryInv'
  <2>1. CASE Pause
    BY <2>1 DEF Pause, IInv, TypeOK, DeviceOK, FlagsTellTruth, MemoryInv, deviceVars
  <2>2. CASE RecreateDevice
    <3>1. /\ ff_gain' = Nominal /\ autocenter' = TRUE /\ ff_state' = InitialFlags /\ proxy' = Forgotten
          /\ inherited' = (sent # Silent) /\ sent' = sent
      BY <2>2 DEF RecreateDevice
    <3>2. DeviceOK'
      BY <3>1 DEF DeviceOK, InitialFlags, Forgotten, Nominal
    <3>3. FlagsTellTruth'
      BY <3>1 DEF FlagsTellTruth, InitialFlags
    <3>4. ~proxy'.have_last_payload /\ ~proxy'.last_sent_has_state
      BY <3>1 DEF Forgotten
    <3>5. MemoryInv'
      BY <3>1, <3>4 DEF MemoryInv
    <3> QED
      BY <3>2, <3>3, <3>5
  <2>3. CASE Tick \/ UNCHANGED vars
    BY <2>3 DEF Tick, vars, IInv, TypeOK, DeviceOK, FlagsTellTruth, MemoryInv, deviceVars, sendVars
  <2> QED
    BY <2>1, <2>2, <2>3
<1>9. SentIsMix'
  <2>1. CASE Pause \/ RecreateDevice
    BY <2>1 DEF Pause, RecreateDevice, SentIsMix
  <2>2. CASE Tick \/ UNCHANGED vars
    <3>1. UNCHANGED <<fx, table, ff_gain, autocenter, ff_state, sent, asOf, mixed, due, inherited>>
      BY <2>2 DEF Tick, vars, deviceVars, sendVars
    <3> QED
      BY <3>1 DEF IInv, SentIsMix, MixAt, MixedEffects
  <2> QED
    BY <2>1, <2>2
<1>10. PollInv'
  <2>1. last_periodic_rebuild' <= asOf'
    BY <1>1, <1>2, <1>3 DEF IInv, PollInv
  <2>2. CASE Pause \/ RecreateDevice
    BY <2>1, <2>2 DEF Pause, RecreateDevice, PollInv
  <2>3. CASE Tick
    BY <2>1, <2>3 DEF Tick, PollInv
  <2>4. CASE UNCHANGED vars
    BY <2>4 DEF IInv, PollInv, has_active_time_varying_effect, vars, deviceVars, sendVars
  <2> QED
    BY <2>2, <2>3, <2>4
<1> QED
  BY <1>5, <1>6, <1>7, <1>8, <1>9, <1>10 DEF IInv, TypeOK

THEOREM StepHolds == IInv /\ [Next]_vars => IInv'
<1> SUFFICES ASSUME IInv, [Next]_vars
             PROVE  IInv'
  OBVIOUS
<1>1. refs \in [Effects -> 0..References] /\ References \in Nat
  BY BoundsAssumption DEF IInv, TypeOK, TableOK
<1>2. ASSUME NEW e \in Effects, NEW k \in Kinds, CreateEffect(e, k)
      PROVE  IInv'
  BY <1>2, CreateKeeps
<1>3. ASSUME NEW e \in Effects, NEW k \in Kinds, NEW o \in Offers[k], CreateEffectWith(e, k, o)
      PROVE  IInv'
  BY <1>3, CreateWithKeeps
<1>4. ASSUME NEW e \in Effects, Exists(e), NEW o \in Offers[fx[e].kind],
             NEW start \in {"no", "restart", "norestart"}, SetParameters(e, o, start)
      PROVE  IInv'
  <2>1. fx[e].kind \in Kinds
    BY <1>1, <1>4 DEF IInv, LivesInv, Exists
  <2>2. PICK k \in Kinds : k = fx[e].kind
    BY <2>1
  <2>3. o \in Offers[k]
    BY <1>4, <2>2
  <2> QED
    BY <1>4, <2>2, <2>3, EffectCallsKeep
<1>5. ASSUME NEW e \in Effects, (\E n \in Iterations : Start(e, n)) \/ Stop(e)
      PROVE  IInv'
  BY <1>5, EffectCallsKeep
<1>6. ASSUME NEW e \in Effects, AddRef(e)
      PROVE  IInv'
  <2>1. /\ refs[e] > 0 /\ refs' = [refs EXCEPT ![e] = @ + 1] /\ refs[e] < References
        /\ UNCHANGED <<now, fx, deviceVars, sendVars, polled>>
    BY <1>6 DEF AddRef, Exists
  <2>2. refs'[e] > 0 /\ refs' \in [Effects -> 0..References] /\ \A d \in Effects \ {e} : refs'[d] = refs[d]
    BY <1>1, <2>1
  <2> QED
    BY <2>1, <2>2, ReferenceKeeps
<1>7. ASSUME NEW e \in Effects, Release(e)
      PROVE  IInv'
  <2>1. CASE refs[e] > 1
    <3>1. /\ refs' = [refs EXCEPT ![e] = @ - 1]
          /\ UNCHANGED <<now, fx, deviceVars, sendVars, polled>>
      BY <1>7, <2>1 DEF Release, deviceVars
    <3>2. refs'[e] > 0 /\ refs' \in [Effects -> 0..References] /\ \A d \in Effects \ {e} : refs'[d] = refs[d]
      BY <1>1, <2>1, <3>1
    <3> QED
      BY <1>1, <2>1, <3>1, <3>2, ReferenceKeeps
  <2>2. CASE ~(refs[e] > 1)
    BY <1>7, <2>2, ReleaseKeeps
  <2> QED
    BY <2>1, <2>2
<1>8. ASSUME \/ \E g \in Gains : SetGain(g)
             \/ \E center \in Centers : SetAutocenter(center)
             \/ Continue \/ ActuatorsOn \/ Unacquire \/ StopAll \/ ActuatorsOff
      PROVE  IInv'
  BY <1>8, DeviceCallsKeep
<1>9. CASE Poll
  BY <1>9, PollKeeps
<1>10. CASE Pause \/ RecreateDevice \/ Tick \/ UNCHANGED vars
  BY <1>10, QuietKeeps
<1> QED
  BY <1>2, <1>3, <1>4, <1>5, <1>6, <1>7, <1>8, <1>9, <1>10 DEF Next

(* Every reachable state satisfies the invariant.                          *)
THEOREM Invariance == Spec => []IInv
BY InitHolds, StepHolds, PTL DEF Spec

(* Every reachable state is well typed: no table larger than its capacity, *)
(* no start time in the future, no rebuild that took in more than there is.*)
THEOREM TypeCorrect == Spec => []TypeOK
<1>1. IInv => TypeOK
  BY DEF IInv
<1> QED
  BY <1>1, Invariance, PTL

(* What a device remembers of its last send is true after any sequence of  *)
(* calls, so that the equal state it leaves out is one the wheel has.      *)
THEOREM MemoryTrue == Spec => []MemoryIsTrue
<1>1. IInv => MemoryIsTrue
  BY DEF IInv, MemoryInv, MemoryIsTrue
<1> QED
  BY <1>1, Invariance, PTL

(* The bridge has been sent the mix of the tracked effects as of the last  *)
(* rebuild, whatever has been left out as equal, stopped or released.      *)
THEOREM SentTrue == Spec => []SentIsMix
<1>1. IInv => SentIsMix
  BY DEF IInv
<1> QED
  BY <1>1, Invariance, PTL

(* The flags a game asks for say whether the wheel has been sent forces.   *)
THEOREM FlagsTrue == Spec => []FlagsTellTruth
<1>1. IInv => FlagsTellTruth
  BY DEF IInv
<1> QED
  BY <1>1, Invariance, PTL

(* The table never holds an effect twice, nor one that has been deleted.   *)
THEOREM TableTrue == Spec => []TableSound
<1>1. IInv => TableSound
  BY DEF IInv
<1> QED
  BY <1>1, Invariance, PTL

(* For any interval, a game that polls keeps a time-varying wheel state    *)
(* younger than the interval.                                              *)
THEOREM Fresh == Spec => []FreshWhenPolled
<1>1. IInv => FreshWhenPolled
  <2> SUFFICES ASSUME IInv, polled, ~due, ~inherited, has_active_time_varying_effect
               PROVE  \E t \in 1..now : now - t < Interval /\ sent = MixAt(t)
    BY DEF FreshWhenPolled
  <2>1. asOf \in 1..now
    BY DEF IInv, TypeOK, CountersOK
  <2>2. now - asOf < Interval /\ sent = MixAt(asOf)
    BY DEF IInv, PollInv, SentIsMix
  <2> QED
    BY <2>1, <2>2
<1> QED
  BY <1>1, Invariance, PTL

-----------------------------------------------------------------------------
(* What is on the wheel.  At a rebuild it is the mix of the table; between *)
(* rebuilds it stays, and so do the effects behind it, or it is stopped.   *)

(* The parameters of an effect are such as a game can give it.             *)
ProperParams(x) ==
  /\ x.params.gain \in Nat /\ x.params.direction.value \in Int
  /\ ProperEnvelope(x.params.envelope) /\ ProperTyped(x.kind, x.params.typed)

ParamsInv == \A e \in Effects : ProperParams(fx[e])

(* What a deleted device has left on the wheel is no effect's: at most its *)
(* autocenter spring.                                                      *)
RemainsInv ==
  inherited => sent.spring.on # 1 /\ sent.damper.on # 1 /\ sent.constant.on # 1

FeltInv == FitsTheWire /\ FeltIsHeld /\ GainsWeaken

WheelInv == ParamsInv /\ RemainsInv /\ FeltInv

LEMMA NewIsProper ==
  ASSUME NEW k \in AllKinds
  PROVE  ProperParams(NewEffect(k)) /\ ProperParams(NoEffect)
<1>1. ASSUME NEW q \in AllKinds
      PROVE  ProperParams(NewEffect(q))
  <2>1. ProperTyped(q, InitialTyped(q, DefaultPeriod))
    <3>1. CASE q \in Conditions
      BY <3>1 DEF ProperTyped, InitialTyped, Resting, Conditions, TimeVarying
    <3>2. CASE q \notin Conditions
      BY <3>2, BoundsAssumption DEF ProperTyped, InitialTyped, Conditions, TimeVarying, AllKinds, Nominal
    <3> QED
      BY <3>1, <3>2
  <2>2. ProperEnvelope(Flat)
    BY DEF ProperEnvelope, Flat, Whole
  <2> QED
    BY <2>1, <2>2 DEF ProperParams, NewEffect, Nominal
<1>2. ProperParams(NoEffect)
  <2> DEFINE c == NewEffect("constant")
  <2>1. ProperParams(c)
    BY <1>1 DEF AllKinds
  <2>2. NoEffect.kind = "none" /\ NoEffect.params = c.params
    BY DEF NoEffect, NewEffect
  <2>3. \A t : ProperTyped("none", t)
    BY DEF ProperTyped, TimeVarying, Conditions
  <2> QED
    BY <2>1, <2>2, <2>3 DEF ProperParams
<1> QED
  BY <1>1, <1>2

(* Whatever a call sets, in any combination, the parameters stay proper.   *)
LEMMA SetIsProper ==
  ASSUME NEW k \in Kinds, NEW o \in Offers[k], NEW start \in {"no", "restart", "norestart"},
         NEW x, EffectOK(x), x.kind = k, ProperParams(x)
  PROVE  ProperParams(AfterSet(x, o, start))
<1> DEFINE params  == [p \in ParamFields |-> IF p \in DOMAIN o THEN o[p] ELSE x.params[p]]
           y == AfterSet(x, o, start)
<1>1. /\ params.gain \in Nat /\ params.direction.value \in Int
      /\ ProperEnvelope(params.envelope) /\ ProperTyped(k, params.typed)
  <2>1. params.gain \in Nat
    BY OffersAssumption DEF ProperParams, ParamFields
  <2>2. params.direction.value \in Int
    BY OffersAssumption DEF ProperParams, ParamFields
  <2>3. ProperEnvelope(params.envelope)
    BY OffersAssumption DEF ProperParams, ParamFields
  <2>4. ProperTyped(k, params.typed)
    BY OffersAssumption DEF ProperParams, ParamFields
  <2> QED
    BY <2>1, <2>2, <2>3, <2>4
<1>2. y.params = params /\ y.kind = x.kind
  BY DEF AfterSet, EffectOK
<1> QED
  BY <1>1, <1>2 DEF ProperParams

(* The parameters after a rebuild are those of the call.                   *)
LEMMA RebuiltIsProper ==
  ASSUME NEW f, NEW tab, fx' = Refreshed(f, tab),
         \A e \in Effects : EffectOK(f[e]) /\ ProperParams(f[e])
  PROVE  ParamsInv'
<1>1. ASSUME NEW e \in Effects
      PROVE  ProperParams(fx'[e])
  <2> DEFINE x == f[e]
  <2>1. EffectOK(x) /\ ProperParams(x) /\ (fx'[e] = refresh_runtime(x) \/ fx'[e] = x)
    BY DEF Refreshed
  <2> HIDE DEF x
  <2>2. fx'[e].kind = x.kind /\ fx'[e].params = x.params
    BY <2>1, RefreshedIsOK
  <2> QED
    BY <2>1, <2>2 DEF ProperParams
<1> QED
  BY <1>1 DEF ParamsInv

LEMMA StepIsProper ==
  ASSUME IInv, ParamsInv, [Next]_vars
  PROVE  ParamsInv'
<1>1. /\ now \in Nat /\ DOMAIN fx = Effects
      /\ \A d \in Effects : EffectOK(fx[d]) /\ ProperParams(fx[d])
  BY DEF IInv, TypeOK, EffectsOK, CountersOK, ParamsInv
<1>2. ASSUME NEW e \in Effects, NEW x, EffectOK(x), ProperParams(x), NEW tab,
             fx' = Refreshed([fx EXCEPT ![e] = x], tab)
      PROVE  ParamsInv'
  <2> DEFINE f == [fx EXCEPT ![e] = x]
  <2>1. \A d \in Effects : EffectOK(f[d]) /\ ProperParams(f[d])
    BY <1>1, <1>2
  <2> HIDE DEF f
  <2>2. fx' = Refreshed(f, tab)
    BY <1>2 DEF f
  <2> QED
    BY <2>1, <2>2, RebuiltIsProper
<1>3. ASSUME NEW e \in Effects, NEW k \in Kinds, CreateEffect(e, k)
      PROVE  ParamsInv'
  <2>1. ProperParams(NewEffect(k))
    BY KindsAssumption, NewIsProper
  <2>2. fx' = [fx EXCEPT ![e] = NewEffect(k)]
    BY <1>3 DEF CreateEffect
  <2>3. \A d \in Effects : fx'[d] = fx[d] \/ fx'[d] = NewEffect(k)
    BY <1>1, <2>2
  <2> QED
    BY <1>1, <2>1, <2>3 DEF ParamsInv
<1>4. ASSUME NEW e \in Effects, NEW k \in Kinds, NEW o \in Offers[k], CreateEffectWith(e, k, o)
      PROVE  ParamsInv'
  <2> DEFINE x == NewEffect(k)
             y == AfterSet(x, o, "no")
  <2>1. EffectOK(x) /\ x.kind = k /\ ProperParams(x)
    BY <1>1, KindsAssumption, NewIsOK, NewIsProper
  <2>2. fx' = Refreshed([fx EXCEPT ![e] = y], table)
    BY <1>4 DEF CreateEffectWith, Rebuild
  <2> HIDE DEF x
  <2>3. EffectOK(y) /\ ProperParams(y)
    BY <1>1, <2>1, SetIsOK, SetIsProper
  <2> HIDE DEF y
  <2> QED
    BY <1>2, <2>2, <2>3
<1>5. ASSUME NEW e \in Effects, Exists(e), NEW o \in Offers[fx[e].kind],
             NEW start \in {"no", "restart", "norestart"}, SetParameters(e, o, start)
      PROVE  ParamsInv'
  <2> DEFINE x == fx[e]
             y == AfterSet(x, o, start)
  <2>1. EffectOK(x) /\ ProperParams(x) /\ x.kind \in Kinds
    BY <1>1, <1>5 DEF IInv, LivesInv, Exists
  <2>2. fx' = Refreshed([fx EXCEPT ![e] = y], table)
    BY <1>5 DEF SetParameters, RebuildAndSend, Rebuild
  <2> HIDE DEF x
  <2>3. PICK k \in Kinds : k = x.kind /\ o \in Offers[k]
    BY <1>5, <2>1 DEF x
  <2>4. EffectOK(y) /\ ProperParams(y)
    BY <1>1, <2>1, <2>3, SetIsOK, SetIsProper
  <2> HIDE DEF y
  <2> QED
    BY <1>2, <2>2, <2>4
<1>6. ASSUME NEW e \in Effects, NEW n \in Iterations, Start(e, n)
      PROVE  ParamsInv'
  <2> DEFINE x == [fx[e] EXCEPT !.started = TRUE, !.since = now, !.iterations = IF n = 0 THEN 1 ELSE n]
  <2>1. EffectOK(x) /\ ProperParams(x)
    <3>1. EffectOK(fx[e]) /\ ProperParams(fx[e]) /\ now \in Nat
          /\ (IF n = 0 THEN 1 ELSE n) \in (Nat \ {0}) \cup {INFINITE}
      BY <1>1, CallsAssumption
    <3>2. /\ DOMAIN x = DOMAIN fx[e] /\ x.kind = fx[e].kind /\ x.params = fx[e].params
          /\ x.started = TRUE /\ x.since = now /\ x.iterations = IF n = 0 THEN 1 ELSE n
      BY <3>1 DEF EffectOK
    <3>3. EffectOK(x)
      BY <1>1, <3>1, <3>2 DEF EffectOK
    <3> HIDE DEF x
    <3>4. ProperParams(x)
      BY <3>1, <3>2 DEF ProperParams
    <3> QED
      BY <3>3, <3>4
  <2>2. [fx EXCEPT ![e].started = TRUE, ![e].since = now, ![e].iterations = IF n = 0 THEN 1 ELSE n]
          = [fx EXCEPT ![e] = x]
    BY <1>1
  <2>3. fx' = Refreshed([fx EXCEPT ![e] = x], table)
    BY <1>6, <2>2 DEF Start, RebuildAndSend, Rebuild
  <2> HIDE DEF x
  <2> QED
    BY <1>2, <2>1, <2>3
<1>7. ASSUME NEW x, EffectOK(x), ProperParams(x)
      PROVE  EffectOK(force_stop_runtime(x)) /\ ProperParams(force_stop_runtime(x))
  BY <1>7, StoppedIsOK DEF ProperParams
<1>8. ASSUME NEW e \in Effects, Stop(e)
      PROVE  ParamsInv'
  <2> DEFINE x == fx[e]
             y == force_stop_runtime(x)
  <2>1. EffectOK(x) /\ ProperParams(x) /\ fx' = Refreshed([fx EXCEPT ![e] = y], table)
    BY <1>1, <1>8 DEF Stop, RebuildAndSend, Rebuild
  <2> HIDE DEF x
  <2>2. EffectOK(y) /\ ProperParams(y)
    BY <1>7, <2>1
  <2> HIDE DEF y
  <2> QED
    BY <1>2, <2>1, <2>2
<1>9. ASSUME NEW e \in Effects, Release(e), ~(refs[e] > 1)
      PROVE  ParamsInv'
  <2>1. fx' = Refreshed([fx EXCEPT ![e] = NoEffect], Without(table, e))
    BY <1>9 DEF Release, Rebuild
  <2>2. EffectOK(NoEffect) /\ ProperParams(NoEffect)
    <3>1. "constant" \in AllKinds
      BY DEF AllKinds
    <3> QED
      BY <1>1, <3>1, NoneIsOK, NewIsProper
  <2> QED
    BY <1>2, <2>1, <2>2
<1>10. ASSUME \/ \E g \in Gains : SetGain(g)
              \/ \E center \in Centers : SetAutocenter(center)
              \/ Continue \/ ActuatorsOn \/ (Poll /\ fx' # fx)
       PROVE  ParamsInv'
  <2>1. fx' = Refreshed(fx, table)
    BY <1>10 DEF SetGain, SetAutocenter, Continue, ActuatorsOn, Poll, RebuildAndSend, Rebuild
  <2> QED
    BY <1>1, <2>1, RebuiltIsProper
<1>11. CASE fx' = AllStopped
  <2>1. ASSUME NEW e \in Effects
        PROVE  ProperParams(fx'[e])
    <3> DEFINE x == fx[e]
    <3>1. EffectOK(x) /\ ProperParams(x) /\ (fx'[e] = force_stop_runtime(x) \/ fx'[e] = x)
      BY <1>1, <1>11 DEF AllStopped
    <3> HIDE DEF x
    <3> QED
      BY <1>7, <3>1
  <2> QED
    BY <2>1 DEF ParamsInv
<1>12. CASE fx' = fx
  BY <1>12 DEF ParamsInv
<1>13. ASSUME NEW e \in Effects, AddRef(e) \/ (Release(e) /\ refs[e] > 1)
       PROVE  fx' = fx
  BY <1>13 DEF AddRef, Release
<1>14. Unacquire \/ Pause \/ RecreateDevice \/ Tick \/ UNCHANGED vars => fx' = fx
  BY DEF Unacquire, Pause, RecreateDevice, Tick, vars
<1>15. StopAll \/ ActuatorsOff => fx' = AllStopped
  BY DEF StopAll, ActuatorsOff
<1> QED
  BY <1>3, <1>4, <1>5, <1>6, <1>8, <1>9, <1>10, <1>11, <1>12, <1>13, <1>14, <1>15 DEF Next

(* After a rebuild the wheel has the mix of proper effects, and what holds *)
(* of any such mix holds of it.                                            *)
LEMMA MixedIsFelt ==
  IInv /\ ParamsInv /\ ~due /\ ~inherited => FeltInv
<1> SUFFICES ASSUME IInv, ParamsInv, ~due, ~inherited
             PROVE  FeltInv
  OBVIOUS
<1> DEFINE es == MixedEffects
           muted == Muted(ff_state)
<1>1. /\ table \in Seq(Effects) /\ Len(table) \in Nat /\ DOMAIN table = 1..Len(table)
      /\ \A i \in 1..Len(table) : table[i] \in Effects
      /\ mixed \in Nat /\ mixed <= Len(table) /\ refs \in [Effects -> 0..References] /\ References \in Nat
  BY Entries, BoundsAssumption DEF IInv, TypeOK, TableOK
<1>2. DOMAIN es = 1..mixed /\ \A i \in 1..mixed : es[i] = fx[table[i]]
  BY DEF MixedEffects
<1>3. ASSUME NEW i \in 1..Len(table)
      PROVE  ProperEffect(fx[table[i]])
  <2>1. table[i] \in Effects /\ refs[table[i]] # 0
    BY <1>1 DEF IInv, TableSound, Exists
  <2> DEFINE x == fx[table[i]]
  <2>2. EffectOK(x) /\ ProperParams(x) /\ x.kind \in AllKinds
    BY <2>1, KindsAssumption DEF IInv, TypeOK, EffectsOK, LivesInv, ParamsInv
  <2> HIDE DEF x
  <2>3. x.params.gain \in Int
    BY <2>2 DEF ProperParams
  <2>4. /\ x.since \in Nat /\ x.iterations \in Nat \cup {INFINITE}
        /\ x.params.delay \in Nat /\ x.params.duration \in Nat \cup {INFINITE}
    BY <2>2 DEF EffectOK
  <2> QED
    BY <2>2, <2>3, <2>4 DEF x, ProperEffect, ProperParams
<1>4. \A i \in 1..mixed : ProperEffect(es[i])
  BY <1>1, <1>2, <1>3
<1>5. ff_gain \in Int /\ asOf \in Nat
  BY DEF IInv, TypeOK, CountersOK, DeviceOK, Nominal
<1>6. sent = Mix(es, ff_gain, autocenter, muted, asOf)
  BY DEF IInv, SentIsMix, MixAt
<1> HIDE DEF es, muted
<1>7. FitsTheWire
  BY <1>1, <1>2, <1>4, <1>5, <1>6, MixFits DEF FitsTheWire
<1>8. FeltIsHeld
  <2>1. BackedBy(sent, es, asOf)
    BY <1>1, <1>2, <1>4, <1>5, <1>6, MixIsBacked
  <2>2. ASSUME NEW part \in {"spring", "damper", "constant"}, sent[part].on = 1
        PROVE  Backed(KindsOf(part))
    <3>1. PICK i \in 1..mixed : is_temporally_active(es[i], asOf) /\ es[i].kind \in KindsOf(part)
      BY <1>2, <2>1, <2>2 DEF BackedBy
    <3>2. i \in DOMAIN table /\ fx[table[i]].started /\ fx[table[i]].kind \in KindsOf(part)
      BY <1>1, <1>2, <3>1 DEF is_temporally_active
    <3> QED
      BY <3>2 DEF Backed
  <2> QED
    BY <2>2 DEF FeltIsHeld, KindsOf
<1>9. GainsWeaken
  <2> SUFFICES ASSUME Len(table) = 1, mixed = 1, sent.constant.on = 1
               PROVE  Absolute(sent.constant.magnitude)
                        <= CombinedGainUnsigned(Strength(fx[table[1]]), fx[table[1]].params.gain, ff_gain)
    BY DEF GainsWeaken
  <2> DEFINE e == es[1]
             force == compute_force(e, asOf, ff_gain)
             raw == RawForce(e, ActiveElapsed(e, asOf))
             own == e.params.gain
  <2>1. DOMAIN es = 1..1 /\ ProperEffect(e) /\ e = fx[table[1]]
    BY <1>2, <1>4
  <2>2. e.kind \notin Conditions /\ sent.constant.magnitude = force
    BY <1>5, <1>6, <2>1, MixOfOne
  <2> HIDE DEF e
  <2>3. own \in Int
    BY <2>1 DEF ProperEffect
  <2>4. ActiveElapsed(e, asOf) \in Nat
    <3>1. e.since \in Nat /\ e.params.delay \in Nat
      BY <2>1 DEF ProperEffect
    <3> QED
      BY <1>5, <3>1 DEF ActiveElapsed, Larger
  <2>5. Strength(e) \in Nat /\ Absolute(raw) <= Strength(e) /\ raw \in Int
    BY <2>1, <2>2, <2>4, RawWithin
  <2>6. force \in Int /\ Absolute(force) <= CombinedGainUnsigned(Absolute(raw), own, ff_gain)
    BY <1>5, <2>1, <2>2, ForceOnlyWeakens
  <2> HIDE DEF force, raw, own
  <2> DEFINE f == Absolute(force)
             a == CombinedGainUnsigned(Absolute(raw), own, ff_gain)
             s == CombinedGainUnsigned(Strength(e), own, ff_gain)
  <2>7. f \in Nat /\ a \in Nat /\ s \in Nat /\ f <= a /\ a <= s
    <3>1. Absolute(raw) \in Nat /\ f \in Nat
      BY <2>5, <2>6, AbsoluteValue
    <3>2. Absolute(raw) \in 0..Strength(e)
      BY <2>5, <3>1
    <3> QED
      BY <1>5, <2>3, <2>5, <2>6, <3>1, <3>2, CombinedUnsigned
  <2> HIDE DEF f, a, s
  <2>8. f <= s
    BY <2>7
  <2> QED
    BY <2>1, <2>2, <2>8 DEF f, s, own
<1> QED
  BY <1>7, <1>8, <1>9 DEF FeltInv

LEMMA MixedIsFeltNext ==
  (IInv /\ ParamsInv /\ ~due /\ ~inherited)' => FeltInv'
BY MixedIsFelt, PTL


(* Three kinds of step, by what they make of the wheel: a rebuild, a stop, *)
(* and a step that leaves both the wheel and what it stands for.           *)
Rebuilds == ~due' /\ (inherited' => inherited /\ sent' = sent)

Stops == sent' = Silent /\ ~inherited'

LeavesWheel ==
  /\ sent' = sent /\ mixed' = mixed
  /\ ff_gain' = ff_gain \/ Len(table') = 0
  /\ inherited' => inherited \/ \A e \in Effects : refs[e] = 0
  /\ Len(table) <= Len(table')
  /\ \A i \in 1..Len(table) : table'[i] = table[i] /\ fx'[table[i]] = fx[table[i]]
  /\ DOMAIN table' = 1..Len(table')

LEMMA StepIsOneOfThree ==
  ASSUME IInv, IInv', [Next]_vars
  PROVE  Rebuilds \/ Stops \/ LeavesWheel
<1>1. /\ table \in Seq(Effects) /\ Len(table) \in Nat /\ DOMAIN table = 1..Len(table)
      /\ \A i \in 1..Len(table) : table[i] \in Effects /\ refs[table[i]] > 0
      /\ DOMAIN fx = Effects
  BY Entries DEF IInv, TypeOK, TableOK, TableSound, Exists, EffectsOK
<1>2. DOMAIN table' = 1..Len(table')
  <2>1. table' \in Seq(Effects)
    BY DEF IInv, TypeOK, TableOK
  <2> QED
    BY <2>1, Entries
<1>3. ASSUME NEW f, NEW tab, NEW gain, NEW center, NEW flags, Rebuild(f, tab, gain, center, flags)
      PROVE  Rebuilds
  BY <1>3 DEF Rebuild, Send, Rebuilds
<1>4. ASSUME NEW f, RebuildAndSend(f)
      PROVE  Rebuilds
  BY <1>3, <1>4 DEF RebuildAndSend
<1>5. ASSUME NEW flags, StopAndForget(flags)
      PROVE  Stops
  BY <1>5 DEF StopAndForget, Stops
<1>6. ASSUME fx' = fx, table' = table, sent' = sent, mixed' = mixed, ff_gain' = ff_gain \/ Len(table') = 0,
             inherited' => inherited \/ \A e \in Effects : refs[e] = 0
      PROVE  LeavesWheel
  BY <1>1, <1>2, <1>6 DEF LeavesWheel
<1>7. ASSUME NEW e \in Effects, NEW k \in Kinds, CreateEffect(e, k)
      PROVE  LeavesWheel
  <2>1. Enter(e) /\ fx' = [fx EXCEPT ![e] = NewEffect(k)] /\ UNCHANGED sendVars
    BY <1>7 DEF CreateEffect
  <2>2. /\ Len(table) <= Len(table') /\ \A i \in 1..Len(table) : table'[i] = table[i]
        /\ refs[e] = 0
    BY <2>1, EnterKeepsTable
  <2>3. \A i \in 1..Len(table) : fx'[table[i]] = fx[table[i]]
    BY <1>1, <2>1, <2>2
  <2> QED
    BY <1>2, <2>1, <2>2, <2>3 DEF LeavesWheel, Enter, sendVars
<1>8. ASSUME NEW e \in Effects, NEW k \in Kinds, NEW o \in Offers[k], CreateEffectWith(e, k, o)
      PROVE  Rebuilds
  BY <1>3, <1>8 DEF CreateEffectWith
<1>9. ASSUME NEW e \in Effects
      PROVE  /\ \A o, start : SetParameters(e, o, start) => Rebuilds
             /\ \A n \in Iterations : Start(e, n) => Rebuilds
             /\ Stop(e) => Rebuilds
  BY <1>4 DEF SetParameters, Start, Stop
<1>10. ASSUME NEW e \in Effects, AddRef(e)
       PROVE  LeavesWheel
  BY <1>6, <1>10 DEF AddRef, deviceVars, sendVars
<1>11. ASSUME NEW e \in Effects, Release(e)
       PROVE  Rebuilds \/ LeavesWheel
  <2>1. CASE refs[e] > 1
    BY <1>6, <1>11, <2>1 DEF Release, sendVars
  <2>2. CASE ~(refs[e] > 1)
    BY <1>3, <1>11, <2>2 DEF Release
  <2> QED
    BY <2>1, <2>2
<1>12. /\ \A g \in Gains : SetGain(g) => Rebuilds
       /\ \A center \in Centers : SetAutocenter(center) => Rebuilds
       /\ Continue \/ ActuatorsOn => Rebuilds
  BY <1>3 DEF SetGain, SetAutocenter, Continue, ActuatorsOn
<1>13. Unacquire \/ StopAll \/ ActuatorsOff => Stops
  BY <1>5 DEF Unacquire, StopAll, ActuatorsOff
<1>14. Poll => Rebuilds \/ LeavesWheel
  BY <1>4, <1>6 DEF Poll, deviceVars, sendVars
<1>15. Pause \/ Tick \/ UNCHANGED vars => LeavesWheel
  BY <1>6 DEF Pause, Tick, vars, deviceVars, sendVars
<1>16. RecreateDevice => LeavesWheel
  <2>1. RecreateDevice => \A e \in Effects : refs[e] = 0
    <3>1. refs \in [Effects -> 0..References] /\ References \in Nat
      BY BoundsAssumption DEF IInv, TypeOK, TableOK
    <3> QED
      BY <3>1 DEF RecreateDevice, Exists
  <2>2. RecreateDevice => Len(table) = 0
    BY <1>1, <2>1
  <2> QED
    BY <1>6, <2>1, <2>2 DEF RecreateDevice
<1> QED
  BY <1>7, <1>8, <1>9, <1>10, <1>11, <1>12, <1>13, <1>14, <1>15, <1>16 DEF Next

(* The wheel stays with effects that stay.                                 *)
LEMMA LeftIsFelt ==
  ASSUME IInv, WheelInv, LeavesWheel
  PROVE  RemainsInv' /\ FeltInv'
<1>1. /\ Len(table) \in Nat /\ DOMAIN table = 1..Len(table)
      /\ mixed \in Nat /\ mixed <= Len(table)
  BY Entries DEF IInv, TypeOK, TableOK
<1>2. ASSUME NEW kinds, Backed(kinds)
      PROVE  Backed(kinds)'
  <2>1. PICK i \in 1..Len(table) : fx[table[i]].started /\ fx[table[i]].kind \in kinds
    BY <1>1, <1>2 DEF Backed
  <2>2. fx'[table'[i]] = fx[table[i]]
    BY <2>1 DEF LeavesWheel
  <2>3. i \in DOMAIN table'
    <3>1. Len(table) <= Len(table') /\ DOMAIN table' = 1..Len(table')
      BY DEF LeavesWheel
    <3> QED
      BY <1>1, <2>1, <3>1
  <2> QED
    BY <2>1, <2>2, <2>3 DEF Backed
<1>3. FitsTheWire'
  BY DEF LeavesWheel, WheelInv, FeltInv, FitsTheWire
<1>4. FeltIsHeld'
  BY <1>2 DEF LeavesWheel, WheelInv, FeltInv, FeltIsHeld
<1>5. GainsWeaken'
  <2> SUFFICES ASSUME Len(table') = 1, mixed' = 1, sent'.constant.on = 1
               PROVE  Absolute(sent'.constant.magnitude)
                        <= CombinedGainUnsigned(Strength(fx'[table'[1]]), fx'[table'[1]].params.gain, ff_gain')
    BY DEF GainsWeaken
  <2>1. Len(table) = 1 /\ mixed = 1 /\ sent' = sent /\ ff_gain' = ff_gain
    BY <1>1 DEF LeavesWheel
  <2>2. fx'[table'[1]] = fx[table[1]]
    BY <2>1 DEF LeavesWheel
  <2> QED
    BY <2>1, <2>2 DEF WheelInv, FeltInv, GainsWeaken
<1>6. RemainsInv'
  <2>1. CASE inherited
    BY <2>1 DEF WheelInv, RemainsInv, LeavesWheel
  <2>2. CASE \A e \in Effects : refs[e] = 0
    <3>1. \A i \in DOMAIN table : FALSE
      BY <1>1, <2>2, Entries DEF IInv, TypeOK, TableOK, TableSound, Exists
    <3>2. \A kinds : ~Backed(kinds)
      BY <3>1 DEF Backed
    <3> QED
      BY <3>2 DEF WheelInv, FeltInv, FeltIsHeld, RemainsInv, LeavesWheel
  <2>3. CASE ~inherited'
    BY <2>3 DEF RemainsInv
  <2> QED
    BY <2>1, <2>2, <2>3 DEF LeavesWheel
<1> QED
  BY <1>3, <1>4, <1>5, <1>6 DEF FeltInv

(* Rebuilt, stopped or left: what is on the wheel remains felt and held.   *)
LEMMA WheelStep ==
  ASSUME IInv, IInv', WheelInv, [Next]_vars
  PROVE  WheelInv'
<1>1. ParamsInv'
  BY StepIsProper DEF WheelInv
<1>2. ASSUME sent'.spring.on # 1, sent'.damper.on # 1, sent'.constant.on # 1, FitsTheWire'
      PROVE  FeltInv'
  BY <1>2 DEF FeltInv, FeltIsHeld, GainsWeaken
<1>3. CASE Rebuilds /\ ~inherited'
  <2>1. FeltInv'
    BY <1>1, <1>3, MixedIsFeltNext DEF Rebuilds
  <2>2. RemainsInv'
    BY <1>3 DEF RemainsInv
  <2> QED
    BY <1>1, <2>1, <2>2 DEF WheelInv
<1>4. CASE Rebuilds /\ inherited'
  <2>1. inherited /\ sent' = sent
    BY <1>4 DEF Rebuilds
  <2>2. RemainsInv' /\ FitsTheWire'
    BY <2>1 DEF WheelInv, FeltInv, RemainsInv, FitsTheWire
  <2>3. FeltInv'
    BY <1>2, <1>4, <2>2 DEF RemainsInv
  <2> QED
    BY <1>1, <2>2, <2>3 DEF WheelInv
<1>5. CASE Stops
  <2>1. sent' = Silent /\ RemainsInv'
    BY <1>5 DEF Stops, RemainsInv
  <2>2. FitsTheWire'
    BY <2>1, SilentFits DEF FitsTheWire
  <2>3. FeltInv'
    BY <1>2, <2>1, <2>2 DEF Silent
  <2> QED
    BY <1>1, <2>1, <2>3 DEF WheelInv
<1>6. CASE LeavesWheel
  BY <1>1, <1>6, LeftIsFelt DEF WheelInv
<1> QED
  BY <1>3, <1>4, <1>5, <1>6, StepIsOneOfThree

(* Nothing is on the wheel yet, and no effect exists.                      *)
THEOREM WheelFromInit == Init => WheelInv
<1> SUFFICES ASSUME Init
             PROVE  WheelInv
  OBVIOUS
<1>1. sent = Silent /\ inherited = FALSE
  BY DEF Init
<1>2. ParamsInv
  <2>1. "constant" \in AllKinds
    BY DEF AllKinds
  <2>2. ProperParams(NoEffect)
    BY <2>1, NewIsProper
  <2> QED
    BY <2>2 DEF ParamsInv, Init
<1>3. FeltInv
  BY <1>1, SilentFits DEF FeltInv, FitsTheWire, FeltIsHeld, GainsWeaken, Silent
<1> QED
  BY <1>1, <1>2, <1>3 DEF WheelInv, RemainsInv

(* The wheel in full: proper effects, a mix of them or a rest of a deleted *)
(* device, over every sequence of calls.                                   *)
THEOREM WheelTrue == Spec => []WheelInv
<1>1. IInv /\ IInv' /\ WheelInv /\ [Next]_vars => WheelInv'
  BY WheelStep
<1> QED
  BY <1>1, Invariance, WheelFromInit, PTL DEF Spec

(* Whatever a game sets and however many effects it mixes, every field of  *)
(* a state sent fits the byte, nibble or int16 that it travels in.         *)
THEOREM WireFits == Spec => []FitsTheWire
<1>1. WheelInv => FitsTheWire
  BY DEF WheelInv, FeltInv
<1> QED
  BY <1>1, WheelTrue, PTL

(* For any effects and any order of calls, a spring, a damper or a force   *)
(* on the wheel belongs to an effect of its kind that is in the table and  *)
(* started.                                                                *)
THEOREM FeltHeld == Spec => []FeltIsHeld
<1>1. WheelInv => FeltIsHeld
  BY DEF WheelInv, FeltInv
<1> QED
  BY <1>1, WheelTrue, PTL

(* For any parameters, a single effect pushes no harder than its gain and  *)
(* the device's leave of the strongest force that it asks for.             *)
THEOREM GainsWeakened == Spec => []GainsWeaken
<1>1. WheelInv => GainsWeaken
  BY DEF WheelInv, FeltInv
<1> QED
  BY <1>1, WheelTrue, PTL

-----------------------------------------------------------------------------
(* What a step may not do.                                                 *)

(* The two places that compute the end of an effect agree on it.           *)
LEMMA ActiveIsNotExpired ==
  ASSUME NEW x, EffectOK(x), now \in Nat
  PROVE  is_temporally_active(x, now) => ~has_expired(x, now)
<1>1. CASE ~Ends(x)
  BY <1>1 DEF has_expired
<1>2. CASE Ends(x) /\ now > x.since
  <2> DEFINE elapsed == now - x.since - x.params.delay
  <2>1. x.iterations \in Int /\ x.params.duration \in Int /\ x.params.delay \in Int /\ x.since \in Int
    BY DEF EffectOK, INFINITE
  <2>2. elapsed \in Int /\ TotalDuration(x) \in Int
    <3>1. TotalDuration(x) = x.params.duration * x.iterations
      BY <1>2 DEF TotalDuration
    <3>2. x.params.duration * x.iterations \in Int
      BY <2>1
    <3> QED
      BY <2>1, <3>1, <3>2
  <2>3. is_temporally_active(x, now) => elapsed < TotalDuration(x)
    BY <1>2 DEF is_temporally_active
  <2>4. has_expired(x, now) => elapsed >= TotalDuration(x)
    BY DEF has_expired
  <2> HIDE DEF elapsed
  <2> QED
    BY <2>2, <2>3, <2>4
<1>3. CASE ~(now > x.since)
  BY <1>3 DEF has_expired
<1> QED
  BY <1>1, <1>2, <1>3

(* An effect set or started again is not taken for expired either, unless  *)
(* its parameters change.                                                  *)
LEMMA RestartedIsNotExpired ==
  ASSUME NEW x, EffectOK(x), NEW y, EffectOK(y), now \in Nat,
         is_temporally_active(x, now), y.params = x.params,
         (y.since = x.since /\ y.iterations = x.iterations) \/ y.since = now
  PROVE  ~has_expired(y, now)
<1>1. CASE y.since = now
  BY <1>1 DEF has_expired, EffectOK
<1>2. CASE y.since = x.since /\ y.iterations = x.iterations
  <2>1. ~has_expired(x, now) /\ x.started
    BY ActiveIsNotExpired DEF is_temporally_active
  <2> QED
    BY <1>2, <2>1 DEF has_expired, Ends, TotalDuration
<1> QED
  BY <1>1, <1>2

(* A rebuild does not end an effect that plays and that the call leaves as *)
(* it is or starts again.                                                  *)
LEMMA PlaysThroughRebuild ==
  ASSUME now \in Nat, NEW e \in Effects, NEW f, NEW tab, fx' = Refreshed(f, tab),
         EffectOK(fx[e]), is_temporally_active(fx[e], now),
         EffectOK(f[e]), f[e].started, fx'[e].params = fx[e].params,
         (f[e].since = fx[e].since /\ f[e].iterations = fx[e].iterations) \/ f[e].since = now
  PROVE  fx'[e].started
<1> DEFINE x == fx[e]
           y == f[e]
<1>1. fx'[e] = refresh_runtime(y) \/ fx'[e] = y
  BY DEF Refreshed
<1>2. /\ EffectOK(x) /\ is_temporally_active(x, now) /\ EffectOK(y) /\ y.started
      /\ fx'[e].params = x.params
      /\ (y.since = x.since /\ y.iterations = x.iterations) \/ y.since = now
  OBVIOUS
<1> HIDE DEF x, y
<1>3. /\ refresh_runtime(y).params = y.params
      /\ ~has_expired(y, now) => refresh_runtime(y) = y
  BY <1>2, RefreshedIsOK
<1>4. y.params = x.params
  BY <1>1, <1>2, <1>3
<1>5. ~has_expired(y, now)
  BY <1>2, <1>4, RestartedIsNotExpired
<1> QED
  BY <1>1, <1>2, <1>3, <1>5

LEMMA StepPlaysOn ==
  ASSUME IInv, Next, NEW e \in Effects
  PROVE  PlaysOn(e)
<1> SUFFICES ASSUME is_temporally_active(fx[e], now), ~fx'[e].started,
                    fx'[e].kind = fx[e].kind, fx'[e].params = fx[e].params
             PROVE  Stop(e) \/ StopAll \/ ActuatorsOff
  BY DEF PlaysOn
<1>1. /\ now \in Nat /\ DOMAIN fx = Effects /\ \A d \in Effects : EffectOK(fx[d])
      /\ refs \in [Effects -> 0..References] /\ References \in Nat
  BY BoundsAssumption DEF IInv, TypeOK, EffectsOK, CountersOK, TableOK
<1>2. fx[e].started /\ EffectOK(fx[e])
  BY <1>1 DEF is_temporally_active
<1>3. refs[e] # 0 /\ fx[e].kind \in Kinds
  BY <1>1, <1>2, NoneIsOK DEF IInv, LivesInv
<1>4. fx'[e] # fx[e]
  BY <1>2
<1>5. ASSUME NEW f, NEW tab, fx' = Refreshed(f, tab)
      PROVE  f[e] # fx[e]
  BY <1>1, <1>2, <1>5, PlaysThroughRebuild
<1>6. ASSUME NEW d \in Effects, NEW k \in Kinds,
             CreateEffect(d, k) \/ \E o \in Offers[k] : CreateEffectWith(d, k, o)
      PROVE  FALSE
  <2>1. refs[d] = 0
    <3>1. Enter(d)
      BY <1>6 DEF CreateEffect, CreateEffectWith
    <3>2. ~(refs[d] > 0)
      BY <3>1 DEF Enter, Exists
    <3> QED
      BY <1>1, <3>2
  <2>2. d # e
    BY <1>3, <2>1
  <2>3. CASE CreateEffect(d, k)
    BY <1>1, <1>4, <2>2, <2>3 DEF CreateEffect
  <2>4. ASSUME NEW o \in Offers[k], CreateEffectWith(d, k, o)
        PROVE  FALSE
    <3>1. fx' = Refreshed([fx EXCEPT ![d] = AfterSet(NewEffect(k), o, "no")], table)
      BY <2>4 DEF CreateEffectWith, Rebuild
    <3> DEFINE f == [fx EXCEPT ![d] = AfterSet(NewEffect(k), o, "no")]
    <3>2. f[e] = fx[e] /\ fx' = Refreshed(f, table)
      BY <1>1, <2>2, <3>1
    <3> HIDE DEF f
    <3> QED
      BY <1>5, <3>2
  <2> QED
    BY <1>6, <2>3, <2>4
<1>7. ASSUME NEW d \in Effects, Exists(d), NEW o \in Offers[fx[d].kind],
             NEW start \in {"no", "restart", "norestart"}, SetParameters(d, o, start)
      PROVE  FALSE
  <2> DEFINE x == fx[d]
             y == AfterSet(x, o, start)
             f == [fx EXCEPT ![d] = y]
  <2>1. fx' = Refreshed(f, table)
    BY <1>7 DEF SetParameters, RebuildAndSend, Rebuild
  <2>2. f[d] = y /\ (d # e => f[e] = fx[e])
    BY <1>1
  <2>3. EffectOK(x) /\ x.kind \in Kinds
    BY <1>1, <1>7 DEF IInv, LivesInv, Exists
  <2> HIDE DEF x
  <2>4. PICK k \in Kinds : k = x.kind /\ o \in Offers[k]
    BY <1>7, <2>3 DEF x
  <2>5. /\ EffectOK(y) /\ y.iterations = x.iterations /\ (x.started => y.started)
        /\ y.since \in {x.since, now}
    BY <1>1, <2>3, <2>4, SetIsOK
  <2> HIDE DEF f, y
  <2>6. CASE d = e
    <3>1. x = fx[e] /\ f[e] = y
      BY <2>2, <2>6 DEF x
    <3>2. EffectOK(f[e]) /\ f[e].started
      BY <1>2, <2>5, <3>1
    <3>3. (f[e].since = fx[e].since /\ f[e].iterations = fx[e].iterations) \/ f[e].since = now
      BY <2>5, <3>1
    <3> QED
      BY <1>1, <1>2, <2>1, <3>2, <3>3, PlaysThroughRebuild
  <2>7. CASE d # e
    BY <1>5, <2>1, <2>2, <2>7
  <2> QED
    BY <2>6, <2>7
<1>8. ASSUME NEW d \in Effects, NEW n \in Iterations, Start(d, n)
      PROVE  FALSE
  <2> DEFINE x == [fx[d] EXCEPT !.started = TRUE, !.since = now, !.iterations = IF n = 0 THEN 1 ELSE n]
             f == [fx EXCEPT ![d].started = TRUE, ![d].since = now, ![d].iterations = IF n = 0 THEN 1 ELSE n]
  <2>1. fx' = Refreshed(f, table)
    BY <1>8 DEF Start, RebuildAndSend, Rebuild
  <2>2. f[d] = x /\ (d # e => f[e] = fx[e])
    BY <1>1
  <2>3. EffectOK(x) /\ x.started /\ x.since = now
    <3>1. EffectOK(fx[d]) /\ (IF n = 0 THEN 1 ELSE n) \in (Nat \ {0}) \cup {INFINITE}
      BY <1>1, CallsAssumption
    <3>2. /\ DOMAIN x = DOMAIN fx[d] /\ x.kind = fx[d].kind /\ x.params = fx[d].params
          /\ x.started = TRUE /\ x.since = now /\ x.iterations = IF n = 0 THEN 1 ELSE n
      BY <3>1 DEF EffectOK
    <3> QED
      BY <1>1, <3>1, <3>2 DEF EffectOK
  <2> HIDE DEF f, x
  <2>4. CASE d = e
    BY <1>1, <1>2, <2>1, <2>2, <2>3, <2>4, PlaysThroughRebuild
  <2>5. CASE d # e
    BY <1>5, <2>1, <2>2, <2>5
  <2> QED
    BY <2>4, <2>5
<1>9. ASSUME NEW d \in Effects, Stop(d)
      PROVE  Stop(e)
  <2> DEFINE f == [fx EXCEPT ![d] = force_stop_runtime(@)]
  <2>1. fx' = Refreshed(f, table) /\ (d # e => f[e] = fx[e])
    BY <1>1, <1>9 DEF Stop, RebuildAndSend, Rebuild
  <2> HIDE DEF f
  <2> QED
    BY <1>5, <1>9, <2>1
<1>10. ASSUME NEW d \in Effects, AddRef(d) \/ (Release(d) /\ refs[d] > 1)
       PROVE  FALSE
  BY <1>4, <1>10 DEF AddRef, Release
<1>11. ASSUME NEW d \in Effects, Release(d), ~(refs[d] > 1)
       PROVE  FALSE
  <2> DEFINE f == [fx EXCEPT ![d] = NoEffect]
             tab == Without(table, d)
  <2>1. fx' = Refreshed(f, tab) /\ (d # e => f[e] = fx[e]) /\ f[d] = NoEffect
    BY <1>1, <1>11 DEF Release, Rebuild
  <2> HIDE DEF f, tab
  <2>2. CASE d = e
    <3>1. fx'[e] = NoEffect \/ fx'[e] = refresh_runtime(NoEffect)
      BY <2>1, <2>2 DEF Refreshed
    <3>2. NoEffect.kind = "none" /\ refresh_runtime(NoEffect).kind = "none"
      BY <1>1, NoneIsOK, RefreshedIsOK
    <3>3. "none" \notin Kinds
      BY KindsAssumption DEF AllKinds, TimeVarying, Conditions
    <3> QED
      BY <1>3, <3>1, <3>2, <3>3
  <2>3. CASE d # e
    BY <1>5, <2>1, <2>3
  <2> QED
    BY <2>2, <2>3
<1>12. ASSUME \/ \E g \in Gains : SetGain(g)
              \/ \E center \in Centers : SetAutocenter(center)
              \/ Continue \/ ActuatorsOn
       PROVE  FALSE
  <2>1. fx' = Refreshed(fx, table)
    BY <1>12 DEF SetGain, SetAutocenter, Continue, ActuatorsOn, Rebuild
  <2> QED
    BY <1>5, <2>1
<1>13. ASSUME Poll
       PROVE  FALSE
  <2>1. fx' = Refreshed(fx, table) \/ fx' = fx
    BY <1>13 DEF Poll, RebuildAndSend, Rebuild
  <2> QED
    BY <1>4, <1>5, <2>1
<1>14. ASSUME Unacquire \/ Pause \/ RecreateDevice \/ Tick
       PROVE  FALSE
  BY <1>4, <1>14 DEF Unacquire, Pause, RecreateDevice, Tick
<1> QED
  BY <1>6, <1>7, <1>8, <1>9, <1>10, <1>11, <1>12, <1>13, <1>14 DEF Next

(* No effect is ended by a step that neither stops it nor finds its time   *)
(* over: for any durations, delays, iterations and calls for other effects.*)
THEOREM PlaysOut == Spec => PlaysToTheEnd
<1>1. IInv /\ [Next]_vars => [\A e \in Effects : PlaysOn(e)]_vars
  BY StepPlaysOn
<1> QED
  BY <1>1, Invariance, PTL DEF Spec, PlaysToTheEnd

(* A step keeps the order of the effects that it does not release.         *)
LEMMA StepKeepsOrder ==
  ASSUME IInv, Next, NEW d \in Effects, NEW e \in Effects
  PROVE  KeepsOrder(d, e)
<1> SUFFICES ASSUME Before(d, e, table), refs'[d] > 0, refs'[e] > 0
             PROVE  Before(d, e, table')
  BY DEF KeepsOrder
<1>1. /\ table \in Seq(Effects) /\ Len(table) \in Nat /\ DOMAIN table = 1..Len(table)
      /\ refs \in [Effects -> 0..References] /\ References \in Nat
  BY Entries, BoundsAssumption DEF IInv, TypeOK, TableOK
<1>2. PICK i \in 1..Len(table), j \in 1..Len(table) : i <= j /\ table[i] = d /\ table[j] = e
  BY <1>1 DEF Before
<1>3. ASSUME NEW c \in Effects, Enter(c)
      PROVE  Before(d, e, table')
  <2>1. /\ table' \in Seq(Effects) /\ Len(table) <= Len(table')
        /\ \A n \in 1..Len(table) : table'[n] = table[n]
    BY <1>3, EnterKeepsTable
  <2>2. Len(table') \in Nat /\ DOMAIN table' = 1..Len(table')
    BY <2>1, Entries
  <2> QED
    BY <1>1, <1>2, <2>1, <2>2 DEF Before
<1>4. ASSUME NEW c \in Effects, Release(c), ~(refs[c] > 1), InTable(c, table)
      PROVE  Before(d, e, table')
  <2>1. refs'[c] = 0
    <3>1. refs[c] = 1 /\ refs' = [refs EXCEPT ![c] = @ - 1]
      BY <1>1, <1>4 DEF Release, Exists
    <3> QED
      BY <1>1, <3>1
  <2>2. PICK at \in 1..Len(table) :
           /\ table[at] = c
           /\ Without(table, c) = [n \in 1..(Len(table) - 1) |-> table[IF n < at THEN n ELSE n + 1]]
    BY <1>1, <1>4, WithoutIsShift DEF IInv, TableSound
  <2>3. table' = [n \in 1..(Len(table) - 1) |-> table[IF n < at THEN n ELSE n + 1]]
    BY <1>4, <2>2 DEF Release
  <2>4. i # at /\ j # at
    BY <1>2, <2>1, <2>2
  <2> DEFINE to(n) == IF n < at THEN n ELSE n - 1
  <2>5. /\ to(i) \in 1..(Len(table) - 1) /\ to(j) \in 1..(Len(table) - 1) /\ to(i) <= to(j)
        /\ (IF to(i) < at THEN to(i) ELSE to(i) + 1) = i
        /\ (IF to(j) < at THEN to(j) ELSE to(j) + 1) = j
    BY <1>1, <1>2, <2>4
  <2> HIDE DEF to
  <2>6. to(i) \in DOMAIN table' /\ to(j) \in DOMAIN table' /\ table'[to(i)] = d /\ table'[to(j)] = e
    BY <1>2, <2>3, <2>5
  <2> QED
    BY <2>5, <2>6 DEF Before
<1>5. CASE table' = table
  BY <1>5
<1>6. ASSUME NEW c \in Effects, Release(c)
      PROVE  Before(d, e, table')
  <2>1. table' = table \/ (~(refs[c] > 1) /\ table' = Without(table, c))
    BY <1>6 DEF Release
  <2>2. ~InTable(c, table) => Without(table, c) = table
    BY DEF Without
  <2> QED
    BY <1>4, <1>5, <1>6, <2>1, <2>2
<1>7. \/ \E c \in Effects : Enter(c) \/ Release(c)
      \/ table' = table
  BY DEF Next, CreateEffect, CreateEffectWith, SetParameters, Start, Stop, AddRef, RebuildAndSend,
         SetGain, SetAutocenter, Unacquire, Poll, StopAll, Pause, Continue, ActuatorsOn, ActuatorsOff,
         RecreateDevice, Tick, deviceVars
<1> QED
  BY <1>3, <1>5, <1>6, <1>7

(* The effects keep their places relative to each other until released.    *)
THEOREM OrderKept == Spec => TrackedUntilReleased
<1>1. IInv /\ [Next]_vars => [\A d, e \in Effects : KeepsOrder(d, e)]_vars
  BY StepKeepsOrder
<1> QED
  BY <1>1, Invariance, PTL DEF Spec, TrackedUntilReleased
=============================================================================
