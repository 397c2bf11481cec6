--------------------------- MODULE EffectRuntime ---------------------------
(***************************************************************************)
(* The wheel's DeviceProxy and its EffectProxies in dinput8_proxy.cpp: the *)
(* effects a game creates, sets, starts and releases, the force feedback   *)
(* commands, the passing of time, and rebuild_and_send, which mixes the    *)
(* effects in the table into one wheel state and sends it if it is new.    *)
(* One thread of the game makes the calls; what becomes of a message is    *)
(* the subject of BridgeLink.  A call that the system's own effect refuses *)
(* changes nothing and is no step here.                                    *)
(***************************************************************************)
EXTENDS ForceMix, FiniteSets, TLC

CONSTANTS
  Effects,        \* the effect objects a game has at a time
  Kinds,          \* the kinds of effect it creates
  Offers,         \* for each kind, the parameters that a call may set, as functions of some of them
  Iterations,     \* numbers of iterations it starts an effect for
  Gains,          \* device gains it sets
  Centers,        \* autocenter modes it sets
  Commands,       \* force feedback commands it sends
  References,     \* most references it holds to an effect
  Capacity,       \* kMaxEffects
  Interval,       \* kPeriodicUpdateIntervalUs in units of time
  DefaultPeriod,  \* 100 ms in units of time
  MaxTime,        \* the clock is not followed further than this
  Recreates       \* does the game release its device and create it again?

ParamFields == {"gain", "duration", "delay", "direction", "envelope", "typed"}

ASSUME KindsAssumption  == Kinds \subseteq AllKinds
ASSUME OffersAssumption ==
  \A k \in Kinds : \A o \in Offers[k] :
    /\ "gain" \in DOMAIN o      => o.gain \in Nat
    /\ "delay" \in DOMAIN o     => o.delay \in Nat
    /\ "duration" \in DOMAIN o  => o.duration \in Nat \cup {INFINITE}
    /\ "direction" \in DOMAIN o => o.direction.value \in Int
    /\ "envelope" \in DOMAIN o  => ProperEnvelope(o.envelope)
    /\ "typed" \in DOMAIN o     => ProperTyped(k, o.typed)
ASSUME BoundsAssumption ==
  /\ Capacity \in Nat \ {0} /\ References \in Nat \ {0}
  /\ Interval \in Nat \ {0} /\ DefaultPeriod \in Nat \ {0} /\ MaxTime \in Nat
ASSUME CallsAssumption ==
  /\ Iterations \subseteq Nat \cup {INFINITE} /\ Gains \subseteq Nat /\ Centers \subseteq BOOLEAN
  /\ Commands \subseteq {"reset", "stop_all", "pause", "continue", "actuators_on", "actuators_off"}
  /\ Recreates \in BOOLEAN

VARIABLES
  now,                    \* the tick count, later than zero
  fx,                     \* the effects: kind, started, iterations, since (start_time_us_), params
  refs,                   \* the references to each, none if it does not exist
  table,                  \* effects_[0 .. effect_count_ - 1]
  ff_gain,
  autocenter,             \* autocenter_mode_ == DIPROPAUTOCENTER_ON
  ff_state,               \* the DIGFFS_ flags
  proxy,                  \* what the device remembers of its last send
  last_periodic_rebuild,  \* last_periodic_rebuild_us_, zero before the first
  sent,                   \* the wheel state the bridge was sent last
  asOf, mixed,            \* ghosts: when the last rebuild was, and how much of the table it took in
  due,                    \* ghost: a call since then has changed the mix without a rebuild
  inherited,              \* ghost: sent is from a DeviceProxy that is no more
  polled                  \* ghost: the game has polled since the clock moved

deviceVars == <<table, ff_gain, autocenter, last_periodic_rebuild>>
sendVars   == <<ff_state, proxy, sent, asOf, mixed, due, inherited>>
vars == <<now, fx, refs, deviceVars, sendVars, polled>>

(* EffectProxy's constructor.                                              *)
NewEffect(k) ==
  [kind |-> k, started |-> FALSE, iterations |-> 1, since |-> 0,
   params |-> [gain |-> Nominal, duration |-> INFINITE, delay |-> 0, envelope |-> Flat,
               direction |-> [system |-> "polar", value |-> 0], typed |-> InitialTyped(k, DefaultPeriod)]]

NoEffect == [NewEffect("constant") EXCEPT !.kind = "none"]

(* A device that believes nothing of its is on the wheel.                  *)
Forgotten == [have_last_payload |-> FALSE, last_payload |-> Silent, last_sent_has_state |-> FALSE]

InitialFlags == {"EMPTY", "STOPPED", "ACTUATORSON", "POWERON"}

Init ==
  /\ now = 1 /\ polled = FALSE
  /\ fx = [e \in Effects |-> NoEffect] /\ refs = [e \in Effects |-> 0]
  /\ table = <<>> /\ ff_gain = Nominal /\ autocenter = TRUE /\ last_periodic_rebuild = 0
  /\ ff_state = InitialFlags /\ proxy = Forgotten /\ sent = Silent
  /\ asOf = now /\ mixed = 0 /\ due = TRUE /\ inherited = FALSE

-----------------------------------------------------------------------------
(* rebuild_and_send                                                        *)

InTable(e, tab) == \E i \in DOMAIN tab : tab[i] = e

Muted(flags) == "PAUSED" \in flags \/ "ACTUATORSOFF" \in flags

force_stop_runtime(x) == [x EXCEPT !.started = FALSE, !.iterations = 1]
refresh_runtime(x)    == IF has_expired(x, now) THEN force_stop_runtime(x) ELSE x

Listed(f, tab) == [i \in DOMAIN tab |-> f[tab[i]]]

Refreshed(f, tab) == [e \in Effects |-> IF InTable(e, tab) THEN refresh_runtime(f[e]) ELSE f[e]]

(* A state that is the last one sent, and a stop when nothing has been     *)
(* sent, are left out.                                                     *)
Send(p, flags) ==
  LET new == IF p # Silent THEN ~proxy.have_last_payload \/ p # proxy.last_payload
             ELSE proxy.last_sent_has_state
  IN  /\ sent' = IF new THEN p ELSE sent
      /\ inherited' = (inherited /\ ~new)
      /\ proxy' = IF p = Silent THEN Forgotten
                  ELSE [have_last_payload |-> TRUE, last_payload |-> p, last_sent_has_state |-> TRUE]
      /\ ff_state' = IF p # Silent THEN flags \ {"EMPTY", "STOPPED"} ELSE flags \cup {"EMPTY", "STOPPED"}

(* f, tab, gain, center and flags are what the call has made of the        *)
(* effects, the table and the device.                                      *)
Rebuild(f, tab, gain, center, flags) ==
  /\ fx' = Refreshed(f, tab)
  /\ Send(Mix(Listed(Refreshed(f, tab), tab), gain, center, Muted(flags), now), flags)
  /\ asOf' = now /\ mixed' = Len(tab) /\ due' = FALSE

RebuildAndSend(f) ==
  /\ Rebuild(f, table, ff_gain, autocenter, ff_state)
  /\ UNCHANGED <<table, ff_gain, autocenter>>

(* Mutant: the payload is still taken for sent.                            *)
StopKeepsPayload(flags) ==
  /\ sent' = Silent /\ inherited' = FALSE /\ due' = TRUE
  /\ ff_state' = flags
  /\ UNCHANGED <<proxy, asOf, mixed>>

(* A stop_all past the mix: what the effects would add is due.             *)
StopAndForget(flags) ==
  /\ sent' = Silent /\ proxy' = Forgotten /\ inherited' = FALSE /\ due' = TRUE
  /\ ff_state' = flags
  /\ UNCHANGED <<asOf, mixed>>

-----------------------------------------------------------------------------
(* The effects.                                                            *)

Exists(e) == refs[e] > 0

(* update_from_effect and what SetParameters does beside it.  Parameters   *)
(* that the flags leave out or that are null pointers are not in o.  A     *)
(* constant force with a magnitude starts itself.  start is "restart" for  *)
(* DIEP_START, "norestart" for DIEP_START with DIEP_NORESTART.             *)
AfterSet(x, o, start) ==
  LET params  == [p \in ParamFields |-> IF p \in DOMAIN o THEN o[p] ELSE x.params[p]]
      started == [x EXCEPT !.started = @ \/ start # "no", !.since = IF start = "restart" THEN now ELSE @]
      pushes  == x.kind = "constant" /\ params.typed.magnitude # 0
  IN  [started EXCEPT !.params = params,
                      !.started = @ \/ pushes,
                      !.since = IF pushes /\ @ = 0 THEN now ELSE @]

SetParameters(e, o, start) ==
  /\ Exists(e)
  /\ RebuildAndSend([fx EXCEPT ![e] = AfterSet(@, o, start)])
  /\ UNCHANGED <<now, refs, last_periodic_rebuild, polled>>

Start(e, n) ==
  /\ Exists(e)
  /\ RebuildAndSend([fx EXCEPT ![e].started = TRUE, ![e].since = now, ![e].iterations = IF n = 0 THEN 1 ELSE n])
  /\ UNCHANGED <<now, refs, last_periodic_rebuild, polled>>

(* Mutant: a stop is left to the next rebuild.                             *)
StopWithoutSend(e) ==
  /\ Exists(e)
  /\ fx' = [fx EXCEPT ![e] = force_stop_runtime(@)]
  /\ UNCHANGED <<now, refs, deviceVars, sendVars, polled>>

Stop(e) ==
  /\ Exists(e)
  /\ RebuildAndSend([fx EXCEPT ![e] = force_stop_runtime(@)])
  /\ UNCHANGED <<now, refs, last_periodic_rebuild, polled>>

AddRef(e) ==
  /\ Exists(e) /\ refs[e] < References
  /\ refs' = [refs EXCEPT ![e] = @ + 1]
  /\ UNCHANGED <<now, fx, deviceVars, sendVars, polled>>

(* Mutant: the entries move up from one place too far on.                  *)
WithoutOffByOne(tab, e) ==
  IF InTable(e, tab)
  THEN LET at == CHOOSE i \in DOMAIN tab : tab[i] = e /\ \A j \in 1..(i - 1) : tab[j] # e
       IN  [i \in 1..(Len(tab) - 1) |-> tab[IF i <= at THEN i ELSE i + 1]]
  ELSE tab

(* Mutant: the last entry takes the place of the one removed.              *)
WithoutSwap(tab, e) ==
  IF InTable(e, tab)
  THEN [i \in 1..(Len(tab) - 1) |-> IF tab[i] = e THEN tab[Len(tab)] ELSE tab[i]]
  ELSE tab

(* remove_effect: the later entries move up.                               *)
Without(tab, e) ==
  IF InTable(e, tab)
  THEN LET at == CHOOSE i \in DOMAIN tab : tab[i] = e /\ \A j \in 1..(i - 1) : tab[j] # e
       IN  [i \in 1..(Len(tab) - 1) |-> tab[IF i < at THEN i ELSE i + 1]]
  ELSE tab

(* Mutant: the last Release does not look at the wheel.                    *)
ReleaseWithoutSend(e) ==
  /\ Exists(e)
  /\ refs' = [refs EXCEPT ![e] = @ - 1]
  /\ IF refs[e] > 1
     THEN UNCHANGED <<fx, table, mixed>>
     ELSE /\ table' = Without(table, e)
          /\ fx' = [fx EXCEPT ![e] = NoEffect]
          /\ mixed' = Len(table')
  /\ UNCHANGED <<now, ff_gain, autocenter, last_periodic_rebuild, ff_state, proxy, sent, asOf, due,
                  inherited, polled>>

Release(e) ==
  /\ Exists(e)
  /\ refs' = [refs EXCEPT ![e] = @ - 1]
  /\ IF refs[e] > 1
     THEN UNCHANGED <<fx, table, ff_gain, autocenter, sendVars>>
     ELSE /\ table' = Without(table, e)
          /\ Rebuild([fx EXCEPT ![e] = NoEffect], Without(table, e), ff_gain, autocenter, ff_state)
          /\ UNCHANGED <<ff_gain, autocenter>>
  /\ UNCHANGED <<now, last_periodic_rebuild, polled>>

-----------------------------------------------------------------------------
(* The device.                                                             *)

(* Mutant: the table is not looked at before an effect enters it.          *)
EnterAnyway(e) ==
  /\ ~Exists(e)
  /\ refs' = [refs EXCEPT ![e] = 1]
  /\ table' = Append(table, e)
  /\ UNCHANGED <<now, ff_gain, autocenter, last_periodic_rebuild, polled>>

(* A full table does not take a new effect.                                *)
Enter(e) ==
  /\ ~Exists(e)
  /\ refs' = [refs EXCEPT ![e] = 1]
  /\ table' = IF Len(table) < Capacity THEN Append(table, e) ELSE table
  /\ UNCHANGED <<now, ff_gain, autocenter, last_periodic_rebuild, polled>>

CreateEffect(e, k) ==
  /\ Enter(e)
  /\ fx' = [fx EXCEPT ![e] = NewEffect(k)]
  /\ UNCHANGED sendVars

(* Parameters are set, and the state rebuilt, before the effect enters.    *)
CreateEffectWith(e, k, o) ==
  /\ Enter(e)
  /\ Rebuild([fx EXCEPT ![e] = AfterSet(NewEffect(k), o, "no")], table, ff_gain, autocenter, ff_state)

(* Mutant: the gain counts from the next rebuild on.                       *)
SetGainWithoutSend(g) ==
  /\ ff_gain' = Clamp(g, 0, Nominal)
  /\ UNCHANGED <<now, fx, refs, table, autocenter, last_periodic_rebuild, sendVars, polled>>

SetGain(g) ==
  /\ ff_gain' = Clamp(g, 0, Nominal)
  /\ Rebuild(fx, table, ff_gain', autocenter, ff_state)
  /\ UNCHANGED <<now, refs, table, autocenter, last_periodic_rebuild, polled>>

SetAutocenter(center) ==
  /\ autocenter' = center
  /\ Rebuild(fx, table, ff_gain, autocenter', ff_state)
  /\ UNCHANGED <<now, refs, table, ff_gain, last_periodic_rebuild, polled>>

(* Mutant: the game is not told that the wheel has been stopped.           *)
UnacquireKeepsFlags ==
  /\ StopAndForget(ff_state)
  /\ UNCHANGED <<now, fx, refs, deviceVars, polled>>

(* Acquire sends nothing; Unacquire leaves the effects as they are.        *)
Unacquire ==
  /\ StopAndForget(ff_state \cup {"STOPPED", "EMPTY"})
  /\ UNCHANGED <<now, fx, refs, deviceVars, polled>>

has_active_time_varying_effect ==
  \E i \in DOMAIN table : fx[table[i]].started /\ fx[table[i]].kind \in TimeVarying

(* Mutant: a poll that comes too early puts the next rebuild off as well.  *)
PollPutsOff ==
  /\ polled' = TRUE
  /\ IF /\ has_active_time_varying_effect
        /\ last_periodic_rebuild = 0 \/ now - last_periodic_rebuild >= Interval
     THEN RebuildAndSend(fx)
     ELSE UNCHANGED <<fx, table, ff_gain, autocenter, sendVars>>
  /\ last_periodic_rebuild' = now
  /\ UNCHANGED <<now, refs>>

Poll ==
  /\ polled' = TRUE
  /\ IF /\ has_active_time_varying_effect
        /\ last_periodic_rebuild = 0 \/ now - last_periodic_rebuild >= Interval
     THEN RebuildAndSend(fx) /\ last_periodic_rebuild' = now
     ELSE UNCHANGED <<fx, deviceVars, sendVars>>
  /\ UNCHANGED <<now, refs>>

AllStopped == [e \in Effects |-> IF InTable(e, table) THEN force_stop_runtime(fx[e]) ELSE fx[e]]

(* DISFFC_RESET and DISFFC_STOPALL.                                        *)
StopAll ==
  /\ Commands \cap {"reset", "stop_all"} # {}
  /\ fx' = AllStopped
  /\ StopAndForget((ff_state \cup {"STOPPED", "EMPTY"}) \ {"PAUSED"})
  /\ UNCHANGED <<now, refs, deviceVars, polled>>

(* The forces of the moment stay on the wheel.                             *)
Pause ==
  /\ "pause" \in Commands
  /\ ff_state' = ff_state \cup {"PAUSED"}
  /\ due' = TRUE
  /\ UNCHANGED <<now, fx, refs, deviceVars, proxy, sent, asOf, mixed, inherited, polled>>

Continue ==
  /\ "continue" \in Commands
  /\ Rebuild(fx, table, ff_gain, autocenter, ff_state \ {"PAUSED"})
  /\ UNCHANGED <<now, refs, deviceVars, polled>>

ActuatorsOn ==
  /\ "actuators_on" \in Commands
  /\ Rebuild(fx, table, ff_gain, autocenter, (ff_state \cup {"ACTUATORSON"}) \ {"ACTUATORSOFF"})
  /\ UNCHANGED <<now, refs, deviceVars, polled>>

ActuatorsOff ==
  /\ "actuators_off" \in Commands
  /\ fx' = AllStopped
  /\ StopAndForget((ff_state \cup {"ACTUATORSOFF"}) \ {"ACTUATORSON"})
  /\ UNCHANGED <<now, refs, deviceVars, polled>>

(* The last Release deletes the device, without a message, and CreateDevice *)
(* makes a new one.  The game has released its effects before.             *)
RecreateDevice ==
  /\ Recreates /\ \A e \in Effects : ~Exists(e)
  /\ ff_gain' = Nominal /\ autocenter' = TRUE /\ last_periodic_rebuild' = 0
  /\ ff_state' = InitialFlags /\ proxy' = Forgotten
  /\ inherited' = (sent # Silent) /\ due' = TRUE
  /\ UNCHANGED <<now, fx, refs, table, sent, asOf, mixed, polled>>

Tick ==
  /\ now < MaxTime
  /\ now' = now + 1 /\ polled' = FALSE
  /\ UNCHANGED <<fx, refs, deviceVars, sendVars>>

Next ==
  \/ \E e \in Effects :
       \/ \E k \in Kinds : CreateEffect(e, k) \/ \E o \in Offers[k] : CreateEffectWith(e, k, o)
       \/ Exists(e) /\ \E o \in Offers[fx[e].kind], start \in {"no", "restart", "norestart"} :
                         SetParameters(e, o, start)
       \/ \E n \in Iterations : Start(e, n)
       \/ Stop(e) \/ AddRef(e) \/ Release(e)
  \/ \E g \in Gains : SetGain(g)
  \/ \E center \in Centers : SetAutocenter(center)
  \/ Unacquire \/ Poll \/ StopAll \/ Pause \/ Continue \/ ActuatorsOn \/ ActuatorsOff
  \/ RecreateDevice \/ Tick

Spec == Init /\ [][Next]_vars

-----------------------------------------------------------------------------
(* Properties.  TypeOK is the type invariant.                              *)

EffectOK(x) ==
  /\ DOMAIN x = {"kind", "started", "iterations", "since", "params"}
  /\ x.kind \in AllKinds \cup {"none"} /\ x.started \in BOOLEAN
  /\ x.iterations \in (Nat \ {0}) \cup {INFINITE}
  /\ x.since \in Nat /\ x.since <= now
  /\ x.params.delay \in Nat /\ x.params.duration \in Nat \cup {INFINITE}

EffectsOK == DOMAIN fx = Effects /\ \A e \in Effects : EffectOK(fx[e])

CountersOK ==
  /\ now \in Nat \ {0} /\ polled \in BOOLEAN
  /\ last_periodic_rebuild \in Nat /\ last_periodic_rebuild <= now
  /\ asOf \in Nat \ {0} /\ asOf <= now
  /\ due \in BOOLEAN /\ inherited \in BOOLEAN

TableOK ==
  /\ refs \in [Effects -> 0..References]
  /\ table \in Seq(Effects) /\ Len(table) <= Capacity
  /\ mixed \in 0..Len(table)

DeviceOK ==
  /\ ff_gain \in 0..Nominal /\ autocenter \in BOOLEAN
  /\ ff_state \subseteq {"EMPTY", "STOPPED", "PAUSED", "ACTUATORSON", "ACTUATORSOFF", "POWERON"}
  /\ DOMAIN proxy = {"have_last_payload", "last_payload", "last_sent_has_state"}

(* The values a state of the proxy is made of.                             *)
TypeOK == EffectsOK /\ CountersOK /\ TableOK /\ DeviceOK

(* A payload equal to the last one is not sent (rebuild_and_send): safe    *)
(* only if the last one remembered is the last one sent, over all stops,   *)
(* commands and devices; and a stop is left out only when nothing is on.   *)
MemoryIsTrue ==
  /\ proxy.have_last_payload => sent = proxy.last_payload
  /\ ~inherited => (proxy.last_sent_has_state <=> sent # Silent)

(* What the proxy promises a game: after any sequence of calls the bridge  *)
(* has been sent the mix of the effects that the table held at the last    *)
(* rebuild, as it was at that time.                                        *)
MixedEffects == [i \in 1..mixed |-> fx[table[i]]]
MixAt(time)  == Mix(MixedEffects, ff_gain, autocenter, Muted(ff_state), time)

SentIsMix == ~due /\ ~inherited => sent = MixAt(asOf)

(* No force without an effect behind it: a spring, a damper or a force on  *)
(* the wheel belongs to an effect that the game has started, has not       *)
(* stopped by any of the ways to stop it, and has not released.            *)
Backed(kinds) == \E i \in DOMAIN table : fx[table[i]].started /\ fx[table[i]].kind \in kinds

FeltIsHeld ==
  /\ sent.spring.on = 1   => Backed({"spring"})
  /\ sent.damper.on = 1   => Backed(Conditions \ {"spring"})
  /\ sent.constant.on = 1 => Backed(AllKinds \ Conditions)

(* What GetForceFeedbackState tells a game: stopped means that the wheel   *)
(* has been sent nothing; not stopped, that it has, or that the actuators  *)
(* have been switched off since.                                           *)
FlagsTellTruth ==
  /\ "STOPPED" \in ff_state <=> "EMPTY" \in ff_state
  /\ "STOPPED" \in ff_state /\ ~inherited => sent = Silent
  /\ "STOPPED" \notin ff_state => sent # Silent \/ "ACTUATORSOFF" \in ff_state

(* The table holds raw pointers: no effect is in it twice, and none that   *)
(* has been deleted, whatever is released in whatever order.               *)
TableSound ==
  /\ \A i \in DOMAIN table : Exists(table[i])
  /\ \A i, j \in DOMAIN table : table[i] = table[j] => i = j

(* Effects keep their places relative to each other, on which a saturated  *)
(* sum of forces depends, until they are released.                         *)
Before(d, e, tab) == \E i, j \in DOMAIN tab : i <= j /\ tab[i] = d /\ tab[j] = e

KeepsOrder(d, e) ==
  Before(d, e, table) /\ refs'[d] > 0 /\ refs'[e] > 0 => Before(d, e, table')

TrackedUntilReleased == [][\A d, e \in Effects : KeepsOrder(d, e)]_vars

(* An effect that plays is ended by its time, by the game or not at all:   *)
(* no rebuild for another reason takes it for expired.                     *)
PlaysOn(e) ==
  /\ is_temporally_active(fx[e], now) /\ ~fx'[e].started
  /\ fx'[e].kind = fx[e].kind /\ fx'[e].params = fx[e].params
  => Stop(e) \/ StopAll \/ ActuatorsOff

PlaysToTheEnd == [][\A e \in Effects : PlaysOn(e)]_vars

(* A game that polls keeps a wheel state with a time-varying force up to   *)
(* date to within the interval, all effects in it included.                *)
FreshWhenPolled ==
  polled /\ ~due /\ ~inherited /\ has_active_time_varying_effect
    => \E t \in 1..now : now - t < Interval /\ sent = MixAt(t)

(* Every field fits the byte, nibble or int16 it travels in, whatever a    *)
(* game sets.  TLC sees one effect of every kind; that it holds of any     *)
(* number of them is the theorem WireFits.                                 *)
FitsTheWire == sent \in WheelStates

(* Gains, envelope and direction only weaken: the force sent for a single  *)
(* effect is no stronger than what the effect asks for at its strongest,   *)
(* reduced by its own gain and then by the gain of the device.             *)
GainsWeaken ==
  Len(table) = 1 /\ mixed = 1 /\ sent.constant.on = 1
    => LET e == fx[table[1]]
       IN  Absolute(sent.constant.magnitude) <= CombinedGainUnsigned(Strength(e), e.params.gain, ff_gain)

(* "forwarding force feedback" (README.md:8): once a force has ended, a    *)
(* game that polls does not leave it on the wheel longer than the interval. *)
FinishedIsReleased ==
  polled /\ sent.constant.on = 1
    => \E e \in Effects, t \in 1..now : now - t < Interval /\ is_temporally_active(fx[e], t)
=============================================================================
