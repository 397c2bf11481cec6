------------------------- MODULE BridgeServerProofs -------------------------
(***************************************************************************)
(* Safety of the bridge server for any number of devices, of clicks in     *)
(* flight and of wheel states, and any refusals: type correctness, mutual  *)
(* exclusion of connect cycles and exclusive ownership of the wheels.      *)
(***************************************************************************)
EXTENDS BridgeServer, ForceLevelProofs, WheelProofs

ConstantAssumptions ==
  /\ Server \notin Clicks
  /\ Payloads \subseteq WheelStatePayload
  /\ {} \in Refusals

LEMMA Assumptions == ConstantAssumptions
BY ThreadsAssumption, PayloadsAssumption, RefusalsAssumption DEF ConstantAssumptions

-----------------------------------------------------------------------------
(* Types of the helpers.                                                   *)

LEMMA Int16IsInt == Int16 \subseteq Int /\ 0 \in Int16
BY DEF Int16

LEMMA ZeroPayloadType == ZeroPayload \in WheelStatePayload
BY Int16IsInt, ParamsAssumption DEF ZeroPayload, WheelStatePayload

LEMMA NoCacheType == NoCache \in Cache
BY ZeroPayloadType DEF NoCache, Cache, Level, MaxLevel

LEMMA LevelOfType ==
  ASSUME NEW p \in Payloads PROVE LevelOf[p.constant_force_magnitude] \in Level
<1>0. p \in WheelStatePayload
  BY Assumptions DEF ConstantAssumptions
<1>1. p.constant_force_magnitude \in Int
  <2>1. p.constant_force_magnitude \in Int16
    BY <1>0 DEF WheelStatePayload
  <2> QED  BY <2>1, Int16IsInt
<1>2. map_constant_magnitude_to_level(p.constant_force_magnitude) \in Level
  BY <1>1, LevelInRange, Zenon
<1>3. p.constant_force_magnitude \in {q.constant_force_magnitude : q \in Payloads}
  OBVIOUS
<1> QED  BY <1>2, <1>3 DEF LevelOf

LEMMA DesiredLevelType ==
  ASSUME TypeOK, NEW p \in Payloads PROVE DesiredLevel(p) \in Level
<1>1. cache.have_last_constant_level \in BOOLEAN /\ cache.last_constant_level \in Level
  BY DEF TypeOK, Cache
<1>2. LevelOf[p.constant_force_magnitude] \in Level
  BY LevelOfType
<1>3. 0 \in Level
  BY DEF Level, MaxLevel
<1>4. apply_constant_slew_limiter(LevelOf[p.constant_force_magnitude],
                                  cache.have_last_constant_level, cache.last_constant_level) \in Level
  BY <1>1, <1>2, LimiterBounds
<1> QED  BY <1>3, <1>4 DEF DesiredLevel

LEMMA CacheAfterType ==
  ASSUME TypeOK, NEW p \in Payloads PROVE CacheAfter(p) \in Cache
<1>1. p \in WheelStatePayload
  BY Assumptions DEF ConstantAssumptions
<1>2. DesiredLevel(p) \in Level
  BY DesiredLevelType
<1> QED  BY <1>1, <1>2 DEF CacheAfter, Cache

LEMMA PayloadParts ==
  ASSUME NEW p \in Payloads
  PROVE  /\ p \in WheelStatePayload
         /\ SpringOf(p) \in Params /\ DamperOf(p) \in Params /\ p.autocenter \in Params
         /\ p.autocenter_enabled \in BOOLEAN
<1>1. p \in WheelStatePayload
  BY Assumptions DEF ConstantAssumptions
<1>2. /\ p.spring \in Params /\ p.damper \in Params /\ p.autocenter \in Params
      /\ p.autocenter_enabled \in BOOLEAN
  BY <1>1 DEF WheelStatePayload
<1> QED  BY <1>1, <1>2, ParamsAssumption DEF SpringOf, DamperOf

LEMMA WriteStateType ==
  ASSUME TypeOK, NEW p \in Payloads, NEW r \in Registers, NEW rej
  PROVE  WriteState(p, r, rej) \in Progress
<1> DEFINE turnOn  == AutocenterChanged(p) /\ p.autocenter_enabled
           turnOff == AutocenterChanged(p) /\ ~p.autocenter_enabled
           byte    == Clamp(0, 255, Neutral + DesiredLevel(p))
           s1 == TryIf(SpringChanged(p), Begin(r), rej, "set_custom_spring", SpringOf(p))
           s2 == TryIf(DamperChanged(p), s1, rej, "set_damper", DamperOf(p))
           s3 == TryIf(turnOn, s2, rej, "enable_autocenter", Off)
           s4 == TryIf(turnOn, s3, rej, "set_autocenter_spring", p.autocenter)
           s5 == TryIf(turnOff, s4, rej, "disable_autocenter", Off)
           s6 == TryIf(LevelChanged(p), s5, rej, "set_constant_force", byte)
<1>1. /\ SpringChanged(p) \in BOOLEAN /\ DamperChanged(p) \in BOOLEAN
      /\ turnOn \in BOOLEAN /\ turnOff \in BOOLEAN
  BY DEF SpringChanged, DamperChanged, AutocenterChanged
<1>2. LevelChanged(p) \in BOOLEAN
  BY DEF LevelChanged, TypeOK, Cache
<1>3. byte \in Byte
  BY DesiredLevelType DEF Byte, Clamp, Larger, Smaller, Neutral, Level, MaxLevel
<1>4. SpringOf(p) \in Params /\ DamperOf(p) \in Params /\ p.autocenter \in Params
  BY PayloadParts
<1> HIDE DEF turnOn, turnOff, byte
<1>5. s1 \in Progress
  BY <1>1, <1>4, BeginType, TryIfType, ValuesOK, CommandsOK
<1> HIDE DEF s1
<1>6. s2 \in Progress
  BY <1>1, <1>4, <1>5, TryIfType, ValuesOK, CommandsOK
<1> HIDE DEF s2
<1>7. s3 \in Progress
  BY <1>1, <1>6, TryIfType, ValuesOK, CommandsOK
<1> HIDE DEF s3
<1>8. s4 \in Progress
  BY <1>1, <1>4, <1>7, TryIfType, ValuesOK, CommandsOK
<1> HIDE DEF s4
<1>9. s5 \in Progress
  BY <1>1, <1>8, TryIfType, ValuesOK, CommandsOK
<1> HIDE DEF s5
<1>10. s6 \in Progress
  BY <1>2, <1>3, <1>9, TryIfType, ValuesOK, CommandsOK
<1> QED  BY <1>10 DEF WriteState, s1, s2, s3, s4, s5, turnOn, turnOff, byte

LEMMA ResetTypes ==
  ASSUME TypeOK, NEW rej
  PROVE  /\ RegStopped(rej) \in [Devices -> Registers]
         /\ CacheStopped \in Cache
         /\ \A D, commands : D \subseteq Devices => DirtyAfterReset(D, rej, commands) \subseteq Devices
         /\ \A D : \A registers \in [Devices -> Registers] :
              RegDestroyed(D, registers, rej) \in [Devices -> Registers]
<1>1. RegStopped(rej) \in [Devices -> Registers]
  BY ForcesStoppedType DEF RegStopped, TypeOK
<1>2. CacheStopped \in Cache
  BY NoCacheType DEF CacheStopped, TypeOK
<1>3. ASSUME NEW D, NEW commands, D \subseteq Devices
      PROVE  DirtyAfterReset(D, rej, commands) \subseteq Devices
  BY <1>3 DEF DirtyAfterReset, TypeOK
<1>4. ASSUME NEW D, NEW registers \in [Devices -> Registers]
      PROVE  RegDestroyed(D, registers, rej) \in [Devices -> Registers]
  BY DestroyedType DEF RegDestroyed
<1> QED  BY <1>1, <1>2, <1>3, <1>4
-----------------------------------------------------------------------------
(* TypeOK is inductive: one lemma per thread.                              *)

LEMMA InitType == Init => TypeOK
<1> SUFFICES ASSUME Init PROVE TypeOK
  OBVIOUS
<1>1. PowerOn \subseteq Registers
  BY DEF PowerOn
<1> QED  BY <1>1, NoCacheType
  DEF Init, TypeOK, MainPlaces, ServerPlaces, CyclePlaces, NoMessage

LEMMA StopLockedType ==
  ASSUME TypeOK, NEW rej, StopLocked(rej)
  PROVE  /\ status' \in [listening : BOOLEAN, client_connected : BOOLEAN, wheel_connected : BOOLEAN]
         /\ reg' \in [Devices -> Registers] /\ dirty' \subseteq Devices
         /\ wheels' \subseteq Devices /\ in_progress' \in BOOLEAN /\ cache' \in Cache
<1>1. RegStopped(rej) \in [Devices -> Registers]
  BY ResetTypes
<1>2. reg' \in [Devices -> Registers]
  BY <1>1, ResetTypes DEF StopLocked
<1>3. dirty' \subseteq Devices
  BY ResetTypes DEF StopLocked, TypeOK
<1>4. status' \in [listening : BOOLEAN, client_connected : BOOLEAN, wheel_connected : BOOLEAN]
  BY DEF StopLocked, TypeOK
<1> QED  BY <1>2, <1>3, <1>4, NoCacheType DEF StopLocked

LEMMA MainType ==
  ASSUME TypeOK, Start \/ RequestStop \/ Stop \/ Destroy \/ (\E t \in Clicks : Click(t))
  PROVE  TypeOK'
<1>1. CASE Start
  BY <1>1 DEF Start, TypeOK, GoTo, MainPlaces, ServerPlaces, lockedVars, cycleVars, deviceVars
<1>2. CASE RequestStop
  BY <1>2 DEF RequestStop, TypeOK, MainPlaces, serverVars, lockedVars, cycleVars, deviceVars
<1>3. CASE Stop
  <2>1. PICK rej : StopLocked(rej)
    BY <1>3 DEF Stop
  <2> QED  BY <1>3, <2>1, StopLockedType DEF Stop, TypeOK, MainPlaces, serverVars, cycleVars
<1>4. CASE Destroy
  <2>1. PICK rej : StopLocked(rej)
    BY <1>4 DEF Destroy
  <2> QED  BY <1>4, <2>1, StopLockedType DEF Destroy, TypeOK, MainPlaces, serverVars, cycleVars
<1>5. ASSUME NEW t \in Clicks, Click(t) PROVE TypeOK'
  BY <1>5 DEF Click, TypeOK, Threads, CyclePlaces, serverVars, lockedVars, deviceVars
<1> QED  BY <1>1, <1>2, <1>3, <1>4, <1>5

LEMMA CycleType ==
  ASSUME TypeOK, NEW t \in Threads, CycleStep(t) PROVE TypeOK'
<1> USE DEF serverVars, lockedVars, cycleVars, deviceVars
<1>1. CASE BeginCycle(t)
  BY <1>1 DEF BeginCycle, TypeOK, Return, CyclePlaces
<1>2. ASSUME NEW d \in Devices, DropPrevious(t, d) PROVE TypeOK'
  <2>1. PICK rej : reg' = RegDestroyed({d}, reg, rej) /\ dirty' = DirtyAfterReset({d}, rej, DestroyCommands)
    BY <1>2 DEF DropPrevious
  <2>2. reg' \in [Devices -> Registers] /\ dirty' \subseteq Devices
    BY <2>1, ResetTypes DEF TypeOK
  <2> QED  BY <1>2, <2>2 DEF DropPrevious, TypeOK
<1>3. CASE FindWheels(t)
  BY <1>3 DEF FindWheels, TypeOK, CyclePlaces
<1>4. ASSUME NEW d \in Devices, OpenWheel(t, d) PROVE TypeOK'
  BY <1>4 DEF OpenWheel, TypeOK, CyclePlaces
<1>5. ASSUME NEW d \in Devices, NEW r \in Registers, Discard(t, d, r)
      PROVE  /\ reg' \in [Devices -> Registers] /\ dirty' \subseteq Devices
             /\ cur' \in [Threads -> SUBSET Devices] /\ ready' \in [Threads -> SUBSET Devices]
             /\ at' \in [Threads -> CyclePlaces]
  <2>1. PICK rej : /\ reg' = RegDestroyed({d}, [reg EXCEPT ![d] = r], rej)
                   /\ dirty' = DirtyAfterReset({d}, rej, DestroyCommands)
    BY <1>5 DEF Discard
  <2>2. [reg EXCEPT ![d] = r] \in [Devices -> Registers]
    BY DEF TypeOK
  <2>3. reg' \in [Devices -> Registers] /\ dirty' \subseteq Devices
    BY <2>1, <2>2, ResetTypes
  <2> QED  BY <1>5, <2>3 DEF Discard, TypeOK, CyclePlaces
<1>6. ASSUME NEW d \in Devices, StartCalibration(t, d) PROVE TypeOK'
  <2>1. PICK rej \in Refusals :
          LET result == CalibrationStart(reg[d], rej)
          IN  \/ /\ result.ok
                 /\ reg' = [reg EXCEPT ![d] = result.r]
                 /\ at' = [at EXCEPT ![t] = "test"]
                 /\ UNCHANGED <<cur, ready, dirty>>
              \/ ~result.ok /\ Discard(t, d, result.r)
    BY <1>6 DEF StartCalibration
  <2>2. CalibrationStart(reg[d], rej).r \in Registers
    BY CalibrationStartType DEF TypeOK, Progress
  <2> QED  BY <1>5, <1>6, <2>1, <2>2 DEF StartCalibration, TypeOK, CyclePlaces
<1>7. ASSUME NEW d \in Devices, EndCalibration(t, d) PROVE TypeOK'
  <2>1. PICK rej \in Refusals :
          LET result == CalibrationEnd(reg[d], rej)
          IN  \/ /\ result.ok
                 /\ reg' = [reg EXCEPT ![d] = result.r]
                 /\ dirty' = dirty \ {d}
                 /\ ready' = [ready EXCEPT ![t] = @ \cup {d}]
                 /\ cur' = [cur EXCEPT ![t] = {}]
                 /\ at' = [at EXCEPT ![t] = "open"]
              \/ ~result.ok /\ Discard(t, d, result.r)
    BY <1>7 DEF EndCalibration
  <2>2. CalibrationEnd(reg[d], rej).r \in Registers
    BY CalibrationEndType DEF TypeOK, Progress
  <2> QED  BY <1>5, <1>7, <2>1, <2>2 DEF EndCalibration, TypeOK, CyclePlaces
<1>8. CASE FinishCycle(t)
  <2>1. PICK rej : reg' = RegDestroyed(wheels, reg, rej) /\ dirty' = DirtyAfterReset(wheels, rej, DestroyCommands)
    BY <1>8 DEF FinishCycle
  <2>2. reg' \in [Devices -> Registers] /\ dirty' \subseteq Devices
    BY <2>1, ResetTypes DEF TypeOK
  <2>3. cache' \in Cache
    BY <1>8, NoCacheType DEF FinishCycle, CacheAfterCycle
  <2>4. status' \in [listening : BOOLEAN, client_connected : BOOLEAN, wheel_connected : BOOLEAN]
    BY <1>8 DEF FinishCycle, StatusAfterCycle, TypeOK
  <2> QED  BY <1>8, <2>2, <2>3, <2>4 DEF FinishCycle, Return, TypeOK, CyclePlaces
<1> QED  BY <1>1, <1>2, <1>3, <1>4, <1>6, <1>7, <1>8 DEF CycleStep

LEMMA HandlingType ==
  ASSUME TypeOK, HandleState \/ HandleLed \/ HandleStopAll \/ EndSession PROVE TypeOK'
<1> USE DEF serverVars, lockedVars, cycleVars, deviceVars, GoTo, Handled, ServerPlaces
<1>0. NoMessage \in StateMessages \cup {LedMessage, NoMessage}
  OBVIOUS
<1>1. CASE HandleState
  <2> DEFINE p == message.payload
  <2>1. p \in Payloads
    BY <1>1 DEF HandleState, TypeOK, StateMessages, LedMessage, NoMessage
  <2>2. p \in WheelStatePayload
    BY <2>1, PayloadParts
  <2> HIDE DEF p
  <2>3. CASE ApplyWhileBusy \/ ApplyWithoutWheels \/ ApplyRepeated(p)
    BY <1>0, <1>1, <2>3 DEF HandleState, ApplyWhileBusy, ApplyWithoutWheels, ApplyRepeated, TypeOK
  <2>4. CASE ApplyNoEffect(p)
    <3>1. PICK rej : reg' = RegStopped(rej) /\ dirty' = DirtyAfterReset(wheels, rej, StopCommands)
      BY <2>4 DEF ApplyNoEffect
    <3>2. reg' \in [Devices -> Registers] /\ dirty' \subseteq Devices
      BY <3>1, ResetTypes DEF TypeOK
    <3>3. cache' \in Cache
      BY <2>2, <2>4, NoCacheType DEF ApplyNoEffect, Cache
    <3> QED  BY <1>0, <1>1, <2>4, <3>2, <3>3 DEF HandleState, ApplyNoEffect, TypeOK
  <2>5. CASE ApplyEffects(p)
    <3>1. PICK rej \in [wheels -> Refusals] :
            LET result  == [d \in wheels |-> WriteState(p, reg[d], rej[d])]
                applied == {d \in wheels : result[d].ok}
            IN  /\ reg' = [d \in Devices |-> IF d \in wheels THEN result[d].r ELSE reg[d]]
                /\ dirty' = dirty \cup (wheels \ applied)
                /\ \/ /\ applied # {}
                      /\ cache' = CacheAfter(p)
                      /\ Handled("session")
                      /\ UNCHANGED status
                   \/ /\ applied = {}
                      /\ status' = [status EXCEPT !.wheel_connected = FALSE]
                      /\ Handled("closing")
                      /\ UNCHANGED cache
      BY <2>5 DEF ApplyEffects
    <3> DEFINE result == [d \in wheels |-> WriteState(p, reg[d], rej[d])]
    <3>2. \A d \in wheels : result[d].r \in Registers
      <4> SUFFICES ASSUME NEW d \in wheels PROVE WriteState(p, reg[d], rej[d]).r \in Registers
        OBVIOUS
      <4>1. reg[d] \in Registers
        BY DEF TypeOK
      <4>2. WriteState(p, reg[d], rej[d]) \in Progress
        BY <2>1, <4>1, WriteStateType
      <4> QED  BY <4>2 DEF Progress
    <3>3. reg' = [d \in Devices |-> IF d \in wheels THEN result[d].r ELSE reg[d]]
      BY <3>1
    <3> HIDE DEF result
    <3>4. reg' \in [Devices -> Registers]
      BY <3>2, <3>3 DEF TypeOK
    <3>5. dirty' \subseteq Devices
      BY <3>1 DEF TypeOK
    <3>6. /\ cache' \in Cache
          /\ status' \in [listening : BOOLEAN, client_connected : BOOLEAN, wheel_connected : BOOLEAN]
          /\ server' \in {"session", "closing"} /\ message' = NoMessage
      BY <2>1, <3>1, CacheAfterType DEF TypeOK
    <3> QED  BY <1>0, <1>1, <2>5, <3>4, <3>5, <3>6 DEF HandleState, ApplyEffects, TypeOK
  <2> QED  BY <1>1, <2>3, <2>4, <2>5 DEF HandleState, p
<1>2. CASE HandleLed
  <2>1. CASE ApplyWhileBusy \/ ApplyWithoutWheels
    BY <1>0, <1>2, <2>1 DEF HandleLed, ApplyWhileBusy, ApplyWithoutWheels, TypeOK
  <2>2. CASE LedShown
    <3>1. cache' \in Cache
      BY <2>2 DEF LedShown, TypeOK, Cache
    <3> QED  BY <1>0, <1>2, <2>2, <3>1 DEF HandleLed, LedShown, TypeOK
  <2> QED  BY <1>2, <2>1, <2>2 DEF HandleLed
<1>3. CASE HandleStopAll
  <2>1. PICK rej : reg' = RegStopped(rej) /\ dirty' = DirtyAfterReset(wheels, rej, StopCommands)
    BY <1>3 DEF HandleStopAll
  <2>2. reg' \in [Devices -> Registers] /\ dirty' \subseteq Devices /\ CacheStopped \in Cache
    BY <2>1, ResetTypes DEF TypeOK
  <2> QED  BY <1>3, <2>2 DEF HandleStopAll, TypeOK
<1>4. CASE EndSession
  <2>1. PICK rej : reg' = RegStopped(rej) /\ dirty' = DirtyAfterReset(wheels, rej, StopCommands)
    BY <1>4 DEF EndSession
  <2>2. reg' \in [Devices -> Registers] /\ dirty' \subseteq Devices /\ CacheStopped \in Cache
    BY <2>1, ResetTypes DEF TypeOK
  <2> QED  BY <1>4, <2>2 DEF EndSession, TypeOK
<1> QED  BY <1>1, <1>2, <1>3, <1>4

LEMMA ServerType == ASSUME TypeOK, ServerStep PROVE TypeOK'
<1> USE DEF serverVars, lockedVars, cycleVars, deviceVars, GoTo, Handled, OnlyServer, ServerPlaces
<1>0. Server \in Threads
  BY DEF Threads
<1>1. CASE Bind
  BY <1>0, <1>1 DEF Bind, TypeOK, CyclePlaces
<1>2. CASE Booted \/ Connected
  BY <1>0, <1>2 DEF Booted, Connected, TypeOK, CyclePlaces
<1>3. CASE Loop \/ SelectTimeout \/ Session \/ RecvFails \/ HandleHello \/ HandlePing \/ ReceiveStopAll
  BY <1>3 DEF Loop, SelectTimeout, Session, RecvFails, HandleHello, HandlePing, ReceiveStopAll, TypeOK
<1>4. CASE LeaveLoop
  BY <1>4 DEF LeaveLoop, TypeOK
<1>5. CASE AcceptClient
  BY <1>5 DEF AcceptClient, TypeOK
<1>6. CASE Receive
  BY <1>6 DEF Receive, TypeOK
<1>7. CASE Ensure
  BY <1>0, <1>7 DEF Ensure, TypeOK, CyclePlaces
<1>8. CASE Recheck
  BY <1>8 DEF Recheck, TypeOK
<1> QED  BY <1>1, <1>2, <1>3, <1>4, <1>5, <1>6, <1>7, <1>8, HandlingType DEF ServerStep

LEMMA NextType == TypeOK /\ [Next]_vars => TypeOK'
<1> SUFFICES ASSUME TypeOK, [Next]_vars PROVE TypeOK'
  OBVIOUS
<1>1. CASE UNCHANGED vars
  BY <1>1 DEF vars, serverVars, lockedVars, cycleVars, deviceVars, TypeOK
<1>2. ASSUME NEW t \in Threads, CycleStep(t) PROVE TypeOK'
  BY <1>2, CycleType
<1> QED  BY <1>1, <1>2, MainType, ServerType DEF Next, Terminated

(* Whatever the threads, messages and refusals, every variable of the      *)
(* server keeps its type: no level or byte leaves its range, no device     *)
(* appears that is not one.                                                *)
THEOREM TypeCorrect == Spec => []TypeOK
BY InitType, NextType, PTL DEF Spec

-----------------------------------------------------------------------------
(* Exclusion and ownership.  OneCycleAtATime alone is not inductive: that  *)
(* a thread enters a cycle only from outside one rests on the server thread*)
(* being in no cycle but where it waits for one, and that the wheels are   *)
(* owned once on the shape of a cycle's local state at each of its places. *)

ServerOutsideCycle ==
  /\ server \notin {"boot", "connect"} => at[Server] = "idle"
  /\ main = "launch" => server = "none"

CycleShape ==
  \A t \in Threads :
    /\ ~InCycle(t) => prev[t] = {} /\ todo[t] = {} /\ cur[t] = {} /\ ready[t] = {}
    /\ at[t] = "drop" => todo[t] = {} /\ cur[t] = {} /\ ready[t] = {}
    /\ at[t] = "open" => prev[t] = {} /\ cur[t] = {}
    /\ at[t] \in {"calibrate", "test"} => prev[t] = {}
    /\ cur[t] \cap ready[t] = {} /\ todo[t] \cap ready[t] = {} /\ cur[t] \cap todo[t] = {}

OwnershipInv == TypeOK /\ ServerOutsideCycle /\ CycleShape /\ OneCycleAtATime

LEMMA InitOwnership == Init => OwnershipInv
<1> SUFFICES ASSUME Init PROVE OwnershipInv
  OBVIOUS
<1>1. Server \in Threads
  BY DEF Threads
<1>2. \A t \in Threads : ~InCycle(t)
  BY DEF Init, InCycle
<1> QED  BY <1>1, <1>2, InitType
  DEF Init, OwnershipInv, ServerOutsideCycle, CycleShape, OneCycleAtATime

(* Most steps leave the cycles, the flag and the table alone.              *)
LEMMA OwnershipFrame ==
  ASSUME OwnershipInv, TypeOK', UNCHANGED <<cycleVars, wheels, in_progress>>,
         BeforeStop' => BeforeStop, ServerOutsideCycle'
  PROVE  OwnershipInv'
BY DEF OwnershipInv, CycleShape, OneCycleAtATime, InCycle, cycleVars

(* A thread that moves between places outside a cycle changes nothing.     *)
LEMMA OwnershipOutside ==
  ASSUME OwnershipInv, TypeOK', NEW t \in Threads, NEW place \in CyclePlaces,
         ~InCycle(t), place \notin {"drop", "open", "calibrate", "test"},
         at' = [at EXCEPT ![t] = place],
         UNCHANGED <<prev, todo, cur, ready, wheels, in_progress>>,
         BeforeStop' => BeforeStop, ServerOutsideCycle'
  PROVE  OwnershipInv'
<1>1. \A u \in Threads : InCycle(u)' <=> InCycle(u)
  BY DEF InCycle, OwnershipInv, TypeOK
<1>2. OneCycleAtATime'
  BY <1>1 DEF OwnershipInv, OneCycleAtATime
<1>3. CycleShape'
  BY <1>1 DEF OwnershipInv, CycleShape, TypeOK, InCycle
<1> QED  BY <1>2, <1>3 DEF OwnershipInv

LEMMA CycleOwnership ==
  ASSUME OwnershipInv, NEW t \in Threads, CycleStep(t) PROVE OwnershipInv'
<1> USE DEF serverVars, lockedVars, cycleVars, deviceVars
<1>1. TypeOK'
  BY CycleType DEF OwnershipInv
<1>2. at[t] # "idle" /\ main' = main /\ server' = server
  BY DEF CycleStep, BeginCycle, DropPrevious, FindWheels, OpenWheel, StartCalibration,
         EndCalibration, FinishCycle
<1>3. \A u \in Threads \ {t} :
        at'[u] = at[u] /\ prev'[u] = prev[u] /\ todo'[u] = todo[u] /\ cur'[u] = cur[u] /\ ready'[u] = ready[u]
  BY DEF CycleStep, BeginCycle, DropPrevious, FindWheels, OpenWheel, StartCalibration,
         EndCalibration, FinishCycle, Discard, Return, OwnershipInv, TypeOK
<1>4. ServerOutsideCycle'
  <2>1. Server \in Threads
    BY DEF Threads
  <2>2. CASE t = Server
    BY <1>2, <2>2 DEF OwnershipInv, ServerOutsideCycle
  <2>3. CASE t # Server
    BY <1>2, <1>3, <2>1, <2>3 DEF OwnershipInv, ServerOutsideCycle
  <2> QED  BY <2>2, <2>3
<1>5. \A u \in Threads \ {t} : InCycle(u)' <=> InCycle(u)
  BY <1>3 DEF InCycle
<1>6. CycleShape' /\ OneCycleAtATime'
  <2>1. CASE BeginCycle(t)
    <3>1. CASE MayBegin(t) /\ in_progress' = TRUE /\ wheels' = {} /\ at' = [at EXCEPT ![t] = "drop"]
               /\ prev' = [prev EXCEPT ![t] = wheels]
      <4>1. InCycle(t)' /\ at'[t] = "drop" /\ ~InCycle(t)
        BY <2>1, <3>1 DEF BeginCycle, InCycle, OwnershipInv, TypeOK
      <4>2. CycleShape'
        BY <1>3, <1>5, <2>1, <4>1 DEF BeginCycle, CycleShape, OwnershipInv
      <4>3. OneCycleAtATime'
        BY <1>2, <1>5, <3>1, <4>1 DEF MayBegin, OneCycleAtATime, OwnershipInv, BeforeStop
      <4> QED  BY <4>2, <4>3
    <3>2. CASE ~InCycle(t)' /\ UNCHANGED <<wheels, in_progress, prev>>
      <4>1. ~InCycle(t)
        BY <2>1 DEF BeginCycle, InCycle
      <4>2. CycleShape'
        BY <1>3, <1>5, <2>1, <3>2, <4>1 DEF BeginCycle, CycleShape, OwnershipInv, InCycle
      <4>3. OneCycleAtATime'
        BY <1>2, <1>5, <3>2, <4>1 DEF OneCycleAtATime, OwnershipInv, BeforeStop
      <4> QED  BY <4>2, <4>3
    <3> QED
      BY <2>1, <3>1, <3>2 DEF BeginCycle, Return, InCycle, OwnershipInv, TypeOK
  <2>2. CASE FinishCycle(t)
    <3>1. InCycle(t) /\ ~InCycle(t)' /\ in_progress' = FALSE
      BY <2>2 DEF FinishCycle, Return, InCycle, OwnershipInv, TypeOK
    <3>2. prev'[t] = {} /\ todo'[t] = {} /\ cur'[t] = {} /\ ready'[t] = {}
      BY <2>2 DEF FinishCycle, OwnershipInv, CycleShape, TypeOK
    <3>3. CycleShape'
      BY <1>3, <1>5, <3>1, <3>2 DEF CycleShape, OwnershipInv, InCycle
    <3>4. OneCycleAtATime'
      BY <1>2, <1>5, <3>1 DEF OneCycleAtATime, OwnershipInv, BeforeStop
    <3> QED  BY <3>3, <3>4
  <2>3. ASSUME InCycle(t), InCycle(t)', UNCHANGED <<wheels, in_progress>> PROVE OneCycleAtATime'
    BY <1>2, <1>5, <2>3 DEF OneCycleAtATime, OwnershipInv, BeforeStop
  <2>4. ASSUME NEW d \in Devices, DropPrevious(t, d) PROVE CycleShape' /\ OneCycleAtATime'
    <3>1. InCycle(t) /\ InCycle(t)' /\ at'[t] = "drop"
      BY <2>4 DEF DropPrevious, InCycle
    <3> QED  BY <1>3, <1>5, <2>3, <2>4, <3>1 DEF DropPrevious, CycleShape, OwnershipInv
  <2>5. CASE FindWheels(t)
    <3>1. InCycle(t) /\ InCycle(t)' /\ at'[t] = "open"
      BY <2>5 DEF FindWheels, InCycle, OwnershipInv, TypeOK
    <3> QED  BY <1>3, <1>5, <2>3, <2>5, <3>1 DEF FindWheels, CycleShape, OwnershipInv
  <2>6. ASSUME NEW d \in Devices, OpenWheel(t, d) PROVE CycleShape' /\ OneCycleAtATime'
    <3>1. InCycle(t) /\ InCycle(t)' /\ at'[t] \in {"open", "calibrate"}
      BY <2>6 DEF OpenWheel, InCycle, OwnershipInv, TypeOK
    <3>2. CycleShape'
      BY <1>3, <1>5, <2>6, <3>1 DEF OpenWheel, CycleShape, OwnershipInv, TypeOK
    <3> QED  BY <2>3, <2>6, <3>1, <3>2 DEF OpenWheel
  <2>7. ASSUME NEW d \in Devices, StartCalibration(t, d) \/ EndCalibration(t, d)
        PROVE  CycleShape' /\ OneCycleAtATime'
    <3>1. InCycle(t) /\ at[t] \in {"calibrate", "test"} /\ d \in cur[t] /\ UNCHANGED <<prev, todo, wheels, in_progress>>
      BY <2>7 DEF StartCalibration, EndCalibration, InCycle
    <3>2. \/ at'[t] = "test" /\ UNCHANGED <<cur, ready>>
          \/ at'[t] = "open" /\ cur'[t] = {} /\ ready'[t] \subseteq ready[t] \cup cur[t]
      <4>1. \A r : Discard(t, d, r) => at'[t] = "open" /\ cur'[t] = {} /\ ready'[t] = ready[t]
        BY DEF Discard, OwnershipInv, TypeOK
      <4>2. CASE StartCalibration(t, d)
        <5>1. \/ at' = [at EXCEPT ![t] = "test"] /\ UNCHANGED <<cur, ready>>
              \/ \E r : Discard(t, d, r)
          BY <4>2 DEF StartCalibration
        <5> QED  BY <4>1, <5>1 DEF OwnershipInv, TypeOK
      <4>3. CASE EndCalibration(t, d)
        <5>1. \/ /\ ready' = [ready EXCEPT ![t] = @ \cup {d}]
                 /\ cur' = [cur EXCEPT ![t] = {}]
                 /\ at' = [at EXCEPT ![t] = "open"]
              \/ \E r : Discard(t, d, r)
          BY <4>3 DEF EndCalibration
        <5> QED  BY <3>1, <4>1, <5>1 DEF OwnershipInv, TypeOK
      <4> QED  BY <2>7, <4>2, <4>3
    <3>3. InCycle(t)'
      BY <3>2 DEF InCycle
    <3>4. CycleShape'
      BY <1>3, <1>5, <3>1, <3>2, <3>3 DEF CycleShape, OwnershipInv
    <3> QED  BY <2>3, <3>1, <3>3, <3>4
  <2> QED  BY <2>1, <2>2, <2>4, <2>5, <2>6, <2>7 DEF CycleStep
<1> QED  BY <1>1, <1>4, <1>6 DEF OwnershipInv

LEMMA ServerOwnership ==
  ASSUME OwnershipInv, ServerStep PROVE OwnershipInv'
<1> USE DEF serverVars, lockedVars, deviceVars, GoTo, Handled, OnlyServer
<1>1. TypeOK' /\ Server \in Threads
  BY ServerType DEF OwnershipInv, Threads
<1>2. /\ BeforeStop' => BeforeStop
      /\ main' # "launch"
  BY DEF ServerStep, Bind, Booted, Loop, LeaveLoop, SelectTimeout, AcceptClient, Session, RecvFails,
         HandleHello, HandlePing, ReceiveStopAll, HandleStopAll, Receive, Ensure, Connected, Recheck,
         HandleState, HandleLed, EndSession, BeforeStop, OwnershipInv, ServerOutsideCycle
<1>3. CASE Bind \/ Booted \/ Ensure \/ Connected
  <2>1. CASE UNCHANGED cycleVars
    <3>1. UNCHANGED <<wheels, in_progress>>
      BY <1>3 DEF Bind, Booted, Ensure, Connected
    <3>2. ServerOutsideCycle'
      BY <1>1, <1>2, <1>3, <2>1
      DEF Bind, Booted, Ensure, Connected, OwnershipInv, TypeOK, ServerOutsideCycle, cycleVars
    <3> QED  BY <1>1, <1>2, <2>1, <3>1, <3>2, OwnershipFrame
  <2>2. ASSUME NEW place \in {"idle", "begin"}, at' = [at EXCEPT ![Server] = place],
               at[Server] \in {"idle", "connected", "unavailable"},
               ServerOutsideCycle', UNCHANGED <<prev, todo, cur, ready, wheels, in_progress>>
        PROVE  OwnershipInv'
    BY <1>1, <1>2, <2>2, OwnershipOutside DEF InCycle, CyclePlaces
  <2>3. CASE Bind
    <3>1. at[Server] = "idle"
      BY <2>3 DEF Bind, OwnershipInv, ServerOutsideCycle
    <3>2. at' = [at EXCEPT ![Server] = "begin"] \/ UNCHANGED cycleVars
      BY <2>3 DEF Bind, cycleVars
    <3>3. at' = [at EXCEPT ![Server] = "begin"] => ServerOutsideCycle'
      <4> SUFFICES ASSUME at' = [at EXCEPT ![Server] = "begin"] PROVE server' = "boot"
        BY <1>2 DEF ServerOutsideCycle
      <4>1. at'[Server] = "begin"
        BY <1>1 DEF OwnershipInv, TypeOK
      <4> QED  BY <2>3, <3>1, <4>1 DEF Bind
    <3> QED  BY <2>1, <2>2, <2>3, <3>1, <3>2, <3>3 DEF Bind
  <2>4. CASE Booted \/ Connected
    <3>1. at' = [at EXCEPT ![Server] = "idle"] /\ at[Server] \in {"connected", "unavailable"}
      BY <2>4 DEF Booted, Connected
    <3>2. ServerOutsideCycle'
      BY <1>1, <1>2, <3>1 DEF ServerOutsideCycle, OwnershipInv, TypeOK
    <3> QED  BY <2>2, <2>4, <3>1, <3>2 DEF Booted, Connected
  <2>5. CASE Ensure
    <3>1. at[Server] = "idle"
      BY <2>5 DEF Ensure, OwnershipInv, ServerOutsideCycle
    <3>2. \/ at' = [at EXCEPT ![Server] = "begin"] /\ server' = "connect"
          \/ UNCHANGED cycleVars
      BY <2>5 DEF Ensure, cycleVars
    <3> QED  BY <1>2, <2>1, <2>2, <2>5, <3>1, <3>2 DEF Ensure, ServerOutsideCycle
  <2> QED  BY <1>3, <2>3, <2>4, <2>5
<1>4. CASE ~(Bind \/ Booted \/ Ensure \/ Connected)
  <2>1. UNCHANGED <<cycleVars, wheels, in_progress>>
    BY <1>4 DEF ServerStep, Loop, LeaveLoop, SelectTimeout, AcceptClient, Session, RecvFails,
         HandleHello, HandlePing, ReceiveStopAll, HandleStopAll, Receive, Recheck, EndSession,
         HandleState, ApplyWhileBusy, ApplyWithoutWheels, ApplyNoEffect, ApplyRepeated, ApplyEffects,
         HandleLed, LedShown
  <2>2. server \notin {"boot", "connect"}
    BY <1>4 DEF ServerStep, Loop, LeaveLoop, SelectTimeout, AcceptClient, Session, RecvFails,
         HandleHello, HandlePing, ReceiveStopAll, HandleStopAll, Receive, Recheck, EndSession,
         HandleState, HandleLed
  <2>3. ServerOutsideCycle'
    BY <1>2, <2>1, <2>2 DEF ServerOutsideCycle, OwnershipInv, cycleVars
  <2> QED  BY <1>1, <1>2, <2>1, <2>3, OwnershipFrame
<1> QED  BY <1>3, <1>4

LEMMA MainOwnership ==
  ASSUME OwnershipInv, Start \/ RequestStop \/ Stop \/ Destroy \/ (\E t \in Clicks : Click(t))
  PROVE  OwnershipInv'
<1> USE DEF serverVars, lockedVars, deviceVars, GoTo
<1>1. TypeOK' /\ Server \in Threads
  BY MainType DEF OwnershipInv, Threads
<1>2. CASE Start \/ RequestStop
  <2>1. ServerOutsideCycle' /\ (BeforeStop' => BeforeStop)
    BY <1>2 DEF Start, RequestStop, OwnershipInv, ServerOutsideCycle, BeforeStop, cycleVars
  <2> QED  BY <1>1, <1>2, <2>1, OwnershipFrame DEF Start, RequestStop
<1>3. CASE Stop \/ Destroy
  <2>1. UNCHANGED <<cycleVars, serverVars>> /\ ~BeforeStop' /\ main' # "launch"
    BY <1>3 DEF Stop, Destroy, BeforeStop
  <2>2. ServerOutsideCycle' /\ CycleShape'
    BY <2>1 DEF OwnershipInv, ServerOutsideCycle, CycleShape, InCycle, cycleVars
  <2> QED  BY <1>1, <2>1, <2>2 DEF OwnershipInv, OneCycleAtATime
<1>4. ASSUME NEW t \in Clicks, Click(t) PROVE OwnershipInv'
  <2>1. t \in Threads /\ t # Server /\ "begin" \in CyclePlaces /\ ~InCycle(t)
    BY <1>4, Assumptions DEF Threads, ConstantAssumptions, CyclePlaces, Click, InCycle
  <2>2. ServerOutsideCycle' /\ (BeforeStop' => BeforeStop)
    BY <1>1, <1>4, <2>1 DEF Click, OwnershipInv, TypeOK, ServerOutsideCycle, BeforeStop
  <2> QED  BY <1>1, <1>4, <2>1, <2>2, OwnershipOutside DEF Click
<1> QED  BY <1>2, <1>3, <1>4

LEMMA NextOwnership == OwnershipInv /\ [Next]_vars => OwnershipInv'
<1> SUFFICES ASSUME OwnershipInv, [Next]_vars PROVE OwnershipInv'
  OBVIOUS
<1>1. CASE UNCHANGED vars
  <2>1. TypeOK'
    BY <1>1, NextType DEF OwnershipInv
  <2>2. ServerOutsideCycle' /\ (BeforeStop' => BeforeStop)
    BY <1>1 DEF vars, serverVars, cycleVars, OwnershipInv, ServerOutsideCycle, BeforeStop
  <2> QED  BY <1>1, <2>1, <2>2, OwnershipFrame DEF vars, lockedVars
<1>2. ASSUME NEW t \in Threads, CycleStep(t) PROVE OwnershipInv'
  BY <1>2, CycleOwnership
<1> QED  BY <1>1, <1>2, MainOwnership, ServerOwnership DEF Next, Terminated

LEMMA OwnershipAlways == Spec => []OwnershipInv
BY InitOwnership, NextOwnership, PTL DEF Spec

(* Until stop() has run, one connect cycle at most is under way, the flag  *)
(* says so, and no wheel is in service meanwhile, for any number of clicks.*)
THEOREM MutualExclusion == Spec => []OneCycleAtATime
<1>1. OwnershipInv => OneCycleAtATime
  BY DEF OwnershipInv
<1> QED  BY <1>1, OwnershipAlways, PTL

(* Ownership follows from the exclusion of cycles and the shape of one.    *)
LEMMA OwnedOnce == OwnershipInv => OneControllerPerWheel
<1> SUFFICES ASSUME OwnershipInv, BeforeStop PROVE OneControllerPerWheel
  BY DEF OneControllerPerWheel
<1>1. \A t \in Threads : ~InCycle(t) => Held(t) = {}
  BY DEF OwnershipInv, CycleShape, Held
<1>2. ASSUME NEW t \in Threads PROVE wheels \cap Held(t) = {}
  BY <1>1 DEF OwnershipInv, OneCycleAtATime
<1>3. ASSUME NEW t \in Threads, NEW u \in Threads, t # u PROVE Held(t) \cap Held(u) = {}
  BY <1>1, <1>3 DEF OwnershipInv, OneCycleAtATime
<1>4. ASSUME NEW t \in Threads
      PROVE  prev[t] \cap (cur[t] \cup ready[t]) = {} /\ cur[t] \cap ready[t] = {}
  BY DEF OwnershipInv, CycleShape, InCycle
<1> QED  BY <1>2, <1>3, <1>4 DEF OneControllerPerWheel

(* Until stop() has run, no wheel has two controllers.                     *)
THEOREM ExclusiveOwnership == Spec => []OneControllerPerWheel
BY OwnedOnce, OwnershipAlways, PTL
=============================================================================
