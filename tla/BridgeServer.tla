---------------------------- MODULE BridgeServer ----------------------------
(***************************************************************************)
(* G923Mac.app: the BridgeServer object and the threads that run in it     *)
(* (bridge_server.cpp, bridge_server.hpp, main.mm).                        *)
(*                                                                         *)
(*  - the main thread starts the server, and on Quit stops and destroys it;*)
(*  - the server thread accepts one client at a time and handles its       *)
(*    messages;                                                            *)
(*  - every click on "Reconnect Wheel" runs a connect cycle on a thread of *)
(*    the global queue, beside the server thread, which runs the same      *)
(*    cycle at boot and when a message finds no wheel.                     *)
(*                                                                         *)
(* mutex_ is never held over a wait of another thread, so a section locked *)
(* by it is one action; a cycle talks to the wheels outside the lock, one  *)
(* action per wheel and stage.  Not in the state: the text of the status   *)
(* line, packets_received, port, and LED patterns.                         *)
(***************************************************************************)
EXTENDS Wheel, ForceLevel

CONSTANTS
  Devices,      \* the G923 HID interfaces that may be plugged in
  Clicks,       \* threads that run the block of a click on "Reconnect Wheel"
  Server,       \* the server thread
  Payloads,     \* the wheel states a client may send
  LedClients,   \* may a client send set_led_pattern messages?
  Refusals      \* the sets of commands a wheel may refuse during one action

Threads == Clicks \cup {Server}

WheelStatePayload ==
  [ autocenter_enabled     : BOOLEAN, autocenter : Params,
    custom_spring_enabled  : BOOLEAN, spring     : Params,
    damper_enabled         : BOOLEAN, damper     : Params,
    constant_force_enabled : BOOLEAN, constant_force_magnitude : Int16 ]

ZeroPayload ==
  [ autocenter_enabled     |-> FALSE, autocenter |-> Off,
    custom_spring_enabled  |-> FALSE, spring     |-> Off,
    damper_enabled         |-> FALSE, damper     |-> Off,
    constant_force_enabled |-> FALSE, constant_force_magnitude |-> 0 ]

ASSUME ThreadsAssumption  == Server \notin Clicks
ASSUME PayloadsAssumption == Payloads \subseteq WheelStatePayload
ASSUME LedAssumption      == LedClients \in BOOLEAN
ASSUME RefusalsAssumption == {} \in Refusals /\ Refusals \subseteq SUBSET Commands

VARIABLES
  main,            \* the main thread's place
  server,          \* the server thread's place
  stop_requested,
  listen_fd,       \* "closed", "open" or "shut" (open, after shutdown())
  status,          \* the flags of the Status the menu shows
  wheels,          \* devices whose controllers are in wheels_
  in_progress,     \* wheel_operation_in_progress_
  cache,           \* what the server remembers of the last state it applied
  message,         \* the message the server thread is handling
  at,              \* per thread, its place in complete_wheel_connect_cycle
  prev,            \* per thread, previous_wheels still to be destroyed
  todo,            \* per thread, found devices not yet tried
  cur,             \* per thread, the device being calibrated (none or one)
  ready,           \* per thread, initialized_wheels
  reg,             \* the registers of every physical wheel
  dirty            \* ghost: wheels that refused a command and have not been reset since

cycleVars  == <<at, prev, todo, cur, ready>>
deviceVars == <<reg, dirty>>
serverVars == <<server, message>>
lockedVars == <<status, wheels, in_progress, cache>>
vars == <<main, serverVars, stop_requested, listen_fd, lockedVars, cycleVars, deviceVars>>

MainPlaces   == {"launch", "running", "joining", "stopped", "exited"}
ServerPlaces == {"none", "start", "boot", "loop", "select", "session", "recv", "stop_all",
                 "ensure", "connect", "recheck", "apply", "closing", "exited"}
CyclePlaces  == {"idle", "begin", "drop", "open", "calibrate", "test", "connected", "unavailable"}

Cache == [ last_constant_force_active : BOOLEAN,
           have_last_constant_level   : BOOLEAN,
           last_constant_level        : Level,
           have_last_wheel_state      : BOOLEAN,
           last_wheel_state           : WheelStatePayload ]

NoCache == [ last_constant_force_active |-> FALSE,
             have_last_constant_level   |-> FALSE,
             last_constant_level        |-> 0,
             have_last_wheel_state      |-> FALSE,
             last_wheel_state           |-> ZeroPayload ]

StateMessages == [type : {"apply_wheel_state"}, payload : Payloads]
LedMessage    == [type |-> "set_led_pattern", payload |-> ZeroPayload]
NoMessage     == [type |-> "none", payload |-> ZeroPayload]

TypeOK ==
  /\ main \in MainPlaces
  /\ server \in ServerPlaces
  /\ stop_requested \in BOOLEAN
  /\ listen_fd \in {"closed", "open", "shut"}
  /\ status \in [listening : BOOLEAN, client_connected : BOOLEAN, wheel_connected : BOOLEAN]
  /\ wheels \subseteq Devices
  /\ in_progress \in BOOLEAN
  /\ cache \in Cache
  /\ message \in StateMessages \cup {LedMessage, NoMessage}
  /\ at \in [Threads -> CyclePlaces]
  /\ prev \in [Threads -> SUBSET Devices]
  /\ todo \in [Threads -> SUBSET Devices]
  /\ cur \in [Threads -> SUBSET Devices]
  /\ ready \in [Threads -> SUBSET Devices]
  /\ reg \in [Devices -> Registers]
  /\ dirty \subseteq Devices

(* A wheel powers up without a force effect; its autocenter may be on.     *)
PowerOn == {r \in Registers : IsFree(r) /\ r.autocenter_spring = Off}

Init ==
  /\ main = "launch"
  /\ server = "none"
  /\ stop_requested = FALSE
  /\ listen_fd = "closed"
  /\ status = [listening |-> FALSE, client_connected |-> FALSE, wheel_connected |-> FALSE]
  /\ wheels = {}
  /\ in_progress = FALSE
  /\ cache = NoCache
  /\ message = NoMessage
  /\ at = [t \in Threads |-> "idle"]
  /\ prev = [t \in Threads |-> {}]
  /\ todo = [t \in Threads |-> {}]
  /\ cur = [t \in Threads |-> {}]
  /\ ready = [t \in Threads |-> {}]
  /\ reg \in [Devices -> PowerOn]
  /\ dirty = {}

-----------------------------------------------------------------------------
(* Helpers.                                                                *)

(* A step that resets the wheels of D with `commands` leaves dirty exactly *)
(* those of them that refused one.                                         *)
DirtyAfterReset(D, rej, commands) ==
  (dirty \ D) \cup {d \in D : rej[d] \cap commands # {}}

(* stop_wheel_forces_locked, as the values it leaves behind.               *)
RegStopped(rej) ==
  [d \in Devices |-> IF d \in wheels THEN ForcesStopped(reg[d], rej[d]) ELSE reg[d]]

(* Mutant: the forces are stopped, the memory of them is kept.             *)
CacheStoppedKeepsCache == cache

CacheStopped == IF wheels = {} THEN cache ELSE NoCache

(* Controllers of D destroyed.                                             *)
RegDestroyed(D, registers, rej) ==
  [d \in Devices |-> IF d \in D THEN Destroyed(registers[d], rej[d]) ELSE registers[d]]

(* The server thread's place follows a step of main or of a session only.  *)
GoTo(place) == server' = place
Handled(place) == GoTo(place) /\ message' = NoMessage

(* complete_wheel_connect_cycle returns; nobody waits for a click's result.*)
Return(t, result) == at' = [at EXCEPT ![t] = IF t \in Clicks THEN "idle" ELSE result]

-----------------------------------------------------------------------------
(* The main thread.                                                        *)

(* applicationDidFinishLaunching: BridgeServer::start.                     *)
Start ==
  /\ main = "launch"
  /\ main' = "running"
  /\ GoTo("start")
  /\ stop_requested' = FALSE
  /\ UNCHANGED <<message, listen_fd, lockedVars, cycleVars, deviceVars>>

(* stop() up to the join.  listen_fd_ is read without a lock, so the call  *)
(* of shutdown() may miss a socket that is just being opened or closed.    *)
RequestStop ==
  /\ main = "running"
  /\ main' = "joining"
  /\ stop_requested' = TRUE
  /\ listen_fd' \in IF listen_fd = "open" THEN {"open", "shut"} ELSE {listen_fd}
  /\ UNCHANGED <<serverVars, lockedVars, cycleVars, deviceVars>>

(* The locked end of stop(): the wheels in service are stopped and their   *)
(* controllers destroyed.  A wheel refuses the same commands throughout.   *)
StopLocked(rej) ==
  /\ status' = [status EXCEPT !.listening = FALSE, !.client_connected = FALSE, !.wheel_connected = FALSE]
  /\ reg' = RegDestroyed(wheels, RegStopped(rej), rej)
  /\ dirty' = DirtyAfterReset(wheels, rej, StopCommands)
  /\ wheels' = {}
  /\ in_progress' = FALSE
  /\ cache' = NoCache

Stop ==
  /\ main = "joining" /\ server = "exited"
  /\ main' = "stopped"
  /\ \E rej \in [wheels -> Refusals] : StopLocked(rej)
  /\ UNCHANGED <<serverVars, stop_requested, listen_fd, cycleVars>>

(* _server.reset(): ~BridgeServer stops once more.  A click's cycle that   *)
(* still runs is left with a dangling object; the process is ending and no *)
(* further step is modelled.                                               *)
Destroy ==
  /\ main = "stopped"
  /\ main' = "exited"
  /\ \E rej \in [wheels -> Refusals] : StopLocked(rej)
  /\ UNCHANGED <<serverVars, stop_requested, listen_fd, cycleVars>>

(* reconnectWheel: a block for the global queue; it may start much later.  *)
Click(t) ==
  /\ main = "running"
  /\ at[t] = "idle"
  /\ at' = [at EXCEPT ![t] = "begin"]
  /\ UNCHANGED <<main, serverVars, stop_requested, listen_fd, lockedVars, prev, todo, cur, ready, deviceVars>>

-----------------------------------------------------------------------------
(* complete_wheel_connect_cycle, on any thread; a click forces a reconnect.*)

(* Mutant: the flag is raised but nobody looks at it.                      *)
AlwaysMayBegin(t) == t \in Clicks \/ wheels = {}

(* A click needs a free flag, the server thread an empty table as well.    *)
MayBegin(t) == (t \in Clicks \/ wheels = {}) /\ ~in_progress

BeginCycle(t) ==
  /\ at[t] = "begin"
  /\ \/ /\ t \notin Clicks /\ wheels # {}
        /\ status' = [status EXCEPT !.wheel_connected = TRUE]
        /\ Return(t, "connected")
        /\ UNCHANGED <<wheels, in_progress, prev>>
     \/ /\ t \in Clicks \/ wheels = {}
        /\ in_progress
        /\ Return(t, "unavailable")
        /\ UNCHANGED <<status, wheels, in_progress, prev>>
     \/ /\ MayBegin(t)
        /\ in_progress' = TRUE
        /\ status' = [status EXCEPT !.wheel_connected = FALSE]
        /\ prev' = [prev EXCEPT ![t] = wheels]
        /\ wheels' = {}
        /\ at' = [at EXCEPT ![t] = "drop"]
  /\ UNCHANGED <<main, serverVars, stop_requested, listen_fd, cache, todo, cur, ready, deviceVars>>

(* previous_wheels.clear(), one controller at a time.                      *)
DropPrevious(t, d) ==
  /\ at[t] = "drop" /\ d \in prev[t]
  /\ prev' = [prev EXCEPT ![t] = @ \ {d}]
  /\ \E rej \in [{d} -> Refusals] :
       /\ reg' = RegDestroyed({d}, reg, rej)
       /\ dirty' = DirtyAfterReset({d}, rej, DestroyCommands)
  /\ UNCHANGED <<main, serverVars, stop_requested, listen_fd, lockedVars, at, todo, cur, ready>>

(* Mutant: with nothing plugged in, return without finishing the cycle.    *)
FindWheelsForgetsFinish(t) ==
  /\ at[t] = "drop" /\ prev[t] = {}
  /\ \E found \in SUBSET Devices :
       /\ todo' = [todo EXCEPT ![t] = found]
       /\ IF found = {} THEN Return(t, "unavailable") ELSE at' = [at EXCEPT ![t] = "open"]
  /\ UNCHANGED <<main, serverVars, stop_requested, listen_fd, lockedVars, prev, cur, ready, deviceVars>>

(* find_known_wheels: whatever is plugged in.                              *)
FindWheels(t) ==
  /\ at[t] = "drop" /\ prev[t] = {}
  /\ at' = [at EXCEPT ![t] = "open"]
  /\ \E found \in SUBSET Devices : todo' = [todo EXCEPT ![t] = found]
  /\ UNCHANGED <<main, serverVars, stop_requested, listen_fd, lockedVars, prev, cur, ready, deviceVars>>

(* initialize(): the device opens or is skipped.                           *)
OpenWheel(t, d) ==
  /\ at[t] = "open" /\ d \in todo[t]
  /\ todo' = [todo EXCEPT ![t] = @ \ {d}]
  /\ \/ /\ cur' = [cur EXCEPT ![t] = {d}]
        /\ at' = [at EXCEPT ![t] = "calibrate"]
     \/ UNCHANGED <<cur, at>>
  /\ UNCHANGED <<main, serverVars, stop_requested, listen_fd, lockedVars, prev, ready, deviceVars>>

(* calibrate() failed: the controller is destroyed, the next one is tried. *)
Discard(t, d, registers) ==
  /\ \E rej \in [{d} -> Refusals] :
       /\ reg' = RegDestroyed({d}, [reg EXCEPT ![d] = registers], rej)
       /\ dirty' = DirtyAfterReset({d}, rej, DestroyCommands)
  /\ cur' = [cur EXCEPT ![t] = {}]
  /\ at' = [at EXCEPT ![t] = "open"]
  /\ UNCHANGED ready

(* calibrate(), up to the wait with the test force on.                     *)
StartCalibration(t, d) ==
  /\ at[t] = "calibrate" /\ d \in cur[t]
  /\ \E rej \in Refusals :
       LET result == CalibrationStart(reg[d], rej)
       IN  \/ /\ result.ok
              /\ reg' = [reg EXCEPT ![d] = result.r]
              /\ at' = [at EXCEPT ![t] = "test"]
              /\ UNCHANGED <<cur, ready, dirty>>
           \/ ~result.ok /\ Discard(t, d, result.r)
  /\ UNCHANGED <<main, serverVars, stop_requested, listen_fd, lockedVars, prev, todo>>

(* calibrate(), from the end of that wait.                                 *)
EndCalibration(t, d) ==
  /\ at[t] = "test" /\ d \in cur[t]
  /\ \E rej \in Refusals :
       LET result == CalibrationEnd(reg[d], rej)
       IN  \/ /\ result.ok
              /\ reg' = [reg EXCEPT ![d] = result.r]
              /\ dirty' = dirty \ {d}
              /\ ready' = [ready EXCEPT ![t] = @ \cup {d}]
              /\ cur' = [cur EXCEPT ![t] = {}]
              /\ at' = [at EXCEPT ![t] = "open"]
           \/ ~result.ok /\ Discard(t, d, result.r)
  /\ UNCHANGED <<main, serverVars, stop_requested, listen_fd, lockedVars, prev, todo>>

(* Mutants: a cycle reports a wheel it did not get; it leaves the memory of *)
(* the last state to the recalibrated wheels.                              *)
StatusAlwaysConnected(t) == [status EXCEPT !.wheel_connected = TRUE]
CacheAfterCycleStale     == cache

StatusAfterCycle(t) == [status EXCEPT !.wheel_connected = ready[t] # {}]
CacheAfterCycle     == NoCache

(* finish_wheel_operation_locked and the return.  Controllers still in     *)
(* wheels_ (only after stop() has reset the flag under a running cycle)    *)
(* are replaced, so destroyed.                                             *)
FinishCycle(t) ==
  /\ at[t] = "open" /\ todo[t] = {}
  /\ wheels' = ready[t]
  /\ in_progress' = FALSE
  /\ status' = StatusAfterCycle(t)
  /\ cache' = CacheAfterCycle
  /\ ready' = [ready EXCEPT ![t] = {}]
  /\ Return(t, IF ready[t] # {} THEN "connected" ELSE "unavailable")
  /\ \E rej \in [wheels -> Refusals] :
       /\ reg' = RegDestroyed(wheels, reg, rej)
       /\ dirty' = DirtyAfterReset(wheels, rej, DestroyCommands)
  /\ UNCHANGED <<main, serverVars, stop_requested, listen_fd, prev, todo, cur>>

CycleStep(t) ==
  /\ main # "exited"
  /\ \/ BeginCycle(t)
     \/ \E d \in Devices : DropPrevious(t, d)
     \/ FindWheels(t)
     \/ \E d \in Devices : OpenWheel(t, d)
     \/ \E d \in Devices : StartCalibration(t, d)
     \/ \E d \in Devices : EndCalibration(t, d)
     \/ FinishCycle(t)

-----------------------------------------------------------------------------
(* apply_wheel_state_locked, for payload p.                                *)

(* The curve, tabulated over the magnitudes a client may send.             *)
LevelOf == [m \in {p.constant_force_magnitude : p \in Payloads} |-> map_constant_magnitude_to_level(m)]

HasAnyEffect(p) ==
  p.autocenter_enabled \/ p.custom_spring_enabled \/ p.damper_enabled \/ p.constant_force_enabled

DesiredLevel(p) ==
  IF p.constant_force_enabled
    THEN apply_constant_slew_limiter(LevelOf[p.constant_force_magnitude],
                                     cache.have_last_constant_level, cache.last_constant_level)
    ELSE 0

LevelChanged(p) ==
  IF DesiredLevel(p) # 0
    THEN ~cache.have_last_constant_level \/ DesiredLevel(p) # cache.last_constant_level
    ELSE cache.last_constant_force_active

IsRepeated(p) == cache.have_last_wheel_state /\ p = cache.last_wheel_state /\ ~LevelChanged(p)

SpringChanged(p) ==
  \/ ~cache.have_last_wheel_state
  \/ p.custom_spring_enabled # cache.last_wheel_state.custom_spring_enabled
  \/ p.spring # cache.last_wheel_state.spring

DamperChanged(p) ==
  \/ ~cache.have_last_wheel_state
  \/ p.damper_enabled # cache.last_wheel_state.damper_enabled
  \/ p.damper # cache.last_wheel_state.damper

AutocenterChanged(p) ==
  \/ ~cache.have_last_wheel_state
  \/ p.autocenter_enabled # cache.last_wheel_state.autocenter_enabled
  \/ p.autocenter # cache.last_wheel_state.autocenter

(* The settings a payload asks for.  A disabled effect is sent with zero   *)
(* coefficients (a spring keeps its dead band, without a force around it). *)
SpringOf(p) == IF p.custom_spring_enabled THEN p.spring ELSE Off
DamperOf(p) == IF p.damper_enabled THEN p.damper ELSE Off

(* The commands one wheel gets: only what changed since the cached state,  *)
(* until one is refused.                                                   *)
WriteState(p, r, rej) ==
  LET spring   == TryIf(SpringChanged(p), Begin(r), rej, "set_custom_spring", SpringOf(p))
      damper   == TryIf(DamperChanged(p), spring, rej, "set_damper", DamperOf(p))
      turnOn   == AutocenterChanged(p) /\ p.autocenter_enabled
      turnOff  == AutocenterChanged(p) /\ ~p.autocenter_enabled
      enabled  == TryIf(turnOn, damper, rej, "enable_autocenter", Off)
      shaped   == TryIf(turnOn, enabled, rej, "set_autocenter_spring", p.autocenter)
      disabled == TryIf(turnOff, shaped, rej, "disable_autocenter", Off)
  IN  TryIf(LevelChanged(p), disabled, rej, "set_constant_force",
            Clamp(0, 255, Neutral + DesiredLevel(p)))

(* Mutant: the byte sent is remembered, not the level.                     *)
CacheAfterKeepsByte(p) ==
  [ last_constant_force_active |-> DesiredLevel(p) # 0,
    have_last_constant_level   |-> DesiredLevel(p) # 0,
    last_constant_level        |-> Neutral + DesiredLevel(p),
    have_last_wheel_state      |-> TRUE,
    last_wheel_state           |-> p ]

CacheAfter(p) ==
  [ last_constant_force_active |-> DesiredLevel(p) # 0,
    have_last_constant_level   |-> DesiredLevel(p) # 0,
    last_constant_level        |-> DesiredLevel(p),
    have_last_wheel_state      |-> TRUE,
    last_wheel_state           |-> p ]

(* A connect cycle is running: the message is dropped, the session goes on.*)
ApplyWhileBusy ==
  /\ in_progress
  /\ Handled("session")
  /\ UNCHANGED <<lockedVars, deviceVars>>

(* The wheels went away since they were looked for.                        *)
ApplyWithoutWheels ==
  /\ ~in_progress /\ wheels = {}
  /\ status' = [status EXCEPT !.wheel_connected = FALSE]
  /\ Handled("closing")
  /\ UNCHANGED <<wheels, in_progress, cache, deviceVars>>

ApplyNoEffect(p) ==
  /\ ~in_progress /\ wheels # {} /\ ~HasAnyEffect(p)
  /\ \E rej \in [wheels -> Refusals] :
       /\ reg' = RegStopped(rej)
       /\ dirty' = DirtyAfterReset(wheels, rej, StopCommands)
  /\ cache' = [NoCache EXCEPT !.have_last_wheel_state = TRUE, !.last_wheel_state = p]
  /\ Handled("session")
  /\ UNCHANGED <<status, wheels, in_progress>>

ApplyRepeated(p) ==
  /\ ~in_progress /\ wheels # {} /\ HasAnyEffect(p) /\ IsRepeated(p)
  /\ Handled("session")
  /\ UNCHANGED <<lockedVars, deviceVars>>

(* One wheel that took every command is enough to go on.                   *)
ApplyEffects(p) ==
  /\ ~in_progress /\ wheels # {} /\ HasAnyEffect(p) /\ ~IsRepeated(p)
  /\ \E rej \in [wheels -> Refusals] :
       LET result  == [d \in wheels |-> WriteState(p, reg[d], rej[d])]
           applied == {d \in wheels : result[d].ok}
       IN  /\ reg' = [d \in Devices |-> IF d \in wheels THEN result[d].r ELSE reg[d]]
           /\ dirty' = dirty \cup (wheels \ applied)
           /\ \/ /\ applied # {}
                 /\ cache' = CacheAfter(p)
                 /\ Handled("session")
                 /\ UNCHANGED status
              \/ /\ applied = {}
                 /\ status' = [status EXCEPT !.wheel_connected = FALSE]
                 /\ Handled("closing")
                 /\ UNCHANGED cache
  /\ UNCHANGED <<wheels, in_progress>>

(* apply_wheel_state_locked *)
HandleState ==
  /\ server = "apply" /\ message.type = "apply_wheel_state"
  /\ \/ ApplyWhileBusy
     \/ ApplyWithoutWheels
     \/ ApplyNoEffect(message.payload)
     \/ ApplyRepeated(message.payload)
     \/ ApplyEffects(message.payload)
  /\ UNCHANGED <<main, stop_requested, listen_fd, cycleVars>>

(* apply_led_pattern_locked.  Accepted by any wheel, it counts as a known  *)
(* state: where none was known, the all-zero one.                          *)
LedShown ==
  /\ ~in_progress /\ wheels # {}
  /\ \E rej \in [wheels -> Refusals] :
       \/ /\ \E d \in wheels : "set_led_pattern" \notin rej[d]
          /\ cache' = [cache EXCEPT !.have_last_wheel_state = TRUE]
          /\ Handled("session")
       \/ /\ \A d \in wheels : "set_led_pattern" \in rej[d]
          /\ UNCHANGED cache
          /\ Handled("closing")
  /\ UNCHANGED <<status, wheels, in_progress, deviceVars>>

HandleLed ==
  /\ server = "apply" /\ message = LedMessage
  /\ \/ ApplyWhileBusy
     \/ ApplyWithoutWheels
     \/ LedShown
  /\ UNCHANGED <<main, stop_requested, listen_fd, cycleVars>>

-----------------------------------------------------------------------------
(* The server thread.                                                      *)

(* Most of its steps touch nothing but its own place.                      *)
OnlyServer == UNCHANGED <<main, message, stop_requested, listen_fd, lockedVars, cycleVars, deviceVars>>

(* socket, bind and listen; then the cycle at boot.                        *)
Bind ==
  /\ server = "start"
  /\ \/ /\ GoTo("boot")
        /\ listen_fd' = "open"
        /\ status' = [status EXCEPT !.listening = TRUE]
        /\ at' = [at EXCEPT ![Server] = "begin"]
     \/ /\ GoTo("exited")
        /\ UNCHANGED <<listen_fd, status, at>>
  /\ UNCHANGED <<main, message, stop_requested, wheels, in_progress, cache, prev, todo, cur, ready, deviceVars>>

Booted ==
  /\ server = "boot" /\ at[Server] \in {"connected", "unavailable"}
  /\ GoTo("loop")
  /\ at' = [at EXCEPT ![Server] = "idle"]
  /\ UNCHANGED <<main, message, stop_requested, listen_fd, lockedVars, prev, todo, cur, ready, deviceVars>>

Loop ==
  /\ server = "loop" /\ ~stop_requested
  /\ GoTo("select")
  /\ OnlyServer

(* The loop ends by a stop or by an error; status keeps what it says.      *)
LeaveLoop ==
  /\ \/ server = "loop" /\ stop_requested
     \/ server = "select"              \* select() or accept() failed
  /\ GoTo("exited")
  /\ listen_fd' = "closed"
  /\ UNCHANGED <<main, message, stop_requested, lockedVars, cycleVars, deviceVars>>

SelectTimeout ==
  /\ server = "select"
  /\ GoTo("loop")
  /\ OnlyServer

AcceptClient ==
  /\ server = "select" /\ listen_fd = "open"
  /\ GoTo("session")
  /\ status' = [status EXCEPT !.client_connected = TRUE]
  /\ UNCHANGED <<main, message, stop_requested, listen_fd, wheels, in_progress, cache, cycleVars, deviceVars>>

(* Mutant: a session goes on for as long as the client talks.              *)
SessionIgnoresStop ==
  /\ server = "session"
  /\ GoTo("recv")
  /\ OnlyServer

(* run_client_session: the check before a wait of at most a second.        *)
Session ==
  /\ server = "session"
  /\ GoTo(IF stop_requested THEN "closing" ELSE "recv")
  /\ OnlyServer

(* The client is silent for a second, has gone, or sent a malformed frame. *)
RecvFails ==
  /\ server = "recv"
  /\ GoTo("closing")
  /\ OnlyServer

(* hello changes the name in the status only; its ack may fail.            *)
HandleHello ==
  /\ server = "recv"
  /\ server' \in {"session", "closing"}
  /\ OnlyServer

HandlePing ==
  /\ server = "recv"
  /\ GoTo("session")
  /\ OnlyServer

ReceiveStopAll ==
  /\ server = "recv"
  /\ GoTo("stop_all")
  /\ OnlyServer

HandleStopAll ==
  /\ server = "stop_all"
  /\ \E rej \in [wheels -> Refusals] :
       /\ reg' = RegStopped(rej)
       /\ dirty' = DirtyAfterReset(wheels, rej, StopCommands)
  /\ cache' = CacheStopped
  /\ GoTo("session")
  /\ UNCHANGED <<main, message, stop_requested, listen_fd, status, wheels, in_progress, cycleVars>>

(* A wheel state or, from some clients, an LED pattern.                    *)
Receive ==
  /\ server = "recv"
  /\ GoTo("ensure")
  /\ message' \in StateMessages \cup (IF LedClients THEN {LedMessage} ELSE {})
  /\ UNCHANGED <<main, stop_requested, listen_fd, lockedVars, cycleVars, deviceVars>>

(* ensure_wheel_connected, its first lock: connected, busy, or connect now.*)
Ensure ==
  /\ server = "ensure"
  /\ \/ /\ wheels # {}
        /\ status' = [status EXCEPT !.wheel_connected = TRUE]
        /\ GoTo("apply")
        /\ UNCHANGED <<message, at>>
     \/ /\ wheels = {} /\ in_progress
        /\ Handled("session")
        /\ UNCHANGED <<status, at>>
     \/ /\ wheels = {} /\ ~in_progress
        /\ GoTo("connect")
        /\ at' = [at EXCEPT ![Server] = "begin"]
        /\ UNCHANGED <<status, message>>
  /\ UNCHANGED <<main, stop_requested, listen_fd, wheels, in_progress, cache, prev, todo, cur, ready, deviceVars>>

(* The cycle it ran has returned.                                          *)
Connected ==
  /\ server = "connect" /\ at[Server] \in {"connected", "unavailable"}
  /\ GoTo(IF at[Server] = "connected" THEN "apply" ELSE "recheck")
  /\ at' = [at EXCEPT ![Server] = "idle"]
  /\ UNCHANGED <<main, message, stop_requested, listen_fd, lockedVars, prev, todo, cur, ready, deviceVars>>

(* Its last lock: somebody else is connecting, or there is no wheel.       *)
Recheck ==
  /\ server = "recheck"
  /\ Handled(IF in_progress THEN "session" ELSE "closing")
  /\ UNCHANGED <<main, stop_requested, listen_fd, lockedVars, cycleVars, deviceVars>>

(* The session is over, however it ended: no force outlives it.            *)
EndSession ==
  /\ server = "closing"
  /\ GoTo("loop")
  /\ status' = [status EXCEPT !.client_connected = FALSE]
  /\ \E rej \in [wheels -> Refusals] :
       /\ reg' = RegStopped(rej)
       /\ dirty' = DirtyAfterReset(wheels, rej, StopCommands)
  /\ cache' = CacheStopped
  /\ UNCHANGED <<main, message, stop_requested, listen_fd, wheels, in_progress, cycleVars>>

ServerStep ==
  \/ Bind \/ Booted \/ Loop \/ LeaveLoop \/ SelectTimeout \/ AcceptClient
  \/ Session \/ RecvFails \/ HandleHello \/ HandlePing
  \/ ReceiveStopAll \/ HandleStopAll \/ Receive
  \/ Ensure \/ Connected \/ Recheck \/ HandleState \/ HandleLed \/ EndSession

(* The process has ended.                                                  *)
Terminated == main = "exited" /\ UNCHANGED vars

Next ==
  \/ Start \/ RequestStop \/ Stop \/ Destroy
  \/ \E t \in Clicks : Click(t)
  \/ \E t \in Threads : CycleStep(t)
  \/ ServerStep
  \/ Terminated

(* The operating system runs every thread that can run, and every wait of  *)
(* theirs ends: select() after 250 ms, recv() after a second, a command to *)
(* a wheel with success or an error.  Nobody has to click, quit or send.   *)
Fairness ==
  /\ WF_vars(ServerStep)
  /\ \A t \in Threads : WF_vars(CycleStep(t))
  /\ WF_vars(Stop) /\ WF_vars(Destroy)

Spec == Init /\ [][Next]_vars /\ Fairness

-----------------------------------------------------------------------------
(* Safety.                                                                 *)

InCycle(t) == at[t] \in {"drop", "open", "calibrate", "test"}
BeforeStop == main \in {"launch", "running", "joining"}

(* Until stop() has run, one connect cycle at most is under way, whatever  *)
(* the clicks, the boot cycle and the messages that find no wheel do; the  *)
(* flag wheel_operation_in_progress_ says exactly when, and the table of   *)
(* wheels is empty meanwhile, so that no state is written to a wheel under *)
(* calibration.                                                            *)
OneCycleAtATime ==
  BeforeStop =>
    /\ \A t, u \in Threads : InCycle(t) /\ InCycle(u) => t = u
    /\ in_progress <=> \E t \in Threads : InCycle(t)
    /\ in_progress => wheels = {}

Held(t) == prev[t] \cup cur[t] \cup ready[t]

(* Until stop() has run, no wheel has two controllers: one in service, one *)
(* being handed over, calibrated or waiting to enter service.  Two would   *)
(* open the device twice, and the end of one would cut the forces of the   *)
(* other.                                                                  *)
OneControllerPerWheel ==
  BeforeStop =>
    /\ \A t \in Threads : wheels \cap Held(t) = {}
    /\ \A t, u \in Threads : t # u => Held(t) \cap Held(u) = {}
    /\ \A t \in Threads : prev[t] \cap (cur[t] \cup ready[t]) = {} /\ cur[t] \cap ready[t] = {}

(* What the menu calls connected is backed by a controller, whichever of   *)
(* the threads wrote the flag last.                                        *)
ConnectedMeansWheels == status.wheel_connected => wheels # {}

(* The cache that lets the server skip commands tells the truth about every*)
(* wheel in service that took its commands: the constant force on it is the*)
(* level remembered (none if none is), its spring and damper are those of  *)
(* the state remembered (none if none is).  A reconnect, a stop, an LED    *)
(* message or the failure of another wheel must not put them apart, or a   *)
(* skipped command leaves the wrong force on the wheel.                    *)
CacheCoherent ==
  BeforeStop =>
    \A d \in wheels \ dirty :
      /\ reg[d].constant = Neutral + (IF cache.last_constant_force_active THEN cache.last_constant_level ELSE 0)
      /\ reg[d].spring = IF cache.have_last_wheel_state THEN SpringOf(cache.last_wheel_state) ELSE Off
      /\ reg[d].damper = IF cache.have_last_wheel_state THEN DamperOf(cache.last_wheel_state) ELSE Off

(* The same of the autocenter spring, once a state is known.  It holds for *)
(* clients that send no LED messages: one of those, before the first state,*)
(* makes the all-zero state known while the autocenter spring of the       *)
(* calibration is still on.                                                *)
AutocenterCoherent ==
  BeforeStop =>
    \A d \in wheels \ dirty :
      cache.have_last_wheel_state =>
        /\ reg[d].autocenter = cache.last_wheel_state.autocenter_enabled
        /\ reg[d].autocenter => reg[d].autocenter_spring = cache.last_wheel_state.autocenter

(* A wheel without a controller pushes nobody: whoever gave a wheel up, by *)
(* a reconnect, a failed calibration or stop(), left it without a force    *)
(* effect, if the wheel took the commands.                                 *)
GivenUpWheelsAreFree ==
  \A d \in Devices \ dirty :
    d \notin wheels \cup UNION {prev[t] \cup cur[t] : t \in Threads} => IsFree(reg[d])

-----------------------------------------------------------------------------
(* The dead man's handle: what the server promises a player, as the small  *)
(* abstract machine ForceLease, whatever threads and messages do.          *)

Pushing(D) == {d \in D \ dirty : ~IsFree(reg[d])}

Lease == INSTANCE ForceLease WITH
  Wheels    <- Devices,
  session   <- status.client_connected,
  forced    <- IF BeforeStop THEN Pushing(wheels) ELSE {},
  releasing <- IF BeforeStop THEN Pushing(UNION {prev[t] : t \in Threads}) ELSE {}

(* Forces act for the time of a session only; the ones a reconnect takes   *)
(* over in the middle of one are released by the reconnect, always.        *)
ForcesAreLeased == Lease!Spec

-----------------------------------------------------------------------------
(* Liveness.                                                               *)

(* Quit always ends, whatever the server thread, the clients and the clicks*)
(* are in the middle of.                                                   *)
StopCompletes == stop_requested ~> main = "exited"

(* A connect cycle always ends, so that messages are not dropped for ever. *)
CyclesEnd == in_progress ~> ~in_progress

(* An unplugged or stubborn wheel stays in the table, and every state      *)
(* fails, until somebody clicks.  But whatever refusals have left behind,  *)
(* in the table, in a cycle or on the wheels: once the wheels work again,  *)
(* a user who clicks now and then gets them all back, reset and in service. *)
WheelsWork ==
  /\ dirty' \subseteq dirty
  /\ \A t \in Threads :
       /\ at[t] = "drop" /\ at'[t] = "open" => todo'[t] = Devices
       /\ at[t] = "open" /\ at'[t] = "open" => todo'[t] = todo[t]
       /\ at[t] \in {"calibrate", "test"} /\ at'[t] = "open" => ready'[t] # ready[t]

BackInService ==
  /\ <>[](main = "running")
  /\ <>[][WheelsWork]_vars
  /\ []<><<\E t \in Clicks : Click(t)>>_vars
  => []<>(wheels = Devices /\ dirty = {})
=============================================================================
