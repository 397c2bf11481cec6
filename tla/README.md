# G923Mac: a verification project

G923Mac gives games that run under CrossOver/Wine on macOS force feedback on a
Logitech G923. This directory holds a TLA+ model of the program, the TLC
configurations that check it and proofs that TLAPS checks. Paths of the form
`bridge/...` and `src/...` are relative to the root of the repository.

## 1. The system

| Part | Code | State | Operations |
|---|---|---|---|
| DirectInput proxy | `bridge/windows/dinput8_proxy.cpp` | per device: table of up to 64 effects, gain, autocenter mode, state flags, last payload sent; per effect: started, iterations, start time, parameters | the `IDirectInputEffect8`/`IDirectInputDevice8` calls of the game; `rebuild_and_send` mixes the running effects into one wheel state |
| Bridge client | `bridge/windows/bridge_client.cpp` | socket, hello sent?, critical section | `send_hello`, `send_state`, `send_stop_all`, reconnect on a send |
| Wire protocol | `bridge/include/ffb_bridge_protocol.hpp` | none | hello, hello_ack, apply_wheel_state, stop_all, ping, set_led_pattern |
| Bridge server | `bridge/macos/bridge_server.cpp` | `wheels_`, `wheel_operation_in_progress_`, the cache of the last state applied, `status_`, `listen_fd_`, `stop_requested_` | start, stop, reconnect; the server thread's loop and message handlers; the connect cycle |
| Menu-bar application | `bridge/macos/main.mm` | the server object | launch, Reconnect Wheel, Quit, a refresh of the menu every 500 ms |
| Wheel controller | `src/wheel.cpp`, `src/command.cpp` | initialized?, calibrated?, the open handle | initialize, calibrate, one command each for autocenter, spring, damper, constant force, LEDs; the destructor stops the forces |
| Device manager, HID | `src/device.cpp` | the HID manager, open? | find the known wheels, open, close, send a report |
| Utilities, types | `src/utilities.cpp`, `src/types.cpp` | none | logging, formatting |

How they interact. The game calls the proxy on its own threads. The proxy
sends states over one TCP connection to port 18423 of the loopback interface.
The server's thread serves one connection at a time: it reads a message, makes
sure a wheel is connected (running a connect cycle itself if there is none),
and under `mutex_` writes to every wheel the commands that differ from the last
state. A click on Reconnect Wheel runs the same cycle on a thread of the global
dispatch queue, beside the server thread. Quit stops and destroys the server
from the main thread. When a session ends, for whatever reason, the server
stops all forces.

What is hard here:

- three kinds of threads share the table of wheels, the in-progress flag and
  the status; the lock is dropped between looking for a wheel and using it, and
  for the whole of a calibration, which takes seconds and puts a test force on
  the wheel;
- the differential write: a command is skipped when the cache says the wheel
  has the value already, so every path that changes a wheel must change the
  cache with it, for several wheels of which any may refuse any command;
- the dead man's handle: no force may outlive its session, also when the wheels
  are taken away by a reconnect in the middle of it;
- shutdown while a session, a calibration or a click's cycle is under way;
- the slew limiter, whose output is its own next input, and which needs several
  packets for a step that the proxy sends in one;
- on the way there: the proxy compares with what it sent and not with what
  arrived, a send into a dead connection succeeds, and a session ends after a
  second of silence;
- in the proxy: effects that begin and end by time without a call; a table of
  raw pointers; two places that compute the same end of an effect; a memory of
  the last payload that every stop and command has to reset by hand.

`PROJECT.json` lists every hazard with its line.

## 2. Modules

| Module | What it is |
|---|---|
| `ForceLevel` | `map_constant_magnitude_to_level` and `apply_constant_slew_limiter` as pure operators |
| `ConstantForce` | the constant force of one session over many packets, full range of levels |
| `Wheel` | the force registers of one wheel and the sequences of commands sent to it |
| `BridgeServer` | the server, its threads, the menu's actions and the physical wheels; extends `Wheel` and `ForceLevel` |
| `ForceLease` | abstract specification: forces act under the lease of a session |
| `BridgeLink` | a game's calls that send, the bridge client, the TCP connections and the server's session as a client sees it; extends `ForceLevel` |
| `ForceMix` | what one effect adds to a wheel state at a time (times, envelope, wave, direction, gains, scaling) and the mix of a table of effects, as pure operators |
| `EffectRuntime` | the wheel's DeviceProxy and its effects: every call of a game that changes them, the passing of time, `rebuild_and_send`; extends `ForceMix` |
| `MCConstantForce`, `MCBridgeServer`, `MCBridgeLink`, `MCEffectRuntime` | the small instances for TLC |
| `ForceLevelProofs`, `ConstantForceProofs`, `WheelProofs`, `BridgeServerProofs`, `BridgeServerForceProofs`, `BridgeLinkProofs`, `ForceMixProofs`, `EffectRuntimeProofs` | the theorems |

### ForceLevel and ConstantForce

The curve of the code is floating point. Its low branch, `pow(x, 0.6) * 90`, is
the table of the 62 magnitudes at which it steps (`LowCurveStep`); its high
branch, `sqrt(m / 10000) * 254` rounded, is a comparison of integers
(`HighCurve`). The result was compared with the compiled function over all
65536 magnitudes, without a difference. The limiter is integer code and is
translated branch by branch.

`ConstantForce` has two actions: `Packet` is the constant-force part of
`apply_wheel_state_locked` for a wheel that takes its commands, `Retarget` is
the game changing the magnitude of the payload. `HeldForceReached` is about
packets, not time: it says what the limiter does when packets arrive. (The
proxy sends a packet only when something changes: see `BridgeLink`.)

### Wheel

A wheel is a record of five registers: autocenter on or off, the autocenter
spring, the custom spring, the damper, the constant force. `Accept` is the
reaction of the wheel to a command and the one part that is not in the
repository; it takes the three effects sent with `SET_FORCE_EFFECT` for
independent of one another and ended together by `STOP_FORCES`, which is what
the server's differential writes presuppose. Any command may be refused, as
`IOHIDDeviceSetReport` may fail: the operators take the set of commands refused
while they run, and a refused command changes nothing. Settings of springs and
dampers are members of an abstract set `Params`, of which `Off` is the one
without force. LED patterns and the bytes of commands are left out.

### BridgeServer

The state is the server object's (`wheels`, `in_progress`, `cache`, `status`,
`stop_requested`, `listen_fd`), the places of the threads (`main`, `server`,
and `at`, one per thread that may be in a connect cycle), the locals a cycle
keeps between its steps (`prev`, `todo`, `cur`, `ready`: the variables
`previous_wheels`, the rest of the loop, `controller` and
`initialized_wheels`), and the wheels themselves (`reg`). `dirty` is a ghost
that remembers which wheels have refused a command and have not since been
reset without a refusal: the properties promise nothing of those.

An action is what one thread does between two points at which another can
intervene. Everything under one hold of `mutex_` is one action, because all
shared state but two variables is only touched under it; the two are
`stop_requested_`, which is atomic, and `listen_fd_`, which is read by `stop()`
without a lock (`RequestStop` lets the call of `shutdown` miss). Outside the
lock a cycle is split per wheel and at the long wait with the test force on.
One set of refusals holds for a wheel throughout one action.

Messages: hello, ping and stop_all, wheel states from the constant `Payloads`,
and, where `LedClients` holds, LED patterns. The handler of a state follows the
code's order: busy, no wheels, no effect, repeated, differential write. Errors
of sockets (bind, select, accept, recv, send) are alternatives of the actions.

Not modelled: the SIGPIPE that a hello_ack to a dead client may raise (it ends
the process; see `BridgeLink`), the text of the status line and the packet counter (display
only), HID frames, and what a click's block does with the server object after
Quit has destroyed it, where the code's behaviour is undefined: no thread takes
a step after `main = "exited"`, and properties that only make sense with a live
server are stated for `BeforeStop`.

### ForceLease

Three variables: is a session open, which wheels in service push, which wheels
taken out of service still do. A session may work the wheels; its end ends
their forces at once; a take-over moves the pushing wheels out of service,
after which they are released, one or more at a time, always. `BridgeServer`
implements it with `session` = the status's client flag, `forced` = the wheels
of the table with a force effect, `releasing` = the same of the controllers
awaiting destruction. The server's part of `BridgeLink` implements its `Safety`
for one wheel and with nothing in `releasing`: there a take-over and its release
are one step.

### BridgeLink

The whole line from a game to the wheel, for one game and one wheel. The
server's side is a summary of `BridgeServer`: connections wait to be accepted,
the first is in service, its messages are read in order, a state is applied or
dropped during a connect cycle, and the end of the session ends the forces. A
payload is a value, of which the model knows one thing more, the level of
constant force it asks for (`Forces`). `level` is the level on the wheel: a
message moves it by what the slew limiter lets one packet move it
(`LevelAfter`), so that a payload may have been applied and its force not been
reached. The
client's side is in full: `place` is where the game's thread is in a call of
`BridgeClient`, one action per socket operation. What a DeviceProxy remembers
of its last send (`have_last_payload_`, `last_payload_`,
`last_sent_has_state_`) decides which calls send at all.

A connection is the queue of messages not yet read. When the server closes it,
the client learns nothing at once: its socket is an `orphan`, the next send
succeeds and is lost (`doomed`), its reset arrives (`reset`), and only then does
a send fail and the client close the socket; the send after that connects
again. A message of two sends may meet its own reset. Every send that fails is
lost: the proxy does not look at the result.

Faults are the constant `Faults`: a wheel that refuses a state, a click on
Reconnect Wheel, Quit and a new start of the application, a crash of the game.
`OtherDevices` gives the game a second DirectInput device. There is no clock:
where the server's receive has nothing to read it may go on waiting or give up,
which covers every duration. Two ghosts say who else has taken a force from the
wheel: `disturbed` marks a session whose wheel a reconnect has touched since the
last message it applied, `overruled` that another device of the game has sent a
`stop_all` since the wheel's DeviceProxy last sent or forgot. The critical section
of the client is not contended, since the game has one thread here.

### ForceMix

The functions of the file's anonymous namespace and the EffectProxy's, one
operator each, under their names. An effect is a record of what the object
holds: kind, started, iterations, `since` for `start_time_us_`, and its
parameters. Forces and gains have DirectInput's units and the code's integer
arithmetic: cut towards zero, clamped where the code clamps. The three factors that the code computes in
`float` (wave, envelope, direction) are hundredths, cut to an integer where the
code casts. The sine and the cosine are known at quarter turns only. An
infinite duration is the number -1, and the code's two tests for it and for a
duration of 0 are one (`Ends`). An effect without an envelope is one with a
flat one, which the code treats alike. `Applied` is the loop of
`rebuild_and_send` over the table, a fold, and `Mix` what it makes of the
result. `ProperEnvelope` and `ProperTyped` say which parameters a game can have
given: any number that a DIEFFECT has room for, no period of zero (the code
replaces it), envelope levels as a share of the nominal range (the code cuts
them).

### EffectRuntime

State: `fx` and `refs` are the effects and their reference counts, `table` is
`effects_[0 .. effect_count_ - 1]`, `proxy` the three fields that remember the
last send, the other variables have the code's names. `sent` is the state that
the bridge was sent last, a `stop_all` being the state without an effect; what
becomes of it on the way is the subject of `BridgeLink`, whose variable `proxy`
has the same fields.

One action per call: CreateEffect without and with parameters,
SetParameters (with and without DIEP_START and DIEP_NORESTART), Start, Stop,
AddRef, Release, the gain and autocenter properties, Unacquire, Poll, the six
force feedback commands, the last Release of the device and CreateDevice. Each
contains the `rebuild_and_send` the code makes of it: `Refreshed` ends the
effects whose time is over, `Mix` adds up the table, `Send` sends what differs
from the memory. `Tick` is the clock.

The oddities of the code are in the model: a new effect's parameters are set,
and the state rebuilt, before it enters the table; a constant force with a
magnitude starts itself; DIEP_NORESTART keeps an old start time; a full table
leaves an effect untracked; PAUSE sends nothing; the actuators' switch clears
the effects and not the STOPPED flag. Four ghosts say what a property may
speak of: `asOf` and `mixed` are the time of the last rebuild and the number of
entries it took in, `due` marks that a call since then has sent a stop past the
mix or changed it without a rebuild, `inherited` that the state on the wheel
was sent by a DeviceProxy that has been deleted.

Taken away: a call that the system's own effect refuses (the proxy then changes
nothing), the start flag DIES_SOLO (the proxy's Start does not look at it), the
exact microseconds (time is a multiple of one unit, in which the poll interval
is two), saturations beyond the range of a LONG, and a second thread of the
game in `rebuild_and_send`: two calls at once race on the table itself, a
vector of raw pointers that `remove_effect` moves up, and leave no state to
speak of.

## 3. Model checking

| Run | Instance | Distinct states | Shows |
|---|---|---|---|
| `constant_force` | 16 magnitudes | 21,804 | memory = wheel, limited steps, no overshoot, a held force is reached in 19 packets |
| `server_faults` | 1 wheel, 1 click, 4 payloads, LED clients, five kinds of refusal | 1.25 million | exclusion of cycles, truth of status and cache, wheels given up are free |
| `server_two_wheels` | 2 wheels, 1 click, 3 payloads, a wheel is alive or dead in each action | 1.2 million | the same cache for two wheels of which one fails; autocenter; one controller per wheel |
| `server_liveness` | 1 wheel, 2 clicks, 2 payloads | 39,000 | the lease (refinement, with its liveness), Quit completes, cycles end, wheels that work again are back in service after a click |
| `link_faults` | 4 wheel states (levels 40, 8 and -8, and a spring), all faults, a second device | 44,600 | a hello opens every connection; a payload the proxy skips is the one applied last, or somebody else took it away; forces end with their session (refinement of `ForceLease`); a stop is never lost, calls return, changing forces get through |
| `effect_calls` | 4 effects, room for 3 in the table, all commands, a device made anew; no clock to speak of | 66,000 | the memory is what was sent, and that is the mix; a force has an effect behind it; flags and table are true; an effect stays in the table until it is released, among the others where it was |
| `effect_time` | 2 effects with delay, duration, iterations; 4 ticks | 274,000 | the mix over time; waves are sent afresh; an effect plays to its end |
| `effect_shapes` | 1 effect of each of 11 kinds, its own gain and the device's below full, 2 references; 4 ticks | 609,000 | a wheel state fits its bytes and nibbles; both gains, envelope and direction only weaken |
| `link_held_force` | no faults | violation | a held force is dropped after a second (below) |
| `link_other_device` | no faults, a second device | violation | another device's Unacquire takes the wheel's force (below) |
| `link_slew` | no faults | violation | a changed force is not reached (below) |
| `effect_finished` | 1 constant force with a duration | violation | a force stays on the wheel after its end (below) |

Bounds and why they are enough. The magnitudes of `constant_force` are both ends
of int16, the nominal maximum, the dead zone and its edges, small levels around
the limiter's gate of both signs, and the point where the two branches cross;
between them lie all cases of the limiter, and levels over the whole range are
reached step by step. `PacketBound` caps the ghost counter one above the 19
packets the property speaks of; the system itself has no bound. For the server,
one wheel is enough for the races, which are about the table and the flag; two
are needed where one cache serves several wheels, and a third would be in the
position of one of the two. A click thread may click again after its cycle, so
one of them is any number of clicks one after the other, two are two at a
time. Payloads switch each of the four effects on and off and change their
settings. The refusals of `server_faults` are: none, all (unplugged), and sets
that cut each sequence at a different place. Deadlock is checked in all runs;
the only state without a real step is the end of the process, `Terminated`.

For the link, a push of level 40 and a nudge of 8 are further apart than the
24 levels of one packet, nudge and pull differ in sign alone, pull and push in
both, and the spring is a state without a constant force; between them the
limiter starts, falls short, arrives, reverses (by its step of 10, and through
its gate at 8) and ends. A backlog of one is the code's `listen(fd, 1)`, and a connection of two messages
is one more than a call can leave unread behind the one being read; a third
only lengthens the queue.

For the effects, each run has what its question needs. `effect_calls` is about
the table: with room for three, an effect is released from the front, the
middle and the end while others remain on both sides of it or on one, so that a
wrong move-up or an exchange of two shows, and with a fourth one more is created
than fits and has to stay outside. `effect_time` is about two ends that fall
between calls in every order. `effect_shapes` is about the values of one effect,
so one is enough, of every kind; that the mix of any number of effects fits the
wire as well is a theorem (`WireFits`), not something that run shows.
`References = 2`, which tells a last Release from another, is in
`effect_shapes`; elsewhere a Release is the last. Parameters
are chosen so that forces of both signs saturate, coefficients exceed the
range, and within `MaxTime` ticks an effect waits, plays, fades, repeats and ends; the
clock stands at `MaxTime` and calls go on. Deadlock cannot occur: a game can
always poll.

What the four violations show. All are disagreements with the README's "forwarding
force feedback to `G923Mac.app`", and none needs a fault.

- `HeldForceStays`: the server takes one second without a message for the end of
  the session and stops all forces, but the proxy sends only when the mix of
  effects changes and has no ping. A force that the game holds unchanged, in a
  long bend, ends after a second, and the proxy, which takes it for applied, does
  not send it again.
- `BelievedIsApplied`: the proxy wraps every DirectInput device. When the game
  gives up its keyboard the proxy sends `stop_all`, and the wheel's DeviceProxy
  again believes its force applied.
- `ForceIsReached`: the limiter moves the constant force by at most 24 levels per
  packet, by 10 where its sign changes, and counts on the next packet for the
  rest; the proxy sends each payload once. A force that changes by more stays
  short of (or, weakening, above) what the game asked for, for as long as the
  game holds it.
- `FinishedIsReleased`: a constant force with a duration is over in the proxy's
  own books (GetEffectStatus says so) but not on the wheel: `Poll` rebuilds only
  while a ramp or a wave plays, and no other clock exists. The force goes with
  the next call that rebuilds, or with the session.

`LiveLinkIsTrue` is what remains true of the proxy's memory: in a living session
the payload it skips is the one that the server has applied last, under the
limiter as above, and nothing of an older one is left; or the wheel is at rest,
and a reconnect or another device has put it there.

Fairness: weak fairness of the server thread, of every thread in a cycle and of
the end of `stop()`. The operating system schedules every runnable thread; the
waits in the code all have an end (`select` 250 ms, receive and send timeouts
of one second, `usleep`, a HID report that succeeds or fails). There is no
fairness for clicks, messages, Start or Quit: nobody has to do them. Messages
that keep coming do not defeat the properties, because a session asks for
`stop_requested_` between messages. `BackInService` has its premises written
out: the application runs, the wheels work from some time on, and the user
clicks now and then; without the clicks it is false, as the code never looks
for a wheel that was unplugged. For the link, weak fairness of the client's
steps, the server's, the arrival of a reset and the end of a connect cycle; the
server's share includes giving up on a silent client, whose receive has a
timeout. The client's `recv` of the hello_ack has none, and `CallsReturn` shows
that it needs none. `KeepsGettingThrough` has its premises written out: the
game, the application and the wheel stay in order from some time on, the game
goes on changing its forces without a stop, and its thread does not stand still
for a second in the middle of a send.

Every property has a mutant, an operator next to the one it replaces that
alters it the way a plausible bug would: a cache kept over a stop, a cycle that
ignores the in-progress flag, a return path without the finish, a limiter
without its reversal step, a poll that comes too early and puts the next
rebuild off, and so on.

## 4. Proofs

All for every value of the constants, from the named assumptions only
(`ThreadsAssumption`, `PayloadsAssumption`, `LedAssumption`,
`RefusalsAssumption`, `ParamsAssumption`, `MagnitudesAssumption`,
`PacketBoundAssumption`; for the link `PayloadsAssumption`, `ForcesAssumption`, `BoundsAssumption`,
`FaultsAssumption`, `DevicesAssumption`; for the effects `KindsAssumption`,
`OffersAssumption`, `BoundsAssumption`, `CallsAssumption`).

- `ForceLevelProofs`: the curve stays in -127..127 and is monotone in the
  magnitude, and its smallest force is eight units (`LevelNotOne`); the limiter
  stays in range, within its step, between the last level and the target, and
  comes strictly closer with each packet. `PacketApproaches` and
  `NineteenAtMost` say how much closer: what can be missing after n packets is
  a function of n (`Within`), and none is after nineteen.
- `ConstantForceProofs`: `TypeOK`, `WheelMatchesMemory`, `LimitedStep`,
  `NoOvershoot`, `HeldForceReached`. The inductive invariant is `TypeOK` and
  `WheelMatchesMemory` together: the limiter's lemmas speak of the remembered
  level, and the invariant says that it is the wheel's. The last property needs
  `ReachInv` as well: what is missing to the target never exceeds what the
  packets left of the nineteen can bring. It rests on `LevelNotOne`, because a
  level of one unit would be settled to zero and never be reached.
- `WheelProofs`: a controller's end, a stop and a completed calibration leave
  no force effect on a wheel that takes the commands.
- `BridgeServerProofs`: `TypeOK`, `OneCycleAtATime`, `OneControllerPerWheel`,
  for any numbers of wheels, clicks and payloads and any refusals. Neither of
  the last two is inductive alone. `OwnershipInv` adds `ServerOutsideCycle`
  (the server thread is in the cycle only where its loop or handler waits for
  it) and `CycleShape` (which of the locals `prev`, `todo`, `cur`, `ready` are
  non-empty at which place of the cycle). With the flag raised exactly while
  one thread is in a cycle, all of that thread's wheels are its own, and the
  table is empty; so what enters the table at the end of a cycle meets nothing.
- `BridgeServerForceProofs`: `ConnectedMeansWheels`, `GivenUpWheelsAreFree`,
  `CacheCoherent`, and `AutocenterCoherent` if no client sends LED patterns.
  The first is inductive with the types. The second says that a device is in
  somebody's hands, free or dirty; that a step of a cycle lets go of no device
  but the one it resets needs `CycleShape`, and `OneCalibrated` (a cycle
  calibrates one wheel at a time). The third rests on two things more:
  `ReadyFree` (a calibrated wheel that waits to enter service has no force,
  so that the empty cache of the end of a cycle is true of it) and
  `CacheShape` (a level is remembered exactly while a force is active, zero otherwise,
  and no known state is the all-zero one), without which the commands skipped
  by `WriteState` would say nothing about the wheel. `LeaseIsKept` is the
  refinement of `ForceLease` but for its fairness: every step of the server is
  a step of the lease or changes nothing of it. Beside `CacheInv` it needs
  `SessionInv` (the flag of the status is raised exactly at the places of the
  server thread where it has a client, and after `stop()` the thread is gone)
  and that nothing in service pushes without a session. The three steps that
  say most: the begin of a cycle hands the pushing wheels over, all at once and
  none twice, as no other cycle has any (`AloneInCycle`); the end of a cycle
  adds no force, by `ReadyFree`; a write happens only in a session.
- `BridgeLinkProofs`: `TypeOK` and `HelloFirst`, for any wheel states, backlog,
  faults and devices. `LinkInv` says that only the last connection can be the
  client's, that a call has a message, that a message is sent only after a
  hello was answered on this very connection, and that a session has a
  connection; `HelloFirst` alone does not know which connection the client
  writes to, nor what it has said there. `LiveLinkIsTrue`, whatever devices
  the game has and whatever the levels of its payloads, has `BeliefInv` beside
  it: a call carries the state that the proxy believes, or the `stop_all` of
  another device, which `overruled` then remembers; a greeted connection is the
  one in service; and on an open socket the last message under way is that of the
  last call, or none is and it has been handled. The argument is that each way to
  lose a message loses its connection too, and that a connection is only made by
  a call. Of the level the proof knows only that a payload without a constant
  force ends it: by the limiter's lemmas it stays a level, and how near it has
  come is not promised.
  `LinkIsLeased`, the refinement of `ForceLease` by the link, has one step that
  does not follow from the shape of the actions: the hello_ack to a game that
  has just gone may end the application by SIGPIPE, without the release of the
  wheel that every other end of a session includes. It needs that no force acts
  when a hello is read. `LeaseInv` says so: a connection carries one hello, ahead
  of all else (`HelloOnce`), because a client that is about to say it has a
  connection on which nothing has been said (`HelloIsDue`: an announcement
  finds no socket, and a socket kept between two calls has been greeted); and
  forces act only in a session, from its hello on (`ForcesAfterHello`).
- `ForceMixProofs`: for every value of the parameters, a scaled value fits and
  keeps the order, two gains never strengthen a force or turn it around, the
  force of an effect is at every time no stronger than its parameters ask for,
  and what an effect adds to a wheel state that fits the wire gives one that
  fits it. From one effect to a table of them: the fold is a recursive function over sets of places in the table
  (`Layers`), and `AppliedStays` shows that a set of states which contains the
  empty one and which no contribution leaves contains the mix. Its proof takes,
  of the sets of places at which that fails, a smallest one, by the
  well-foundedness of the strict subsets of a finite set; that needs no
  induction theorem with an operator for a parameter. `MixFits` and
  `MixIsBacked` are two uses of it. `AppliedBuilds` is the general form, in which
  the set of states depends on the places taken in. By it the spring and the
  damper of a mix are, in each coefficient and saturation, the strongest that any
  counted effect asks for, and no less than all of them (`AppliedIsStrongest`);
  so two tables of any length that list the same proper effects, in whatever
  order, mix to the same spring and damper (`OrderIsNotFelt`). Of the constant
  force that is false, as the sum saturates in between, and not claimed.
- `EffectRuntimeProofs`: `TypeOK`, `MemoryIsTrue`, `SentIsMix`,
  `FlagsTellTruth`, `TableSound`, `FreshWhenPolled`, and the action properties
  `TrackedUntilReleased` and `PlaysToTheEnd`, for any effects, parameters,
  calls, size of the table and times. The invariant is the conjunction of
  `TypeOK`, `MemoryInv`, `FlagsTellTruth`, `TableSound`, `LivesInv`,
  `SentIsMix` and `PollInv`. `SentIsMix` needs `MemoryInv` (what is left out
  because it equals the last payload is on its way already) and `TableSound`
  (the refreshed effects are the ones listed, each once, so that a change of an
  effect outside the table does not change the mix). `FreshWhenPolled` needs
  `PollInv`: the time of the last periodic rebuild is not later than that of
  the last rebuild.
  `FeltIsHeld`, `FitsTheWire` and `GainsWeaken` are about what is on the wheel
  at any time, not only after a rebuild. Their invariant, `WheelInv`, adds to
  the three `ParamsInv` (the parameters of every effect are proper, whatever
  combination of them a call sets; `OffersAssumption` says so of what a game
  offers) and `RemainsInv` (what a deleted device has left on the wheel is at
  most an autocenter spring, as a game releases its effects first). A step is
  of one of three kinds (`StepIsOneOfThree`): a rebuild, after which the state
  is a mix, about which `ForceMixProofs` knows; a stop; or one that leaves the
  wheel and the effects behind it as they are, which a CreateEffect does even
  though it appends to the table.

Every invariant and every action property that the runs check is proved.
Model-checked only: the liveness properties and the fairness of `ForceLease`,
which `ForcesAreLeased` includes and `LeaseIsKept` leaves out (temporal
reasoning about ENABLED is outside the prover's reach). `BridgeServer` and the
link's summary of it are proved to keep one contract, `ForceLease`; that they
agree beyond it (which messages are read when, and which are refused) is by
construction of both from the same code, not by a proof.

## 5. Not modelled, and the plan

Done so far: the curve and limiter, the server, the link, the effects, each
with its runs and its theorems. Left for later:

1. The frames on the wire with two threads of a game under the client's
   critical section. `BridgeLink` has whole messages and one thread.

Left out for good: two threads of a game in `rebuild_and_send` (undefined
behaviour, and nothing in the repository promises more than one); the use of an
effect after its device is released, and of the server after Quit (the same);
the parts of the proxy that pass calls to the system's `dinput8.dll` or
enumerate capabilities (no state); logging and formatting; IOKit's manager and
run loop (external); the build.
