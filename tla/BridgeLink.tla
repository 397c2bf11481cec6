----------------------------- MODULE BridgeLink -----------------------------
(***************************************************************************)
(* The line from a game to the wheel: the proxy's memory of what it sent   *)
(* last (rebuild_and_send in dinput8_proxy.cpp), the bridge client and its *)
(* socket (bridge_client.cpp), the TCP connections, and the server's       *)
(* session as the client sees it (server_loop and handle_message in        *)
(* bridge_server.cpp; in full in BridgeServer).                            *)
(*                                                                         *)
(* A payload is a value: all that matters is whether two are equal, and    *)
(* the level of the constant force one asks for, since the slew limiter    *)
(* does not let a single packet reach it.  Nothing is the payload without  *)
(* an effect.  Time is not in the state: a server that has nothing to read *)
(* may wait, or have waited its second.  The game calls the proxy on one   *)
(* thread.                                                                 *)
(***************************************************************************)
EXTENDS ForceLevel, Sequences

CONSTANTS
  Payloads,       \* wheel states with an effect that the mix of a game's effects may be
  Nothing,        \* the wheel state without an effect
  Forces,         \* the levels of those that have a constant force
  Backlog,        \* connections the kernel accepts ahead of accept(): listen(fd, 1)
  InFlight,       \* messages a connection holds before a send blocks
  Faults,         \* what else happens: {"refuse", "reconnect", "quit", "crash"} or less
  OtherDevices    \* does the game use DirectInput devices beside the wheel?

ASSUME PayloadsAssumption == Nothing \notin Payloads
ASSUME ForcesAssumption   == DOMAIN Forces \subseteq Payloads /\ \A p \in DOMAIN Forces : Forces[p] \in Level
ASSUME BoundsAssumption   == Backlog \in Nat /\ InFlight \in Nat \ {0}
ASSUME FaultsAssumption   == Faults \subseteq {"refuse", "reconnect", "quit", "crash"}
ASSUME DevicesAssumption  == OtherDevices \in BOOLEAN

VARIABLES
  game,        \* "absent", "running" or "exiting"
  announced,   \* g_bridge_announced
  proxy,       \* what the wheel's DeviceProxy remembers of its last send
  overruled,   \* ghost: another device's Unacquire has sent a stop_all since
  place,       \* where the game's thread is in a call of the client
  call,        \* the message this call is to send
  socket,      \* "none", "open"; the server has closed: "orphan", "doomed" (and we sent), "reset"
  hello_sent,
  ack,         \* a hello_ack waits to be received
  up,          \* the application runs
  conns,       \* the server's connections; the first is the one in service
  session,     \* it has been accepted
  cycle,       \* a connect cycle started by a click is under way
  applied,     \* the wheel state the server applied last, Nothing if the wheel is at rest
  level,       \* the level of constant force on the wheel
  disturbed    \* ghost: a connect cycle took or kept a state from the wheel in this session

gameVars   == <<game, announced, proxy, overruled>>
clientVars == <<place, call, socket, hello_sent, ack>>
serverVars == <<up, conns, session, cycle, applied, level, disturbed>>
vars == <<gameVars, clientVars, serverVars>>

States  == [type : {"apply_wheel_state"}, payload : Payloads]
Hello   == [type |-> "hello", payload |-> Nothing]
StopAll == [type |-> "stop_all", payload |-> Nothing]
NoCall  == [type |-> "none", payload |-> Nothing]
Messages == States \cup {Hello, StopAll}

Connection == [data : Seq(Messages), open : BOOLEAN, greeted : BOOLEAN]

GameTypeOK ==
  /\ game \in {"absent", "running", "exiting"}
  /\ announced \in BOOLEAN
  /\ proxy \in [have_last_payload : BOOLEAN, last_payload : Payloads \cup {Nothing}, last_sent_has_state : BOOLEAN]
  /\ overruled \in BOOLEAN

ClientTypeOK ==
  /\ place \in {"idle", "connect", "hello", "ack", "send"}
  /\ call \in Messages \cup {NoCall}
  /\ socket \in {"none", "open", "orphan", "doomed", "reset"}
  /\ hello_sent \in BOOLEAN
  /\ hello_sent => socket # "none"
  /\ ack \in BOOLEAN

ServerTypeOK ==
  /\ up \in BOOLEAN
  /\ conns \in Seq(Connection)
  /\ session \in BOOLEAN
  /\ cycle \in BOOLEAN
  /\ applied \in Payloads \cup {Nothing}
  /\ level \in Level
  /\ applied = Nothing => level = 0
  /\ disturbed \in BOOLEAN

TypeOK == GameTypeOK /\ ClientTypeOK /\ ServerTypeOK

(* A DeviceProxy that believes nothing of its is on the wheel.             *)
Forgotten == [have_last_payload |-> FALSE, last_payload |-> Nothing, last_sent_has_state |-> FALSE]

Init ==
  /\ game = "absent" /\ announced = FALSE /\ proxy = Forgotten /\ overruled = FALSE
  /\ place = "idle" /\ call = NoCall /\ socket = "none" /\ hello_sent = FALSE /\ ack = FALSE
  /\ up = TRUE /\ conns = <<>> /\ session = FALSE /\ cycle = FALSE
  /\ applied = Nothing /\ level = 0 /\ disturbed = FALSE

-----------------------------------------------------------------------------
(* The game's calls of the proxy.                                          *)

(* The client is called to send m.                                         *)
Begin(m) == place' = "connect" /\ call' = m /\ UNCHANGED <<socket, hello_sent, ack>>

(* DLL_PROCESS_ATTACH.                                                     *)
Launch ==
  /\ game = "absent"
  /\ game' = "running"
  /\ UNCHANGED <<announced, proxy, overruled, clientVars, serverVars>>

(* The first DirectInput8Create announces the game.                        *)
Announce ==
  /\ game = "running" /\ place = "idle" /\ ~announced
  /\ announced' = TRUE
  /\ Begin(Hello)
  /\ UNCHANGED <<game, proxy, overruled, serverVars>>

MayCall == game = "running" /\ place = "idle" /\ announced

Changed(p) == ~proxy.have_last_payload \/ p # proxy.last_payload

(* rebuild_and_send for a mix p with an effect.  The proxy remembers p as  *)
(* sent whatever the client answers, and looks at its memory only after.   *)
UpdateState(p) ==
  /\ MayCall /\ Changed(p)
  /\ proxy' = [have_last_payload |-> TRUE, last_payload |-> p, last_sent_has_state |-> TRUE]
  /\ overruled' = FALSE
  /\ Begin([type |-> "apply_wheel_state", payload |-> p])
  /\ UNCHANGED <<game, announced, serverVars>>

(* The same for a mix without an effect; silent if none was sent before.   *)
UpdateNothing ==
  /\ MayCall /\ proxy.last_sent_has_state
  /\ proxy' = Forgotten /\ overruled' = FALSE
  /\ Begin(StopAll)
  /\ UNCHANGED <<game, announced, serverVars>>

(* Mutant: the payload is still taken for sent.                            *)
UnacquireKeepsPayload ==
  /\ MayCall
  /\ overruled' = FALSE
  /\ Begin(StopAll)
  /\ UNCHANGED <<game, announced, proxy, serverVars>>

(* Unacquire, DISFFC_RESET, DISFFC_STOPALL, DISFFC_SETACTUATORSOFF.        *)
Unacquire ==
  /\ MayCall
  /\ proxy' = Forgotten /\ overruled' = FALSE
  /\ Begin(StopAll)
  /\ UNCHANGED <<game, announced, serverVars>>

(* The proxy wraps every device, a keyboard too; its Unacquire sends a     *)
(* stop_all, and forgets what the keyboard's DeviceProxy remembers.        *)
UnacquireOther ==
  /\ MayCall /\ OtherDevices
  /\ overruled' = TRUE
  /\ Begin(StopAll)
  /\ UNCHANGED <<game, announced, proxy, serverVars>>

(* The last Release deletes the wheel's DeviceProxy, without a message.    *)
Release ==
  /\ MayCall /\ proxy # Forgotten
  /\ proxy' = Forgotten /\ overruled' = FALSE
  /\ UNCHANGED <<game, announced, clientVars, serverVars>>

(* DLL_PROCESS_DETACH: a stop_all and the shutdown of the client.          *)
Detach ==
  /\ game = "running" /\ place = "idle"
  /\ game' = "exiting"
  /\ Begin(StopAll)
  /\ UNCHANGED <<announced, proxy, overruled, serverVars>>

-----------------------------------------------------------------------------
(* The client.                                                             *)

(* Closing our end: the server will read what is in flight, then the end.  *)
Abandoned == IF socket = "open" THEN [conns EXCEPT ![Len(conns)].open = FALSE] ELSE conns

(* Mutant: the socket is closed, the hello is taken for sent.              *)
DisconnectKeepsHello ==
  /\ socket' = "none" /\ ack' = FALSE
  /\ conns' = Abandoned
  /\ UNCHANGED hello_sent

disconnect ==
  /\ socket' = "none" /\ hello_sent' = FALSE /\ ack' = FALSE
  /\ conns' = Abandoned

Return == place' = "idle" /\ call' = NoCall

OnlyConns == UNCHANGED <<gameVars, up, session, cycle, applied, level, disturbed>>

(* ensure_connected_locked.  send_hello says hello in any case.            *)
Connect ==
  /\ place = "connect"
  /\ \/ /\ socket # "none"
        /\ place' = IF hello_sent /\ call # Hello THEN "send" ELSE "hello"
        /\ UNCHANGED <<socket, conns>>
     \/ /\ socket = "none" /\ up
        /\ Len(conns) <= Backlog
        /\ socket' = "open"
        /\ conns' = Append(conns, [data |-> <<>>, open |-> TRUE, greeted |-> FALSE])
        /\ place' = IF hello_sent /\ call # Hello THEN "send" ELSE "hello"
  /\ UNCHANGED <<call, hello_sent, ack>> /\ OnlyConns

ConnectRefused ==
  /\ place = "connect" /\ socket = "none" /\ ~up
  /\ Return
  /\ UNCHANGED <<gameVars, socket, hello_sent, ack, serverVars>>

(* A send to a peer that has closed succeeds until its reset arrives.      *)
Transmit(m) ==
  \/ /\ socket = "open" /\ Len(conns[Len(conns)].data) < InFlight
     /\ conns' = [conns EXCEPT ![Len(conns)].data = Append(@, m)]
     /\ UNCHANGED socket
  \/ /\ socket \in {"orphan", "doomed"}
     /\ socket' = "doomed"
     /\ UNCHANGED conns

SendHello ==
  /\ place = "hello"
  /\ Transmit(Hello)
  /\ place' = "ack"
  /\ UNCHANGED <<call, hello_sent, ack>> /\ OnlyConns

SendMessage ==
  /\ place = "send"
  /\ Transmit(call)
  /\ Return
  /\ UNCHANGED <<hello_sent, ack>> /\ OnlyConns

SendCanFail ==
  \/ place \in {"hello", "send"} /\ socket = "reset"
  \/ place = "hello" /\ socket \in {"orphan", "doomed"}
  \/ place = "send" /\ call.type = "apply_wheel_state" /\ socket \in {"orphan", "doomed"}

(* Mutant: the dead socket is kept.                                        *)
SendFailsKeepsSocket ==
  /\ SendCanFail
  /\ Return
  /\ UNCHANGED <<socket, hello_sent, ack, conns>> /\ OnlyConns

(* Header and payload are two sends: the second may meet the reset that    *)
(* the first one causes.                                                   *)
SendFails ==
  /\ SendCanFail
  /\ disconnect /\ Return
  /\ OnlyConns

ReceiveAck ==
  /\ place = "ack" /\ ack
  /\ ack' = FALSE
  /\ hello_sent' = TRUE
  /\ IF call = Hello THEN Return ELSE place' = "send" /\ UNCHANGED call
  /\ UNCHANGED <<gameVars, socket, serverVars>>

(* Mutant: recv is tried again after an error, as after EINTR.             *)
AckFailsOnEndOnly ==
  /\ place = "ack" /\ ~ack /\ socket \in {"orphan", "doomed"}
  /\ disconnect /\ Return
  /\ OnlyConns

(* The connection has ended, or was reset with the ack still unread.       *)
AckFails ==
  /\ place = "ack"
  /\ \/ ~ack /\ socket # "open"
     \/ socket = "reset"
  /\ disconnect /\ Return
  /\ OnlyConns

(* BridgeClient::shutdown; the statics of the module go with it.           *)
Shutdown ==
  /\ game = "exiting" /\ place = "idle"
  /\ game' = "absent" /\ announced' = FALSE /\ proxy' = Forgotten /\ overruled' = FALSE
  /\ disconnect
  /\ UNCHANGED <<place, call, up, session, cycle, applied, level, disturbed>>

ClientStep ==
  \/ Connect \/ ConnectRefused \/ SendHello \/ SendMessage \/ SendFails
  \/ ReceiveAck \/ AckFails \/ Shutdown

-----------------------------------------------------------------------------
(* The network and the environment.                                        *)

(* The server's host answers data for a connection it has closed.          *)
ResetArrives ==
  /\ socket = "doomed"
  /\ socket' = "reset"
  /\ UNCHANGED <<gameVars, place, call, hello_sent, ack, serverVars>>

(* The game's process is killed; the system closes its socket.             *)
Crash ==
  /\ "crash" \in Faults /\ game # "absent"
  /\ game' = "absent" /\ announced' = FALSE /\ proxy' = Forgotten /\ overruled' = FALSE
  /\ disconnect /\ Return
  /\ UNCHANGED <<up, session, cycle, applied, level, disturbed>>

(* The forces end: stop_wheel_forces_locked, and a wheel that is given up. *)
Released == applied' = Nothing /\ level' = 0

(* The application ends; all its connections are reset.                    *)
AllReset == conns' = <<>> /\ session' = FALSE /\ socket' = IF socket = "open" THEN "reset" ELSE socket

AppQuits ==
  /\ "quit" \in Faults /\ up
  /\ up' = FALSE /\ cycle' = FALSE
  /\ AllReset
  /\ Released /\ disturbed' = FALSE
  /\ UNCHANGED <<gameVars, place, call, hello_sent, ack>>

AppStarts ==
  /\ ~up
  /\ up' = TRUE
  /\ UNCHANGED <<gameVars, clientVars, conns, session, cycle, applied, level, disturbed>>

(* Mutant: the wheel is calibrated under the forces of the game.           *)
CycleBeginsForced ==
  /\ "reconnect" \in Faults /\ up /\ ~cycle
  /\ cycle' = TRUE
  /\ disturbed' = session
  /\ UNCHANGED <<gameVars, clientVars, up, conns, session, applied, level>>

(* A click on Reconnect Wheel: the wheel is released and calibrated.       *)
CycleBegins ==
  /\ "reconnect" \in Faults /\ up /\ ~cycle
  /\ cycle' = TRUE
  /\ Released /\ disturbed' = session
  /\ UNCHANGED <<gameVars, clientVars, up, conns, session>>

CycleEnds ==
  /\ cycle
  /\ cycle' = FALSE
  /\ UNCHANGED <<gameVars, clientVars, up, conns, session, applied, level, disturbed>>

-----------------------------------------------------------------------------
(* The server.                                                             *)

Accept ==
  /\ up /\ ~session /\ conns # <<>>
  /\ session' = TRUE
  /\ UNCHANGED <<gameVars, clientVars, up, conns, cycle, applied, level, disturbed>>

Reading(type) == session /\ Head(conns).data # <<>> /\ Head(Head(conns).data).type = type

(* The message in hand has been read.                                      *)
Consumed == [conns EXCEPT ![1].data = Tail(@)]

HandleStopAll ==
  /\ Reading("stop_all")
  /\ conns' = Consumed
  /\ Released /\ disturbed' = FALSE
  /\ UNCHANGED <<gameVars, clientVars, up, session, cycle>>

(* Mutant: the level of a payload without a constant force is slewed too.  *)
LevelNeverCut(p) ==
  apply_constant_slew_limiter(IF p \in DOMAIN Forces THEN Forces[p] ELSE 0, level # 0, level)

(* The constant force moves towards that of the payload as far as the slew *)
(* limiter lets one packet move it; without one in the payload it is off.  *)
LevelAfter(p) ==
  IF p \in DOMAIN Forces THEN apply_constant_slew_limiter(Forces[p], level # 0, level) ELSE 0

(* A state is applied, or dropped while a connect cycle runs.              *)
HandleState ==
  /\ Reading("apply_wheel_state")
  /\ conns' = Consumed
  /\ LET p == Head(Head(conns).data).payload
     IN  \/ ~cycle /\ applied' = p /\ level' = LevelAfter(p) /\ disturbed' = FALSE
         \/ cycle /\ UNCHANGED <<applied, level>> /\ disturbed' = TRUE
  /\ UNCHANGED <<gameVars, clientVars, up, session, cycle>>

(* Mutant: the session ends, its forces do not.                            *)
StillApplied == UNCHANGED <<applied, level>>

AfterSession == Released

(* The session ends, our end of the connection with it; a close with data  *)
(* unread may reset the connection.                                        *)
Close(unread) ==
  /\ session' = FALSE
  /\ conns' = Tail(conns)
  /\ socket' \in (IF socket # "open" \/ Len(conns) > 1 THEN {socket}
                  ELSE IF unread THEN {"orphan", "reset"} ELSE {"orphan"})
  /\ AfterSession /\ disturbed' = FALSE
  /\ UNCHANGED <<gameVars, place, call, hello_sent, ack, up, cycle>>

(* The hello_ack to a client that has gone may succeed, fail, or raise     *)
(* SIGPIPE, which nobody handles.                                          *)
HandleHello ==
  /\ Reading("hello")
  /\ \/ /\ conns' = [Consumed EXCEPT ![1].greeted = TRUE]
        /\ ack' = (ack \/ conns[1].open)
        /\ UNCHANGED <<gameVars, place, call, socket, hello_sent, up, session, cycle, applied, level, disturbed>>
     \/ /\ ~conns[1].open
        /\ Close(Len(conns[1].data) > 1)
     \/ /\ ~conns[1].open
        /\ up' = FALSE /\ cycle' = FALSE
        /\ AllReset
        /\ UNCHANGED <<gameVars, place, call, hello_sent, ack, applied, level, disturbed>>

(* A second of silence, or the end of the client's data.                   *)
SessionEnds ==
  /\ session /\ Head(conns).data = <<>>
  /\ Close(FALSE)

(* No wheel takes the state: handle_message fails.                         *)
RefuseState ==
  /\ "refuse" \in Faults
  /\ Reading("apply_wheel_state") /\ ~cycle
  /\ Close(Len(Head(conns).data) > 1)

ServerStep == Accept \/ HandleHello \/ HandleStopAll \/ HandleState \/ SessionEnds \/ RefuseState

Next ==
  \/ Launch \/ Announce \/ UpdateNothing \/ Unacquire \/ UnacquireOther \/ Release \/ Detach
  \/ \E p \in Payloads : UpdateState(p)
  \/ ClientStep \/ ServerStep
  \/ ResetArrives \/ Crash \/ AppQuits \/ AppStarts \/ CycleBegins \/ CycleEnds

(* Client, server and network go on when they can; the server's wait for   *)
(* data ends after a second, a connect cycle after its calibration.  Games *)
(* and users do as they like.                                              *)
Fairness == WF_vars(ClientStep) /\ WF_vars(ServerStep) /\ WF_vars(ResetArrives) /\ WF_vars(CycleEnds)

Spec == Init /\ [][Next]_vars /\ Fairness

-----------------------------------------------------------------------------
(* Safety.                                                                 *)

(* The client opens every connection with a hello, also the ones it makes  *)
(* in the middle of a game to replace a lost one.                          *)
HelloFirst ==
  \A i \in DOMAIN conns :
    ~conns[i].greeted /\ conns[i].data # <<>> => Head(conns[i].data) = Hello

(* Everything the game has asked for has reached the server.               *)
Settled == game = "running" /\ place = "idle" /\ up /\ (\A i \in DOMAIN conns : conns[i].data = <<>>)

(* The session that serves the game is alive, and the proxy takes a        *)
(* payload for applied.                                                    *)
Believing == Settled /\ socket = "open" /\ session /\ Len(conns) = 1 /\ proxy.have_last_payload

(* The proxy sends a payload only if it differs from the last one it sent  *)
(* (rebuild_and_send).  In a living session that leaves no older state on  *)
(* the wheel: the payload the proxy skips is the one that the server has   *)
(* applied last, and a payload without a constant force has ended the one  *)
(* before it; or else the wheel is at rest, and since the last send a      *)
(* click on Reconnect Wheel or another device of the game has put it       *)
(* there.  How far a constant force has come is not said: the limiter may  *)
(* have left it short of the payload, see ForceIsReached.                  *)
LiveLinkIsTrue ==
  Believing =>
    \/ applied = proxy.last_payload /\ (applied \notin DOMAIN Forces => level = 0)
    \/ applied = Nothing /\ level = 0 /\ (disturbed \/ overruled)

(* "forwarding force feedback to G923Mac.app" (README.md:8): while nobody  *)
(* reconnects the wheel, the payload the proxy takes for applied is.       *)
BelievedIsApplied == Believing /\ ~disturbed => applied = proxy.last_payload

(* The same of the level: the constant force on the wheel is the one that  *)
(* the game holds.                                                         *)
ForceIsReached ==
  Believing /\ applied = proxy.last_payload /\ applied \in DOMAIN Forces => level = Forces[applied]

(* The same over time: a force that has reached the wheel stays there      *)
(* while the game holds it, between its calls, with the application up and *)
(* the wheel in order.                                                     *)
HeldForceStays ==
  [][ Settled /\ Settled' /\ ~disturbed' /\ UNCHANGED proxy /\ proxy.have_last_payload
        /\ applied = proxy.last_payload
      => applied' = applied ]_vars

(* The forces of a session end with it, and a session begins without any,  *)
(* also where the application ends in the middle of one: for the client    *)
(* the server keeps the contract that BridgeServer implements in full.     *)
Lease == INSTANCE ForceLease WITH
  Wheels <- {"wheel"},
  forced <- IF applied = Nothing THEN {} ELSE {"wheel"},
  releasing <- {}

LinkIsLeased == Lease!Safety

-----------------------------------------------------------------------------
(* Liveness.                                                               *)

(* A stop is never lost: when the proxy has told the server to stop, or    *)
(* the game is gone, the forces end, even if the message got lost.         *)
StopIsFelt == (place = "idle" /\ ~proxy.have_last_payload) ~> (applied = Nothing \/ proxy.have_last_payload)

(* No call of the game blocks for ever, whatever becomes of the server.    *)
CallsReturn == place # "idle" ~> place = "idle"

(* A game that keeps changing its forces gets forces, however often the    *)
(* session has ended between two changes: of the sends that follow, some   *)
(* are lost in the dead connection, but then it is replaced.  (Not so with *)
(* stops in between: each may replace the connection, only for its         *)
(* successor to be dead when the next force is due; nor when the game's    *)
(* thread stands still for a second in the middle of a send.)              *)
KeepsGettingThrough ==
  /\ <>[](game = "running" /\ call # StopAll /\ up /\ ~cycle)
  /\ <>[][~RefuseState /\ (SessionEnds => place = "idle" \/ ~conns[1].open)]_vars
  /\ []<><<\E p \in Payloads : UpdateState(p)>>_vars
  => []<>(applied # Nothing)
=============================================================================
