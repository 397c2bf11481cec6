---------------------------- MODULE MCBridgeLink ----------------------------
(* Four wheel states.  Three have a constant force: on the way between     *)
(* them the limiter takes its steps for changes and for reversals and      *)
(* meets its gate for small reversals.  The fourth has a spring alone.  A  *)
(* kernel that holds one connection ahead of accept(), and connections     *)
(* that hold two messages.                                                 *)
EXTENDS BridgeLink

CONSTANTS push, nudge, pull, spring, nothing

MCPayloads == {push, nudge, pull, spring}
MCForces   == [p \in {push, nudge, pull} |->
                 CASE p = push -> 40 [] p = nudge -> 8 [] p = pull -> -8]
AllFaults  == {"refuse", "reconnect", "quit", "crash"}
NoFaults   == {}
=============================================================================
