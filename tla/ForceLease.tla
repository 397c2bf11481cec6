----------------------------- MODULE ForceLease -----------------------------
(***************************************************************************)
(* What the bridge promises about the forces on the wheels: they act under *)
(* the lease of a game's session.  A session may set and change them as it *)
(* likes; its end ends them.  Wheels may be taken out of service with      *)
(* their forces on (the user reconnects them), and are then released one   *)
(* by one, on their own time but always.  BridgeServer implements it; what *)
(* BridgeLink says of the server, for its clients, implements Safety.      *)
(***************************************************************************)
CONSTANT Wheels

VARIABLES
  session,     \* a game is connected
  forced,      \* wheels in service that push or pull
  releasing    \* wheels out of service that still do

vars == <<session, forced, releasing>>

Init == session = FALSE /\ forced = {} /\ releasing = {}

Open  == ~session /\ session' = TRUE /\ UNCHANGED <<forced, releasing>>
Work  == session /\ forced' \in SUBSET Wheels /\ UNCHANGED <<session, releasing>>
Close == session /\ session' = FALSE /\ forced' = {} /\ UNCHANGED releasing

TakeOver ==
  /\ forced # {}
  /\ releasing' = releasing \cup forced
  /\ forced' = {}
  /\ UNCHANGED session

Release ==
  /\ releasing # {}
  /\ releasing' \in (SUBSET releasing) \ {releasing}
  /\ UNCHANGED <<session, forced>>

Next == Open \/ Work \/ Close \/ TakeOver \/ Release

Safety == Init /\ [][Next]_vars

Spec == Safety /\ WF_vars(Release)
=============================================================================
