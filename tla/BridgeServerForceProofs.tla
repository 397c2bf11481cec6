------------------------ MODULE BridgeServerForceProofs ------------------------
(***************************************************************************)
(* What the bridge server leaves on the wheels, for any number of devices  *)
(* and of clicks in flight, any wheel states and any refusals: a wheel     *)
(* given up pushes nobody, the cache that lets commands be skipped tells   *)
(* the truth, the status does not claim a wheel that is not there, and     *)
(* forces act under the lease of a session: every step of the server is a  *)
(* step of ForceLease or none.                                             *)
(***************************************************************************)
EXTENDS BridgeServerProofs

-----------------------------------------------------------------------------
(* The status.                                                             *)

LEMMA StatusStep ==
  ASSUME TypeOK, ConnectedMeansWheels, [Next]_vars PROVE ConnectedMeansWheels'
<1> USE DEF ConnectedMeansWheels, serverVars, lockedVars, cycleVars, deviceVars
<1>1. CASE Start \/ RequestStop \/ Stop \/ Destroy \/ (\E t \in Clicks : Click(t))
  BY <1>1 DEF Start, RequestStop, Stop, Destroy, Click, StopLocked, TypeOK
<1>2. ASSUME NEW t \in Threads, CycleStep(t) PROVE ConnectedMeansWheels'
  <2>1. CASE BeginCycle(t)
    BY <2>1 DEF BeginCycle, TypeOK
  <2>2. CASE FinishCycle(t)
    BY <2>2 DEF FinishCycle, StatusAfterCycle, TypeOK
  <2>3. CASE UNCHANGED <<status, wheels>>
    BY <2>3
  <2> QED
    BY <1>2, <2>1, <2>2, <2>3
    DEF CycleStep, DropPrevious, FindWheels, OpenWheel, StartCalibration, EndCalibration
<1>3. CASE ServerStep
  <2>1. CASE UNCHANGED <<status, wheels>>
    BY <2>1
  <2>2. CASE wheels' = wheels /\ status'.wheel_connected \in {FALSE, status.wheel_connected}
    BY <2>2 DEF TypeOK
  <2>3. CASE Bind \/ AcceptClient \/ EndSession
    BY <2>3, <2>1, <2>2 DEF Bind, AcceptClient, EndSession, TypeOK
  <2>4. CASE Ensure
    BY <2>4, <2>1 DEF Ensure, TypeOK
  <2>5. CASE HandleState
    <3>1. CASE ApplyWithoutWheels
      BY <2>2, <3>1 DEF ApplyWithoutWheels, TypeOK
    <3>2. CASE ApplyEffects(message.payload)
      <4>1. \/ UNCHANGED status
            \/ status' = [status EXCEPT !.wheel_connected = FALSE]
        BY <3>2 DEF ApplyEffects
      <4> QED  BY <2>2, <3>2, <4>1 DEF ApplyEffects, TypeOK
    <3> QED
      BY <2>1, <2>5, <3>1, <3>2 DEF HandleState, ApplyWhileBusy, ApplyNoEffect, ApplyRepeated
  <2>6. CASE HandleLed
    <3>1. CASE ApplyWithoutWheels
      BY <2>2, <3>1 DEF ApplyWithoutWheels, TypeOK
    <3> QED  BY <2>1, <2>6, <3>1 DEF HandleLed, ApplyWhileBusy, LedShown
  <2>7. CASE ~(Bind \/ AcceptClient \/ EndSession \/ Ensure \/ HandleState \/ HandleLed)
    BY <1>3, <2>1, <2>7
    DEF ServerStep, Booted, Loop, LeaveLoop, SelectTimeout, Session, RecvFails, HandleHello,
        HandlePing, ReceiveStopAll, HandleStopAll, Receive, Connected, Recheck, OnlyServer
  <2> QED  BY <2>3, <2>4, <2>5, <2>6, <2>7
<1>4. CASE UNCHANGED vars
  BY <1>4 DEF vars
<1> QED  BY <1>1, <1>2, <1>3, <1>4 DEF Next, Terminated

(* What the menu calls connected is backed by a controller, whichever of   *)
(* the threads wrote the flag last.                                        *)
THEOREM StatusHonest == Spec => []ConnectedMeansWheels
<1>1. Init => ConnectedMeansWheels
  BY DEF Init, ConnectedMeansWheels
<1> QED  BY <1>1, TypeCorrect, StatusStep, PTL DEF Spec
-----------------------------------------------------------------------------
(* Wheels given up.  A device is accounted for when it has refused a       *)
(* command, runs no force effect, or is in somebody's hands.  That the     *)
(* steps of a cycle let go of no device but the one they reset needs the   *)
(* shape of a cycle, and that it calibrates one wheel at a time.           *)

InHands(d) == d \in wheels \/ \E t \in Threads : d \in prev[t] \/ d \in cur[t]
Accounted(d) == d \in dirty \/ IsFree(reg[d]) \/ InHands(d)

OneCalibrated == \A t \in Threads : \A d, e \in cur[t] : d = e

GivenUpInv == OwnershipInv /\ OneCalibrated /\ \A d \in Devices : Accounted(d)

LEMMA GivenUpMeans == (\A d \in Devices : Accounted(d)) <=> GivenUpWheelsAreFree
BY DEF Accounted, InHands, GivenUpWheelsAreFree

(* A device that is only handed over stays accounted for.                  *)
LEMMA AccountedFrame ==
  ASSUME NEW d \in Devices, Accounted(d), reg'[d] = reg[d], d \in dirty => d \in dirty',
         InHands(d) => InHands(d)'
  PROVE  Accounted(d)'
BY DEF Accounted, IsFree

(* A controller's end and a stop leave every wheel they reach free or      *)
(* dirty and touch no other.                                               *)
LEMMA DestroyedAccounted ==
  ASSUME NEW D \in SUBSET Devices, NEW registers \in [Devices -> Registers], NEW rej,
         reg' = RegDestroyed(D, registers, rej), dirty' = DirtyAfterReset(D, rej, DestroyCommands)
  PROVE  /\ \A d \in D : d \in dirty' \/ IsFree(reg'[d])
         /\ \A d \in Devices \ D : reg'[d] = registers[d] /\ (d \in dirty' <=> d \in dirty)
<1>1. ASSUME NEW d \in D, d \notin dirty' PROVE IsFree(reg'[d])
  <2>1. rej[d] \cap DestroyCommands = {}
    BY <1>1 DEF DirtyAfterReset
  <2>2. IsFree(Destroyed(registers[d], rej[d]))
    BY <2>1, DestroyedIsFree
  <2> QED  BY <2>2 DEF RegDestroyed
<1> QED  BY <1>1 DEF RegDestroyed, DirtyAfterReset

LEMMA StoppedAccounted ==
  ASSUME TypeOK, NEW rej,
         reg' = RegStopped(rej), dirty' = DirtyAfterReset(wheels, rej, StopCommands)
  PROVE  /\ \A d \in wheels : d \in dirty' \/ (IsFree(reg'[d]) /\ ~reg'[d].autocenter)
         /\ \A d \in Devices \ wheels : reg'[d] = reg[d] /\ (d \in dirty' <=> d \in dirty)
<1>1. ASSUME NEW d \in wheels, d \notin dirty' PROVE IsFree(reg'[d]) /\ ~reg'[d].autocenter
  <2>1. rej[d] \cap StopCommands = {}
    BY <1>1 DEF DirtyAfterReset
  <2>2. reg[d] \in Registers /\ d \in Devices
    BY DEF TypeOK
  <2>3. IsFree(ForcesStopped(reg[d], rej[d])) /\ ~ForcesStopped(reg[d], rej[d]).autocenter
    BY <2>1, <2>2, StoppedIsFree
  <2> QED  BY <2>2, <2>3 DEF RegStopped
<1> QED  BY <1>1 DEF RegStopped, DirtyAfterReset, TypeOK

LEMMA StopLockedAccounted ==
  ASSUME TypeOK, NEW rej, StopLocked(rej)
  PROVE  /\ \A d \in wheels : d \in dirty' \/ IsFree(reg'[d])
         /\ \A d \in Devices \ wheels : reg'[d] = reg[d] /\ (d \in dirty' <=> d \in dirty)
<1>1. RegStopped(rej) \in [Devices -> Registers] /\ wheels \subseteq Devices
  BY ResetTypes DEF TypeOK
<1>2. ASSUME NEW d \in wheels, d \notin dirty' PROVE IsFree(reg'[d])
  <2>1. rej[d] \cap DestroyCommands = {}
    BY <1>2 DEF StopLocked, DirtyAfterReset, DestroyCommands, StopCommands
  <2>2. IsFree(Destroyed(RegStopped(rej)[d], rej[d]))
    BY <1>1, <2>1, DestroyedIsFree
  <2> QED  BY <1>1, <2>2 DEF StopLocked, RegDestroyed
<1>3. ASSUME NEW d \in Devices \ wheels
      PROVE  reg'[d] = reg[d] /\ (d \in dirty' <=> d \in dirty)
  BY <1>3 DEF StopLocked, RegDestroyed, RegStopped, DirtyAfterReset
<1> QED  BY <1>2, <1>3

LEMMA MainGivenUp ==
  ASSUME GivenUpInv, Start \/ RequestStop \/ Stop \/ Destroy \/ (\E t \in Clicks : Click(t))
  PROVE  OneCalibrated' /\ \A d \in Devices : Accounted(d)'
<1> USE DEF cycleVars
<1>1. OneCalibrated' /\ UNCHANGED <<prev, cur>>
  BY DEF Start, RequestStop, Stop, Destroy, Click, GivenUpInv, OneCalibrated
<1>2. CASE Start \/ RequestStop \/ (\E t \in Clicks : Click(t))
  <2>1. UNCHANGED <<reg, dirty, wheels>>
    BY <1>2 DEF Start, RequestStop, Click, lockedVars, deviceVars
  <2> QED  BY <1>1, <2>1, AccountedFrame DEF GivenUpInv, InHands
<1>3. CASE Stop \/ Destroy
  <2>1. PICK rej : StopLocked(rej)
    BY <1>3 DEF Stop, Destroy
  <2>2. ASSUME NEW d \in Devices PROVE Accounted(d)'
    <3>1. CASE d \in wheels
      BY <2>1, <3>1, StopLockedAccounted DEF GivenUpInv, OwnershipInv, Accounted, IsFree
    <3>2. CASE d \notin wheels
      <4>1. reg'[d] = reg[d] /\ (d \in dirty' <=> d \in dirty)
        BY <2>1, <3>2, StopLockedAccounted DEF GivenUpInv, OwnershipInv
      <4>2. InHands(d) => InHands(d)'
        BY <1>1, <3>2 DEF InHands
      <4> QED  BY <4>1, <4>2, AccountedFrame DEF GivenUpInv
    <3> QED  BY <3>1, <3>2
  <2> QED  BY <1>1, <2>2
<1> QED  BY <1>1, <1>2, <1>3

(* The server thread's steps reach the wheels in service and no other.     *)
LEMMA ServerReach ==
  ASSUME TypeOK, ServerStep
  PROVE  /\ UNCHANGED <<prev, cur, ready, wheels>>
         /\ \A d \in Devices \ wheels : reg'[d] = reg[d] /\ (d \in dirty' <=> d \in dirty)
<1> USE DEF cycleVars, lockedVars, deviceVars, OnlyServer
<1> DEFINE Untouched == \A d \in Devices \ wheels : reg'[d] = reg[d] /\ (d \in dirty' <=> d \in dirty)
<1>1. UNCHANGED <<prev, cur, ready, wheels>>
  BY DEF ServerStep, Bind, Booted, Loop, LeaveLoop, SelectTimeout, AcceptClient, Session, RecvFails,
         HandleHello, HandlePing, ReceiveStopAll, HandleStopAll, Receive, Ensure, Connected, Recheck,
         EndSession, HandleState, ApplyWhileBusy, ApplyWithoutWheels, ApplyNoEffect, ApplyRepeated,
         ApplyEffects, HandleLed, LedShown
<1> SUFFICES Untouched
  BY <1>1
<1>2. ASSUME NEW rej, reg' = RegStopped(rej), dirty' = DirtyAfterReset(wheels, rej, StopCommands)
      PROVE  Untouched
  BY <1>2, StoppedAccounted
<1>3. CASE HandleStopAll \/ EndSession
  BY <1>2, <1>3 DEF HandleStopAll, EndSession
<1>4. CASE HandleState
  <2>1. CASE ApplyNoEffect(message.payload)
    BY <1>2, <2>1 DEF ApplyNoEffect
  <2>2. CASE ApplyEffects(message.payload)
    BY <2>2 DEF ApplyEffects
  <2> QED
    BY <1>4, <2>1, <2>2 DEF HandleState, ApplyWhileBusy, ApplyWithoutWheels, ApplyRepeated
<1>5. CASE ~(HandleStopAll \/ EndSession \/ HandleState)
  BY <1>5
  DEF ServerStep, Bind, Booted, Loop, LeaveLoop, SelectTimeout, AcceptClient, Session, RecvFails,
      HandleHello, HandlePing, ReceiveStopAll, Receive, Ensure, Connected, Recheck,
      HandleLed, ApplyWhileBusy, ApplyWithoutWheels, LedShown
<1> QED  BY <1>3, <1>4, <1>5

LEMMA ServerGivenUp ==
  ASSUME GivenUpInv, ServerStep
  PROVE  OneCalibrated' /\ \A d \in Devices : Accounted(d)'
<1>1. /\ UNCHANGED <<prev, cur, wheels>>
      /\ \A d \in Devices \ wheels : reg'[d] = reg[d] /\ (d \in dirty' <=> d \in dirty)
  BY ServerReach DEF GivenUpInv, OwnershipInv
<1>2. ASSUME NEW d \in Devices PROVE Accounted(d)'
  <2>1. CASE d \in wheels
    BY <1>1, <2>1 DEF Accounted, InHands
  <2>2. CASE d \notin wheels
    BY <1>1, <2>2, AccountedFrame DEF GivenUpInv, InHands
  <2> QED  BY <2>1, <2>2
<1> QED  BY <1>1, <1>2 DEF GivenUpInv, OneCalibrated

(* A failed calibration lets go of the wheel it discards and of no other.  *)
LEMMA DiscardAccounted ==
  ASSUME GivenUpInv, NEW t \in Threads, NEW d \in cur[t], NEW r \in Registers, Discard(t, d, r)
  PROVE  /\ \A e \in Devices \ {d} : reg'[e] = reg[e] /\ (e \in dirty' <=> e \in dirty)
         /\ d \in dirty' \/ IsFree(reg'[d])
         /\ cur' = [cur EXCEPT ![t] = {}] /\ ready' = ready
<1>1. d \in Devices /\ reg \in [Devices -> Registers]
  BY DEF GivenUpInv, OwnershipInv, TypeOK
<1>2. [reg EXCEPT ![d] = r] \in [Devices -> Registers]
  BY <1>1
<1>3. PICK rej : /\ reg' = RegDestroyed({d}, [reg EXCEPT ![d] = r], rej)
                 /\ dirty' = DirtyAfterReset({d}, rej, DestroyCommands)
  BY DEF Discard
<1>4. /\ \A e \in {d} : e \in dirty' \/ IsFree(reg'[e])
      /\ \A e \in Devices \ {d} : reg'[e] = [reg EXCEPT ![d] = r][e] /\ (e \in dirty' <=> e \in dirty)
  BY <1>1, <1>2, <1>3, DestroyedAccounted
<1> QED  BY <1>1, <1>4 DEF Discard

LEMMA CycleGivenUp ==
  ASSUME GivenUpInv, NEW t \in Threads, CycleStep(t)
  PROVE  OneCalibrated' /\ \A d \in Devices : Accounted(d)'
<1> USE DEF deviceVars, lockedVars
<1>0. TypeOK /\ CycleShape /\ OneCalibrated /\ \A d \in Devices : Accounted(d)
  BY DEF GivenUpInv, OwnershipInv
<1>1. CASE BeginCycle(t)
  <2>1. prev[t] = {} /\ UNCHANGED <<reg, dirty, cur>>
    BY <1>0, <1>1 DEF BeginCycle, CycleShape, InCycle
  <2>2. \A d \in Devices : InHands(d) => InHands(d)'
    <3>1. UNCHANGED <<wheels, prev>> \/ prev' = [prev EXCEPT ![t] = wheels]
      BY <1>1 DEF BeginCycle
    <3> QED  BY <1>0, <2>1, <3>1 DEF InHands, TypeOK
  <2> QED  BY <1>0, <2>1, <2>2, AccountedFrame DEF OneCalibrated
<1>2. ASSUME NEW d \in Devices, DropPrevious(t, d)
      PROVE  OneCalibrated' /\ \A e \in Devices : Accounted(e)'
  <2>1. PICK rej : reg' = RegDestroyed({d}, reg, rej) /\ dirty' = DirtyAfterReset({d}, rej, DestroyCommands)
    BY <1>2 DEF DropPrevious
  <2>2. /\ d \in dirty' \/ IsFree(reg'[d])
        /\ \A e \in Devices \ {d} : reg'[e] = reg[e] /\ (e \in dirty' <=> e \in dirty)
    BY <1>0, <2>1, DestroyedAccounted DEF TypeOK
  <2>3. \A e \in Devices \ {d} : InHands(e) => InHands(e)'
    BY <1>0, <1>2 DEF DropPrevious, InHands, TypeOK
  <2>4. Accounted(d)'
    BY <2>2 DEF Accounted, IsFree
  <2>5. \A e \in Devices \ {d} : Accounted(e)'
    BY <1>0, <2>2, <2>3, AccountedFrame
  <2> QED  BY <1>0, <1>2, <2>4, <2>5 DEF DropPrevious, OneCalibrated
<1>3. CASE FindWheels(t)
  BY <1>0, <1>3, AccountedFrame DEF FindWheels, InHands, OneCalibrated
<1>4. ASSUME NEW d \in Devices, OpenWheel(t, d)
      PROVE  OneCalibrated' /\ \A e \in Devices : Accounted(e)'
  <2>1. cur[t] = {} /\ UNCHANGED <<reg, dirty, prev, wheels>>
    BY <1>0, <1>4 DEF OpenWheel, CycleShape
  <2>2. cur' = [cur EXCEPT ![t] = {d}] \/ UNCHANGED cur
    BY <1>4 DEF OpenWheel
  <2>3. \A e \in Devices : InHands(e) => InHands(e)'
    BY <1>0, <2>1, <2>2 DEF InHands, TypeOK
  <2>4. OneCalibrated'
    BY <1>0, <2>2 DEF OneCalibrated, TypeOK
  <2> QED  BY <1>0, <2>1, <2>3, <2>4, AccountedFrame
<1>5. ASSUME NEW d \in cur[t], UNCHANGED <<prev, wheels>>, cur' = [cur EXCEPT ![t] = {}],
             d \in dirty' \/ IsFree(reg'[d]),
             \A e \in Devices \ {d} : reg'[e] = reg[e] /\ (e \in dirty' <=> e \in dirty)
      PROVE  OneCalibrated' /\ \A e \in Devices : Accounted(e)'
  <2>1. \A e \in Devices \ {d} : InHands(e) => InHands(e)'
    BY <1>0, <1>5 DEF InHands, TypeOK, OneCalibrated
  <2>2. OneCalibrated'
    BY <1>0, <1>5 DEF OneCalibrated, TypeOK
  <2>3. Accounted(d)'
    BY <1>5 DEF Accounted, IsFree
  <2>4. \A e \in Devices \ {d} : Accounted(e)'
    BY <1>0, <1>5, <2>1, AccountedFrame
  <2> QED  BY <2>2, <2>3, <2>4
<1>6. ASSUME NEW d \in Devices, StartCalibration(t, d)
      PROVE  OneCalibrated' /\ \A e \in Devices : Accounted(e)'
  <2>1. PICK rej \in Refusals :
          \/ /\ reg' = [reg EXCEPT ![d] = CalibrationStart(reg[d], rej).r]
             /\ UNCHANGED <<cur, ready, dirty>>
          \/ Discard(t, d, CalibrationStart(reg[d], rej).r)
    BY <1>6 DEF StartCalibration
  <2>2. d \in cur[t] /\ UNCHANGED <<prev, wheels>>
    BY <1>6 DEF StartCalibration
  <2>3. CalibrationStart(reg[d], rej).r \in Registers
    BY <1>0, CalibrationStartType DEF TypeOK, Progress
  <2>4. CASE reg' = [reg EXCEPT ![d] = CalibrationStart(reg[d], rej).r] /\ UNCHANGED <<cur, ready, dirty>>
    <3>1. Accounted(d)'
      BY <2>2, <2>4 DEF Accounted, InHands
    <3>2. ASSUME NEW e \in Devices \ {d} PROVE Accounted(e)'
      BY <1>0, <2>2, <2>4, AccountedFrame DEF InHands, TypeOK
    <3> QED  BY <1>0, <2>4, <3>1, <3>2 DEF OneCalibrated
  <2>5. CASE Discard(t, d, CalibrationStart(reg[d], rej).r)
    BY <1>5, <2>2, <2>3, <2>5, DiscardAccounted
  <2> QED  BY <2>1, <2>4, <2>5
<1>7. ASSUME NEW d \in Devices, EndCalibration(t, d)
      PROVE  OneCalibrated' /\ \A e \in Devices : Accounted(e)'
  <2>1. PICK rej \in Refusals :
          \/ /\ CalibrationEnd(reg[d], rej).ok
             /\ reg' = [reg EXCEPT ![d] = CalibrationEnd(reg[d], rej).r]
             /\ dirty' = dirty \ {d}
             /\ cur' = [cur EXCEPT ![t] = {}]
          \/ Discard(t, d, CalibrationEnd(reg[d], rej).r)
    BY <1>7 DEF EndCalibration
  <2>2. d \in cur[t] /\ UNCHANGED <<prev, wheels>>
    BY <1>7 DEF EndCalibration
  <2>3. CalibrationEnd(reg[d], rej).r \in Registers
    BY <1>0, CalibrationEndType DEF TypeOK, Progress
  <2>4. CASE /\ CalibrationEnd(reg[d], rej).ok
             /\ reg' = [reg EXCEPT ![d] = CalibrationEnd(reg[d], rej).r]
             /\ dirty' = dirty \ {d}
             /\ cur' = [cur EXCEPT ![t] = {}]
    <3>1. reg[d] \in Registers
      BY <1>0 DEF TypeOK
    <3>2. IsFree(CalibrationEnd(reg[d], rej).r)
      BY <2>4, <3>1, CalibratedIsFree
    <3>3. IsFree(reg'[d])
      BY <1>0, <2>4, <3>2 DEF TypeOK
    <3>4. \A e \in Devices \ {d} : reg'[e] = reg[e] /\ (e \in dirty' <=> e \in dirty)
      BY <1>0, <2>4 DEF TypeOK
    <3> QED  BY <1>5, <2>2, <2>4, <3>3, <3>4
  <2>5. CASE Discard(t, d, CalibrationEnd(reg[d], rej).r)
    BY <1>5, <2>2, <2>3, <2>5, DiscardAccounted
  <2> QED  BY <2>1, <2>4, <2>5
<1>8. CASE FinishCycle(t)
  <2>1. PICK rej : reg' = RegDestroyed(wheels, reg, rej) /\ dirty' = DirtyAfterReset(wheels, rej, DestroyCommands)
    BY <1>8 DEF FinishCycle
  <2>2. /\ \A d \in wheels : d \in dirty' \/ IsFree(reg'[d])
        /\ \A d \in Devices \ wheels : reg'[d] = reg[d] /\ (d \in dirty' <=> d \in dirty)
    BY <1>0, <2>1, DestroyedAccounted DEF TypeOK
  <2>3. \A d \in Devices \ wheels : InHands(d) => InHands(d)'
    BY <1>8 DEF FinishCycle, InHands
  <2>4. \A d \in Devices \ wheels : Accounted(d)'
    BY <1>0, <2>2, <2>3, AccountedFrame
  <2>5. \A d \in wheels : Accounted(d)'
    BY <2>2 DEF Accounted, IsFree
  <2> QED  BY <1>0, <1>8, <2>4, <2>5 DEF FinishCycle, OneCalibrated
<1> QED  BY <1>1, <1>2, <1>3, <1>4, <1>6, <1>7, <1>8 DEF CycleStep

LEMMA NextGivenUp == GivenUpInv /\ [Next]_vars => GivenUpInv'
<1> SUFFICES ASSUME GivenUpInv, [Next]_vars PROVE OneCalibrated' /\ \A d \in Devices : Accounted(d)'
  BY NextOwnership DEF GivenUpInv
<1>1. CASE UNCHANGED vars
  BY <1>1, AccountedFrame
  DEF vars, lockedVars, cycleVars, deviceVars, GivenUpInv, OneCalibrated, InHands
<1>2. ASSUME NEW t \in Threads, CycleStep(t)
      PROVE  OneCalibrated' /\ \A d \in Devices : Accounted(d)'
  BY <1>2, CycleGivenUp
<1> QED  BY <1>1, <1>2, MainGivenUp, ServerGivenUp DEF Next, Terminated

(* A wheel without a controller pushes nobody: a reconnect, a failed       *)
(* calibration and stop() leave a wheel they give up without a force       *)
(* effect, if it took the commands.                                        *)
THEOREM GivenUpIsFree == Spec => []GivenUpWheelsAreFree
<1>1. Init => GivenUpInv
  <2> SUFFICES ASSUME Init PROVE OneCalibrated /\ \A d \in Devices : Accounted(d)
    BY InitOwnership DEF GivenUpInv
  <2>1. \A d \in Devices : IsFree(reg[d])
    BY DEF Init, PowerOn
  <2> QED  BY <2>1 DEF Init, OneCalibrated, Accounted
<1>2. GivenUpInv => GivenUpWheelsAreFree
  BY GivenUpMeans DEF GivenUpInv
<1> QED  BY <1>1, <1>2, NextGivenUp, PTL DEF Spec

-----------------------------------------------------------------------------
(* The cache.  What a write leaves on a wheel that took its commands, as a *)
(* function of the registers before it.                                    *)

LEMMA TryIfOk ==
  ASSUME NEW wanted \in BOOLEAN, NEW s \in Progress, NEW rej, NEW command, NEW value,
         TryIf(wanted, s, rej, command, value).ok
  PROVE  /\ s.ok
         /\ TryIf(wanted, s, rej, command, value).r = IF wanted THEN Accept(s.r, command, value) ELSE s.r
BY DEF TryIf, Try, Progress

LEMMA AcceptIs ==
  \A r, v :
    /\ Accept(r, "set_custom_spring", v) = [r EXCEPT !.spring = v]
    /\ Accept(r, "set_damper", v) = [r EXCEPT !.damper = v]
    /\ Accept(r, "enable_autocenter", v) = [r EXCEPT !.autocenter = TRUE]
    /\ Accept(r, "set_autocenter_spring", v) = [r EXCEPT !.autocenter_spring = v]
    /\ Accept(r, "disable_autocenter", v) = [r EXCEPT !.autocenter = FALSE]
    /\ Accept(r, "set_constant_force", v) = [r EXCEPT !.constant = v]
BY DEF Accept

LEMMA WriteStateLeaves ==
  ASSUME TypeOK, NEW p \in Payloads, NEW r \in Registers, NEW rej, WriteState(p, r, rej).ok
  PROVE  LET w == WriteState(p, r, rej).r
         IN  /\ w.spring = IF SpringChanged(p) THEN SpringOf(p) ELSE r.spring
             /\ w.damper = IF DamperChanged(p) THEN DamperOf(p) ELSE r.damper
             /\ w.constant = IF LevelChanged(p) THEN Neutral + DesiredLevel(p) ELSE r.constant
             /\ w.autocenter = IF AutocenterChanged(p) THEN p.autocenter_enabled ELSE r.autocenter
             /\ w.autocenter_spring = IF AutocenterChanged(p) /\ p.autocenter_enabled
                                        THEN p.autocenter ELSE r.autocenter_spring
<1> DEFINE turnOn  == AutocenterChanged(p) /\ p.autocenter_enabled
           turnOff == AutocenterChanged(p) /\ ~p.autocenter_enabled
           byte    == Clamp(0, 255, Neutral + DesiredLevel(p))
           s1 == TryIf(SpringChanged(p), Begin(r), rej, "set_custom_spring", SpringOf(p))
           s2 == TryIf(DamperChanged(p), s1, rej, "set_damper", DamperOf(p))
           s3 == TryIf(turnOn, s2, rej, "enable_autocenter", Off)
           s4 == TryIf(turnOn, s3, rej, "set_autocenter_spring", p.autocenter)
           s5 == TryIf(turnOff, s4, rej, "disable_autocenter", Off)
           s6 == TryIf(LevelChanged(p), s5, rej, "set_constant_force", byte)
<1>1. /\ SpringChanged(p) \in BOOLEAN /\ DamperChanged(p) \in BOOLEAN
      /\ turnOn \in BOOLEAN /\ turnOff \in BOOLEAN
  BY DEF SpringChanged, DamperChanged, AutocenterChanged
<1>2. LevelChanged(p) \in BOOLEAN
  BY DEF LevelChanged, TypeOK, Cache
<1>3. byte = Neutral + DesiredLevel(p) /\ byte \in Byte
  BY DesiredLevelType DEF Byte, Clamp, Larger, Smaller, Neutral, Level, MaxLevel
<1>4. SpringOf(p) \in Params /\ DamperOf(p) \in Params /\ p.autocenter \in Params /\ p.autocenter_enabled \in BOOLEAN
  BY PayloadParts
<1>5. s6 = WriteState(p, r, rej)
  BY DEF WriteState
<1> HIDE DEF turnOn, turnOff, byte
<1>6. s1 \in Progress
  BY <1>1, <1>4, BeginType, TryIfType, ValuesOK, CommandsOK
<1> HIDE DEF s1
<1>7. s2 \in Progress
  BY <1>1, <1>4, <1>6, TryIfType, ValuesOK, CommandsOK
<1> HIDE DEF s2
<1>8. s3 \in Progress
  BY <1>1, <1>7, TryIfType, ValuesOK, CommandsOK
<1> HIDE DEF s3
<1>9. s4 \in Progress
  BY <1>1, <1>4, <1>8, TryIfType, ValuesOK, CommandsOK
<1> HIDE DEF s4
<1>10. s5 \in Progress
  BY <1>1, <1>9, TryIfType, ValuesOK, CommandsOK
<1> HIDE DEF s5
<1>11. s5.ok /\ s6.r = IF LevelChanged(p) THEN [s5.r EXCEPT !.constant = byte] ELSE s5.r
  <2>1. s6.ok
    BY <1>5
  <2>2. s5.ok /\ s6.r = IF LevelChanged(p) THEN Accept(s5.r, "set_constant_force", byte) ELSE s5.r
    BY <1>2, <1>10, <2>1, TryIfOk
  <2> QED  BY <2>2, AcceptIs
<1> HIDE DEF s6
<1>12. s4.ok /\ s5.r = IF turnOff THEN [s4.r EXCEPT !.autocenter = FALSE] ELSE s4.r
  <2>1. s4.ok /\ s5.r = IF turnOff THEN Accept(s4.r, "disable_autocenter", Off) ELSE s4.r
    BY <1>1, <1>9, <1>11, TryIfOk DEF s5
  <2> QED  BY <2>1, AcceptIs
<1>13. s3.ok /\ s4.r = IF turnOn THEN [s3.r EXCEPT !.autocenter_spring = p.autocenter] ELSE s3.r
  <2>1. s3.ok /\ s4.r = IF turnOn THEN Accept(s3.r, "set_autocenter_spring", p.autocenter) ELSE s3.r
    BY <1>1, <1>8, <1>12, TryIfOk DEF s4
  <2> QED  BY <2>1, AcceptIs
<1>14. s2.ok /\ s3.r = IF turnOn THEN [s2.r EXCEPT !.autocenter = TRUE] ELSE s2.r
  <2>1. s2.ok /\ s3.r = IF turnOn THEN Accept(s2.r, "enable_autocenter", Off) ELSE s2.r
    BY <1>1, <1>7, <1>13, TryIfOk DEF s3
  <2> QED  BY <2>1, AcceptIs
<1>15. s1.ok /\ s2.r = IF DamperChanged(p) THEN [s1.r EXCEPT !.damper = DamperOf(p)] ELSE s1.r
  <2>1. s1.ok /\ s2.r = IF DamperChanged(p) THEN Accept(s1.r, "set_damper", DamperOf(p)) ELSE s1.r
    BY <1>1, <1>6, <1>14, TryIfOk DEF s2
  <2> QED  BY <2>1, AcceptIs
<1>16. s1.r = IF SpringChanged(p) THEN [r EXCEPT !.spring = SpringOf(p)] ELSE r
  <2>1. Begin(r) \in Progress /\ Begin(r).r = r
    BY BeginType DEF Begin
  <2>2. s1.r = IF SpringChanged(p) THEN Accept(Begin(r).r, "set_custom_spring", SpringOf(p)) ELSE Begin(r).r
    BY <1>1, <1>15, <2>1, TryIfOk DEF s1
  <2> QED  BY <2>1, <2>2, AcceptIs
<1>17. s1.r \in Registers /\ s2.r \in Registers /\ s3.r \in Registers /\ s4.r \in Registers /\ s5.r \in Registers
  BY <1>6, <1>7, <1>8, <1>9, <1>10 DEF Progress
<1>18. /\ s2.r.spring = IF SpringChanged(p) THEN SpringOf(p) ELSE r.spring
       /\ s2.r.damper = IF DamperChanged(p) THEN DamperOf(p) ELSE r.damper
       /\ s2.r.constant = r.constant
       /\ s2.r.autocenter = r.autocenter
       /\ s2.r.autocenter_spring = r.autocenter_spring
  BY <1>15, <1>16, <1>17 DEF Registers
<1>19. /\ s5.r.spring = s2.r.spring /\ s5.r.damper = s2.r.damper /\ s5.r.constant = s2.r.constant
       /\ s5.r.autocenter = IF turnOn THEN TRUE ELSE IF turnOff THEN FALSE ELSE s2.r.autocenter
       /\ s5.r.autocenter_spring = IF turnOn THEN p.autocenter ELSE s2.r.autocenter_spring
  <2>1. ~(turnOn /\ turnOff)
    BY DEF turnOn, turnOff
  <2> QED  BY <2>1, <1>12, <1>13, <1>14, <1>17 DEF Registers
<1>20. /\ s6.r.spring = s5.r.spring /\ s6.r.damper = s5.r.damper
       /\ s6.r.autocenter = s5.r.autocenter /\ s6.r.autocenter_spring = s5.r.autocenter_spring
       /\ s6.r.constant = IF LevelChanged(p) THEN byte ELSE s5.r.constant
  BY <1>11, <1>17 DEF Registers
<1>21. /\ turnOn <=> AutocenterChanged(p) /\ p.autocenter_enabled
       /\ turnOff <=> AutocenterChanged(p) /\ ~p.autocenter_enabled
  BY DEF turnOn, turnOff
<1> QED  BY <1>3, <1>4, <1>5, <1>18, <1>19, <1>20, <1>21

-----------------------------------------------------------------------------
(* What the cache says of one wheel in service.  CacheCoherent is not      *)
(* inductive alone.  A cycle puts calibrated wheels into service under an  *)
(* empty cache, so those that wait for it must be free (ReadyFree); and a  *)
(* write skips a command on what the flags and values of the cache say     *)
(* together (CacheShape).                                                  *)

Tells(d) ==
  /\ reg[d].constant = Neutral + (IF cache.last_constant_force_active THEN cache.last_constant_level ELSE 0)
  /\ reg[d].spring = IF cache.have_last_wheel_state THEN SpringOf(cache.last_wheel_state) ELSE Off
  /\ reg[d].damper = IF cache.have_last_wheel_state THEN DamperOf(cache.last_wheel_state) ELSE Off

TellsAutocenter(d) ==
  cache.have_last_wheel_state =>
    /\ reg[d].autocenter = cache.last_wheel_state.autocenter_enabled
    /\ reg[d].autocenter => reg[d].autocenter_spring = cache.last_wheel_state.autocenter

TellsAll(d) == Tells(d) /\ (LedClients \/ TellsAutocenter(d))

ReadyFree == BeforeStop => \A t \in Threads : \A d \in ready[t] \ dirty : IsFree(reg[d])

CacheShape ==
  /\ cache.have_last_constant_level = cache.last_constant_force_active
  /\ ~cache.last_constant_force_active => cache.last_constant_level = 0
  /\ ~cache.have_last_wheel_state => cache.last_wheel_state = ZeroPayload

CachePart ==
  /\ CacheShape
  /\ ReadyFree
  /\ BeforeStop => \A d \in wheels \ dirty : TellsAll(d)
  /\ LedClients \/ message.type # "set_led_pattern"

CacheInv == OwnershipInv /\ CachePart

LEMMA NoCacheShape ==
  /\ NoCache.have_last_constant_level = FALSE
  /\ NoCache.last_constant_force_active = FALSE
  /\ NoCache.last_constant_level = 0
  /\ NoCache.have_last_wheel_state = FALSE
  /\ NoCache.last_wheel_state = ZeroPayload
BY DEF NoCache

(* Steps that touch no wheel in service and leave the cache alone.         *)
LEMMA CacheFrame ==
  ASSUME CacheInv, BeforeStop' => BeforeStop, UNCHANGED <<cache, ready>>,
         wheels' \subseteq wheels,
         BeforeStop => \A t \in Threads : \A d \in wheels \cup ready[t] :
                         reg'[d] = reg[d] /\ (d \in dirty' <=> d \in dirty),
         LedClients \/ message'.type # "set_led_pattern"
  PROVE  CachePart'
<1>1. CacheShape'
  BY DEF CacheInv, CachePart, CacheShape
<1>2. ReadyFree'
  BY DEF CacheInv, CachePart, ReadyFree, IsFree
<1>3. ASSUME BeforeStop', NEW d \in wheels' \ dirty' PROVE TellsAll(d)'
  <2>1. Server \in Threads
    BY DEF Threads
  <2>2. d \in wheels \ dirty /\ reg'[d] = reg[d]
    BY <1>3, <2>1
  <2>3. TellsAll(d)
    BY <1>3, <2>2 DEF CacheInv, CachePart
  <2> QED  BY <2>2, <2>3 DEF TellsAll, Tells, TellsAutocenter
<1> QED  BY <1>1, <1>2, <1>3 DEF CachePart

(* While a cycle runs before stop no wheel is in service, and while wheels *)
(* are, none waits to be.                                                  *)
LEMMA NobodyReady ==
  ASSUME OwnershipInv, BeforeStop
  PROVE  /\ \A t \in Threads : InCycle(t) => wheels = {}
         /\ \A t, u \in Threads : InCycle(t) /\ u # t => ready[u] = {}
         /\ wheels # {} => \A t \in Threads : ready[t] = {}
BY DEF OwnershipInv, OneCycleAtATime, CycleShape

LEMMA MainCache ==
  ASSUME CacheInv, Start \/ RequestStop \/ Stop \/ Destroy \/ (\E t \in Clicks : Click(t))
  PROVE  CachePart'
<1> USE DEF serverVars, lockedVars, cycleVars, deviceVars
<1>1. message' = message
  BY DEF Start, RequestStop, Stop, Destroy, Click
<1>2. CASE Start \/ RequestStop \/ (\E t \in Clicks : Click(t))
  <2>1. UNCHANGED <<cache, ready, wheels, reg, dirty>> /\ (BeforeStop' => BeforeStop)
    BY <1>2 DEF Start, RequestStop, Click, BeforeStop
  <2> QED  BY <1>1, <2>1, CacheFrame DEF CacheInv, CachePart
<1>3. CASE Stop \/ Destroy
  <2>1. ~BeforeStop' /\ cache' = NoCache
    BY <1>3 DEF Stop, Destroy, StopLocked, BeforeStop
  <2> QED  BY <1>1, <2>1, NoCacheShape DEF CacheInv, CachePart, CacheShape, ReadyFree
<1> QED  BY <1>2, <1>3

LEMMA CycleCache ==
  ASSUME CacheInv, NEW t \in Threads, CycleStep(t) PROVE CachePart'
<1> USE DEF serverVars, lockedVars, deviceVars
<1>1. /\ TypeOK /\ CycleShape /\ CachePart
      /\ main' = main /\ message' = message
  BY DEF CacheInv, OwnershipInv, CycleStep, BeginCycle, DropPrevious, FindWheels, OpenWheel,
         StartCalibration, EndCalibration, FinishCycle
<1>2. (LedClients \/ message'.type # "set_led_pattern") /\ (BeforeStop' <=> BeforeStop)
  BY <1>1 DEF CachePart, BeforeStop
<1>3. CASE BeginCycle(t) \/ FindWheels(t) \/ \E d \in Devices : OpenWheel(t, d)
  <2>1. UNCHANGED <<cache, ready, reg, dirty>> /\ wheels' \subseteq wheels
    BY <1>3 DEF BeginCycle, FindWheels, OpenWheel
  <2> QED  BY <1>2, <2>1, CacheFrame
(* A step of the cycle on wheel d, which is not ready.                     *)
<1>4. ASSUME NEW d \in Devices, InCycle(t), d \notin ready[t],
             \A e \in Devices \ {d} : reg'[e] = reg[e] /\ (e \in dirty' <=> e \in dirty),
             UNCHANGED <<cache, ready, wheels>>
      PROVE  CachePart'
  <2>1. ASSUME BeforeStop, NEW u \in Threads, NEW e \in wheels \cup ready[u]
        PROVE  reg'[e] = reg[e] /\ (e \in dirty' <=> e \in dirty)
    <3>1. u = t /\ e \in ready[t]
      BY <1>4, <2>1, NobodyReady DEF CacheInv
    <3>2. e \in Devices
      BY <1>1, <3>1 DEF TypeOK
    <3> QED  BY <1>4, <3>1, <3>2
  <2> QED  BY <1>2, <1>4, <2>1, CacheFrame
<1>5. ASSUME NEW d \in Devices, DropPrevious(t, d) PROVE CachePart'
  <2>1. InCycle(t) /\ ready[t] = {} /\ UNCHANGED <<cache, ready, wheels>>
    BY <1>1, <1>5 DEF DropPrevious, InCycle, CycleShape
  <2>2. \A e \in Devices \ {d} : reg'[e] = reg[e] /\ (e \in dirty' <=> e \in dirty)
    BY <1>1, <1>5, DestroyedAccounted DEF DropPrevious, TypeOK
  <2> QED  BY <1>4, <2>1, <2>2
<1>6. ASSUME NEW d \in cur[t], NEW r \in Registers, InCycle(t), Discard(t, d, r),
             UNCHANGED <<cache, wheels>>
      PROVE  CachePart'
  <2>1. d \in Devices /\ d \notin ready[t] /\ ready' = ready
    BY <1>1, <1>6 DEF TypeOK, CycleShape, Discard
  <2>2. [reg EXCEPT ![d] = r] \in [Devices -> Registers]
    BY <1>1 DEF TypeOK
  <2>3. \A e \in Devices \ {d} :
          reg'[e] = [reg EXCEPT ![d] = r][e] /\ (e \in dirty' <=> e \in dirty)
    BY <1>6, <2>1, <2>2, DestroyedAccounted DEF Discard
  <2>4. \A e \in Devices \ {d} : reg'[e] = reg[e]
    BY <1>1, <2>3 DEF TypeOK
  <2> QED  BY <1>4, <1>6, <2>1, <2>3, <2>4
<1>7. ASSUME NEW d \in Devices, StartCalibration(t, d) PROVE CachePart'
  <2>1. PICK rej \in Refusals :
          \/ /\ reg' = [reg EXCEPT ![d] = CalibrationStart(reg[d], rej).r]
             /\ UNCHANGED <<cur, ready, dirty>>
          \/ Discard(t, d, CalibrationStart(reg[d], rej).r)
    BY <1>7 DEF StartCalibration
  <2>2. InCycle(t) /\ d \in cur[t] /\ d \notin ready[t] /\ UNCHANGED <<cache, wheels>>
    BY <1>1, <1>7 DEF StartCalibration, InCycle, CycleShape
  <2>3. CalibrationStart(reg[d], rej).r \in Registers
    BY <1>1, CalibrationStartType DEF TypeOK, Progress
  <2>4. CASE reg' = [reg EXCEPT ![d] = CalibrationStart(reg[d], rej).r] /\ UNCHANGED <<cur, ready, dirty>>
    <3>1. \A e \in Devices \ {d} : reg'[e] = reg[e] /\ (e \in dirty' <=> e \in dirty)
      BY <1>1, <2>4 DEF TypeOK
    <3> QED  BY <1>4, <2>2, <2>4, <3>1
  <2> QED  BY <1>6, <2>1, <2>2, <2>3, <2>4
<1>8. ASSUME NEW d \in Devices, EndCalibration(t, d) PROVE CachePart'
  <2>1. PICK rej \in Refusals :
          \/ /\ CalibrationEnd(reg[d], rej).ok
             /\ reg' = [reg EXCEPT ![d] = CalibrationEnd(reg[d], rej).r]
             /\ dirty' = dirty \ {d}
             /\ ready' = [ready EXCEPT ![t] = @ \cup {d}]
          \/ Discard(t, d, CalibrationEnd(reg[d], rej).r)
    BY <1>8 DEF EndCalibration
  <2>2. InCycle(t) /\ d \in cur[t] /\ UNCHANGED <<cache, wheels>>
    BY <1>8 DEF EndCalibration, InCycle
  <2>3. CalibrationEnd(reg[d], rej).r \in Registers
    BY <1>1, CalibrationEndType DEF TypeOK, Progress
  <2>4. CASE /\ CalibrationEnd(reg[d], rej).ok
             /\ reg' = [reg EXCEPT ![d] = CalibrationEnd(reg[d], rej).r]
             /\ dirty' = dirty \ {d}
             /\ ready' = [ready EXCEPT ![t] = @ \cup {d}]
    <3>1. IsFree(CalibrationEnd(reg[d], rej).r)
      BY <1>1, <2>4, CalibratedIsFree DEF TypeOK
    <3>2. IsFree(reg'[d]) /\ \A e \in Devices \ {d} : reg'[e] = reg[e] /\ (e \in dirty' <=> e \in dirty)
      BY <1>1, <2>4, <3>1 DEF TypeOK
    <3>3. ASSUME BeforeStop', NEW u \in Threads, NEW e \in ready'[u] \ dirty' PROVE IsFree(reg'[e])
      <4>1. BeforeStop /\ e \in Devices
        BY <1>1, <1>2, <2>4, <3>3 DEF TypeOK
      <4>2. e = d \/ e \in ready[u]
        BY <1>1, <2>4, <3>3 DEF TypeOK
      <4>3. CASE e # d
        BY <1>1, <3>2, <3>3, <4>1, <4>2, <4>3 DEF CachePart, ReadyFree
      <4> QED  BY <3>2, <4>3
    <3>4. BeforeStop' => wheels' = {}
      BY <1>2, <2>2, NobodyReady DEF CacheInv
    <3>5. ReadyFree'
      BY <3>3 DEF ReadyFree, IsFree
    <3> QED  BY <1>1, <1>2, <2>2, <3>4, <3>5 DEF CachePart, CacheShape
  <2> QED  BY <1>6, <2>1, <2>2, <2>3, <2>4
<1>9. CASE FinishCycle(t)
  <2>1. InCycle(t) /\ wheels' = ready[t] /\ cache' = NoCache /\ ready' = [ready EXCEPT ![t] = {}]
    BY <1>9 DEF FinishCycle, InCycle, CacheAfterCycle
  <2>2. BeforeStop => \A d \in Devices : reg'[d] = reg[d] /\ (d \in dirty' <=> d \in dirty)
    <3>1. BeforeStop => wheels = {}
      BY <2>1, NobodyReady DEF CacheInv
    <3> QED  BY <1>1, <1>9, <3>1, DestroyedAccounted DEF FinishCycle, TypeOK
  <2>3. CacheShape'
    BY <2>1, NoCacheShape DEF CacheShape
  <2>4. ReadyFree'
    <3>1. \A u \in Threads : ready'[u] \subseteq ready[u] /\ ready[u] \subseteq Devices
      BY <1>1, <2>1 DEF TypeOK
    <3> QED  BY <1>1, <1>2, <2>2, <3>1 DEF ReadyFree, CachePart, IsFree
  <2>5. ASSUME BeforeStop', NEW d \in wheels' \ dirty' PROVE TellsAll(d)'
    <3>1. d \in Devices /\ d \in ready[t] \ dirty /\ reg'[d] = reg[d]
      BY <1>1, <1>2, <2>1, <2>2, <2>5 DEF TypeOK
    <3>2. IsFree(reg'[d])
      BY <1>1, <1>2, <2>5, <3>1 DEF CachePart, ReadyFree
    <3> QED  BY <2>1, <3>2, NoCacheShape DEF TellsAll, Tells, TellsAutocenter, IsFree, Neutral
  <2> QED  BY <1>2, <2>3, <2>4, <2>5 DEF CachePart
<1> QED  BY <1>3, <1>5, <1>7, <1>8, <1>9 DEF CycleStep

(* A stop leaves the wheels in service as an empty cache, or one of a      *)
(* state without effects, describes them.                                  *)
LEMMA StopCache ==
  ASSUME CacheInv, NEW rej, NEW p \in WheelStatePayload, ~HasAnyEffect(p),
         reg' = RegStopped(rej), dirty' = DirtyAfterReset(wheels, rej, StopCommands),
         \/ cache' = CacheStopped
         \/ cache' = [NoCache EXCEPT !.have_last_wheel_state = TRUE, !.last_wheel_state = p],
         UNCHANGED <<main, wheels, ready>>, LedClients \/ message'.type # "set_led_pattern"
  PROVE  CachePart'
<1>1. TypeOK /\ OneControllerPerWheel /\ CachePart /\ (BeforeStop' <=> BeforeStop)
  BY OwnedOnce DEF CacheInv, OwnershipInv, BeforeStop
<1>2. /\ \A d \in wheels : d \in dirty' \/ (IsFree(reg'[d]) /\ ~reg'[d].autocenter)
      /\ \A d \in Devices \ wheels : reg'[d] = reg[d] /\ (d \in dirty' <=> d \in dirty)
  BY <1>1, StoppedAccounted
<1>3. ReadyFree'
  <2> SUFFICES ASSUME BeforeStop', NEW t \in Threads, NEW d \in ready'[t] \ dirty'
               PROVE  IsFree(reg'[d])
    BY DEF ReadyFree, IsFree
  <2>1. d \in ready[t] /\ d \in Devices /\ d \notin wheels
    BY <1>1 DEF OneControllerPerWheel, Held, TypeOK
  <2> QED  BY <1>1, <1>2, <2>1 DEF CachePart, ReadyFree
<1>4. CASE wheels = {} /\ cache' = cache
  BY <1>1, <1>3, <1>4 DEF CachePart, CacheShape
<1>5. CASE \/ cache' = NoCache
           \/ cache' = [NoCache EXCEPT !.have_last_wheel_state = TRUE, !.last_wheel_state = p]
  <2>1. /\ ~cache'.have_last_constant_level /\ ~cache'.last_constant_force_active
        /\ cache'.last_constant_level = 0
        /\ \/ ~cache'.have_last_wheel_state /\ cache'.last_wheel_state = ZeroPayload
           \/ cache'.have_last_wheel_state /\ cache'.last_wheel_state = p
        /\ cache'.have_last_constant_level = FALSE /\ cache'.last_constant_force_active = FALSE
    <3>1. CASE cache' = NoCache
      BY <3>1, NoCacheShape
    <3>2. CASE cache' = [NoCache EXCEPT !.have_last_wheel_state = TRUE, !.last_wheel_state = p]
      BY <3>2 DEF NoCache
    <3> QED  BY <1>5, <3>1, <3>2
  <2>2. SpringOf(p) = Off /\ DamperOf(p) = Off /\ p.autocenter_enabled = FALSE
    BY DEF HasAnyEffect, SpringOf, DamperOf, WheelStatePayload
  <2>3. CacheShape'
    BY <2>1 DEF CacheShape
  <2>4. ASSUME NEW d \in wheels' \ dirty' PROVE TellsAll(d)'
    <3>1. IsFree(reg'[d]) /\ ~reg'[d].autocenter
      BY <1>2, <2>4
    <3>2. reg' \in [Devices -> Registers] /\ d \in Devices
      BY <1>1, ResetTypes DEF TypeOK
    <3>3. reg'[d].autocenter = FALSE
      BY <3>1, <3>2 DEF Registers
    <3>4. Tells(d)'
      BY <2>1, <2>2, <3>1 DEF Tells, IsFree, Neutral
    <3>5. TellsAutocenter(d)'
      BY <2>1, <2>2, <3>3 DEF TellsAutocenter
    <3> QED  BY <3>4, <3>5 DEF TellsAll
  <2> QED  BY <1>3, <2>3, <2>4 DEF CachePart
<1> QED  BY <1>4, <1>5 DEF CacheStopped

(* The differential write: on a wheel that took its commands, what was     *)
(* skipped was as the payload wants it.                                    *)
LEMMA WriteTells ==
  ASSUME CacheInv, NEW p \in Payloads, NEW d \in wheels, NEW rej,
         TellsAll(d), WriteState(p, reg[d], rej).ok,
         reg'[d] = WriteState(p, reg[d], rej).r, cache' = CacheAfter(p)
  PROVE  TellsAll(d)'
<1> DEFINE w == WriteState(p, reg[d], rej).r
<1>1. TypeOK /\ CacheShape /\ reg[d] \in Registers /\ p \in WheelStatePayload
  BY PayloadParts DEF CacheInv, OwnershipInv, CachePart, TypeOK
<1>2. /\ w.spring = IF SpringChanged(p) THEN SpringOf(p) ELSE reg[d].spring
      /\ w.damper = IF DamperChanged(p) THEN DamperOf(p) ELSE reg[d].damper
      /\ w.constant = IF LevelChanged(p) THEN Neutral + DesiredLevel(p) ELSE reg[d].constant
      /\ w.autocenter = IF AutocenterChanged(p) THEN p.autocenter_enabled ELSE reg[d].autocenter
      /\ w.autocenter_spring = IF AutocenterChanged(p) /\ p.autocenter_enabled
                                 THEN p.autocenter ELSE reg[d].autocenter_spring
  BY <1>1, WriteStateLeaves
<1> HIDE DEF w
<1>3. /\ cache'.last_constant_force_active = (DesiredLevel(p) # 0)
      /\ cache'.last_constant_level = DesiredLevel(p)
      /\ cache'.have_last_wheel_state = TRUE
      /\ cache'.last_wheel_state = p
  BY DEF CacheAfter
<1>4. w.spring = SpringOf(p)
  BY <1>2 DEF TellsAll, Tells, SpringChanged, SpringOf
<1>5. w.damper = DamperOf(p)
  BY <1>2 DEF TellsAll, Tells, DamperChanged, DamperOf
<1>6. w.constant = Neutral + DesiredLevel(p)
  <2>1. CASE LevelChanged(p)
    BY <1>2, <2>1
  <2>2. CASE ~LevelChanged(p) /\ DesiredLevel(p) # 0
    BY <1>1, <1>2, <2>2 DEF LevelChanged, TellsAll, Tells, CacheShape
  <2>3. CASE ~LevelChanged(p) /\ DesiredLevel(p) = 0
    BY <1>1, <1>2, <2>3 DEF LevelChanged, TellsAll, Tells, CacheShape
  <2> QED  BY <2>1, <2>2, <2>3
<1>7. DesiredLevel(p) \in Level /\ Level \subseteq Int
  BY <1>1, DesiredLevelType DEF Level, MaxLevel
<1>8. Tells(d)'
  BY <1>3, <1>4, <1>5, <1>6, <1>7 DEF Tells, w, Neutral
<1>9. LedClients \/ TellsAutocenter(d)'
  <2> SUFFICES ASSUME TellsAutocenter(d) PROVE TellsAutocenter(d)'
    BY DEF TellsAll
  <2>1. CASE AutocenterChanged(p)
    BY <1>2, <1>3, <2>1 DEF TellsAutocenter, w
  <2>2. CASE ~AutocenterChanged(p)
    BY <1>2, <1>3, <2>2 DEF TellsAutocenter, AutocenterChanged, w
  <2> QED  BY <2>1, <2>2
<1> QED  BY <1>8, <1>9 DEF TellsAll

LEMMA WriteCache ==
  ASSUME CacheInv, NEW p \in Payloads, ApplyEffects(p),
         UNCHANGED <<main, ready>>
  PROVE  CachePart'
<1>1. /\ TypeOK /\ CachePart /\ OneControllerPerWheel /\ (BeforeStop' <=> BeforeStop)
      /\ message' = NoMessage /\ wheels' = wheels
  BY OwnedOnce DEF CacheInv, OwnershipInv, BeforeStop, ApplyEffects, Handled
<1>2. message'.type # "set_led_pattern"
  BY <1>1 DEF NoMessage
<1>3. PICK rej \in [wheels -> Refusals] :
        LET result  == [d \in wheels |-> WriteState(p, reg[d], rej[d])]
            applied == {d \in wheels : result[d].ok}
        IN  /\ reg' = [d \in Devices |-> IF d \in wheels THEN result[d].r ELSE reg[d]]
            /\ dirty' = dirty \cup (wheels \ applied)
            /\ \/ applied # {} /\ cache' = CacheAfter(p)
               \/ applied = {} /\ UNCHANGED cache
  BY DEF ApplyEffects
<1> DEFINE took(d) == WriteState(p, reg[d], rej[d]).ok
<1>4. /\ \A d \in wheels : took(d) => reg'[d] = WriteState(p, reg[d], rej[d]).r
      /\ \A d \in Devices \ wheels : reg'[d] = reg[d]
  BY <1>1, <1>3 DEF TypeOK
<1>5. dirty' = dirty \cup {d \in wheels : ~took(d)}
  BY <1>3
<1>6. \/ (\E d \in wheels : took(d)) /\ cache' = CacheAfter(p)
      \/ (\A d \in wheels : ~took(d)) /\ UNCHANGED cache
  BY <1>3
<1> HIDE DEF took
<1>7. ReadyFree'
  <2> SUFFICES ASSUME BeforeStop', NEW t \in Threads, NEW d \in ready'[t] \ dirty'
               PROVE  IsFree(reg'[d])
    BY DEF ReadyFree, IsFree
  <2>1. d \in ready[t] \ dirty /\ d \in Devices /\ d \notin wheels
    BY <1>1, <1>5 DEF OneControllerPerWheel, Held, TypeOK
  <2> QED  BY <1>1, <1>4, <2>1 DEF CachePart, ReadyFree
<1>8. CacheShape'
  <2>1. CASE UNCHANGED cache
    BY <1>1, <2>1 DEF CachePart, CacheShape
  <2>2. CASE cache' = CacheAfter(p)
    BY <2>2 DEF CacheShape, CacheAfter
  <2> QED  BY <1>6, <2>1, <2>2
<1>9. ASSUME BeforeStop', NEW d \in wheels' \ dirty' PROVE TellsAll(d)'
  <2>1. d \in wheels /\ took(d) /\ TellsAll(d)
    BY <1>1, <1>5, <1>9 DEF CachePart
  <2>2. cache' = CacheAfter(p)
    BY <1>6, <2>1
  <2>3. reg'[d] = WriteState(p, reg[d], rej[d]).r
    BY <1>4, <2>1
  <2>4. WriteState(p, reg[d], rej[d]).ok
    BY <2>1 DEF took
  <2> QED  BY <2>1, <2>2, <2>3, <2>4, WriteTells
<1> QED  BY <1>2, <1>7, <1>8, <1>9 DEF CachePart

(* An LED pattern makes the all-zero state known, which the wheel is in    *)
(* but for its autocenter spring.                                          *)
LEMMA LedCache ==
  ASSUME CacheInv, LedClients, cache' = [cache EXCEPT !.have_last_wheel_state = TRUE],
         UNCHANGED <<main, wheels, ready, reg, dirty>>
  PROVE  CachePart'
<1>1. TypeOK /\ CachePart /\ (BeforeStop' <=> BeforeStop)
  BY DEF CacheInv, OwnershipInv, BeforeStop
<1>2. /\ cache'.have_last_constant_level = cache.have_last_constant_level
      /\ cache'.last_constant_force_active = cache.last_constant_force_active
      /\ cache'.last_constant_level = cache.last_constant_level
      /\ cache'.have_last_wheel_state = TRUE
      /\ cache'.last_wheel_state = cache.last_wheel_state
  BY <1>1 DEF TypeOK, Cache
<1>3. SpringOf(ZeroPayload) = Off /\ DamperOf(ZeroPayload) = Off
  BY DEF SpringOf, DamperOf, ZeroPayload
<1>4. ASSUME BeforeStop', NEW d \in wheels' \ dirty' PROVE TellsAll(d)'
  <2>1. Tells(d)
    BY <1>1, <1>4 DEF CachePart, TellsAll
  <2>2. ~cache.have_last_wheel_state => cache.last_wheel_state = ZeroPayload
    BY <1>1 DEF CachePart, CacheShape
  <2> QED  BY <1>2, <1>3, <2>1, <2>2 DEF TellsAll, Tells
<1> QED  BY <1>1, <1>2, <1>4 DEF CachePart, CacheShape, ReadyFree, IsFree

LEMMA ServerCache ==
  ASSUME CacheInv, ServerStep PROVE CachePart'
<1> USE DEF serverVars, lockedVars, cycleVars, deviceVars, GoTo, Handled, OnlyServer
<1>1. TypeOK /\ CachePart /\ ZeroPayload \in WheelStatePayload /\ ~HasAnyEffect(ZeroPayload)
  BY ZeroPayloadType DEF CacheInv, OwnershipInv, HasAnyEffect, ZeroPayload
<1>2. main' = main /\ ready' = ready /\ wheels' = wheels
  BY ServerReach, <1>1
  DEF ServerStep, Bind, Booted, Loop, LeaveLoop, SelectTimeout, AcceptClient, Session, RecvFails,
      HandleHello, HandlePing, ReceiveStopAll, HandleStopAll, Receive, Ensure, Connected, Recheck,
      EndSession, HandleState, HandleLed
<1>3. NoMessage.type # "set_led_pattern" /\ \A m \in StateMessages : m.type # "set_led_pattern"
  BY DEF NoMessage, StateMessages
<1>4. ASSUME UNCHANGED <<cache, reg, dirty>>, message' \in {message, NoMessage} PROVE CachePart'
  BY <1>1, <1>2, <1>3, <1>4, CacheFrame DEF CachePart, BeforeStop
<1>5. CASE HandleStopAll \/ EndSession
  <2>1. PICK rej : reg' = RegStopped(rej) /\ dirty' = DirtyAfterReset(wheels, rej, StopCommands)
    BY <1>5 DEF HandleStopAll, EndSession
  <2>2. cache' = CacheStopped /\ message' = message
    BY <1>5 DEF HandleStopAll, EndSession
  <2> QED  BY <1>1, <1>2, <2>1, <2>2, StopCache DEF CachePart
<1>6. CASE HandleState
  <2> DEFINE p == message.payload
  <2>1. p \in Payloads /\ p \in WheelStatePayload
    <3>1. p \in Payloads
      BY <1>1, <1>6 DEF HandleState, TypeOK, StateMessages, LedMessage, NoMessage
    <3> QED  BY <3>1, PayloadParts
  <2> HIDE DEF p
  <2>2. CASE ApplyWhileBusy \/ ApplyWithoutWheels \/ ApplyRepeated(p)
    BY <1>4, <2>2 DEF ApplyWhileBusy, ApplyWithoutWheels, ApplyRepeated
  <2>3. CASE ApplyNoEffect(p)
    <3>1. PICK rej : reg' = RegStopped(rej) /\ dirty' = DirtyAfterReset(wheels, rej, StopCommands)
      BY <2>3 DEF ApplyNoEffect
    <3>2. /\ cache' = [NoCache EXCEPT !.have_last_wheel_state = TRUE, !.last_wheel_state = p]
          /\ message' = NoMessage /\ ~HasAnyEffect(p)
      BY <2>3 DEF ApplyNoEffect
    <3> QED  BY <1>2, <1>3, <2>1, <3>1, <3>2, StopCache
  <2>4. CASE ApplyEffects(p)
    BY <1>2, <2>1, <2>4, WriteCache
  <2> QED  BY <1>6, <2>2, <2>3, <2>4 DEF HandleState, p
<1>7. CASE HandleLed
  <2>1. LedClients
    BY <1>1, <1>7 DEF HandleLed, CachePart, LedMessage
  <2>2. CASE LedShown
    <3>1. \/ cache' = [cache EXCEPT !.have_last_wheel_state = TRUE]
          \/ UNCHANGED cache /\ message' = NoMessage
      BY <2>2 DEF LedShown
    <3>2. UNCHANGED <<reg, dirty>>
      BY <2>2 DEF LedShown
    <3> QED  BY <1>2, <1>4, <2>1, <3>1, <3>2, LedCache
  <2> QED  BY <1>4, <1>7, <2>2 DEF HandleLed, ApplyWhileBusy, ApplyWithoutWheels
<1>8. CASE Receive
  <2>1. LedClients \/ message'.type # "set_led_pattern"
    BY <1>3, <1>8 DEF Receive
  <2>2. UNCHANGED <<cache, reg, dirty>>
    BY <1>8 DEF Receive
  <2> QED  BY <1>2, <2>1, <2>2, CacheFrame DEF BeforeStop
<1>9. CASE ~(HandleStopAll \/ EndSession \/ HandleState \/ HandleLed \/ Receive)
  BY <1>4, <1>9
  DEF ServerStep, Bind, Booted, Loop, LeaveLoop, SelectTimeout, AcceptClient, Session, RecvFails,
      HandleHello, HandlePing, ReceiveStopAll, Ensure, Connected, Recheck
<1> QED  BY <1>5, <1>6, <1>7, <1>8, <1>9

LEMMA CacheInit == Init => CacheInv
<1> SUFFICES ASSUME Init PROVE CachePart
  BY InitOwnership DEF CacheInv
<1>1. cache = NoCache /\ message = NoMessage /\ wheels = {} /\ \A t \in Threads : ready[t] = {}
  BY DEF Init
<1> QED  BY <1>1, NoCacheShape DEF CachePart, CacheShape, ReadyFree, NoMessage

LEMMA NextCache == CacheInv /\ [Next]_vars => CacheInv'
<1> SUFFICES ASSUME CacheInv, [Next]_vars PROVE CachePart'
  BY NextOwnership DEF CacheInv
<1>1. CASE UNCHANGED vars
  BY <1>1, CacheFrame
  DEF vars, serverVars, lockedVars, cycleVars, deviceVars, BeforeStop, CacheInv, CachePart
<1>2. ASSUME NEW t \in Threads, CycleStep(t) PROVE CachePart'
  BY <1>2, CycleCache
<1> QED  BY <1>1, <1>2, MainCache, ServerCache DEF Next, Terminated

LEMMA CacheAlways == Spec => []CacheInv
BY CacheInit, NextCache, PTL DEF Spec

(* The cache tells the truth about every wheel in service that took its    *)
(* commands, so that a command is skipped only where the wheel is already  *)
(* as the payload wants it: for any wheels, states and refusals.           *)
THEOREM CacheTruthful == Spec => []CacheCoherent
<1>1. CacheInv => CacheCoherent
  BY DEF CacheInv, CachePart, TellsAll, Tells, CacheCoherent
<1> QED  BY <1>1, CacheAlways, PTL

(* So does what it says of the autocenter spring, if no client sends LED   *)
(* patterns.                                                               *)
THEOREM AutocenterTruthful == ASSUME ~LedClients PROVE Spec => []AutocenterCoherent
<1>1. CacheInv => AutocenterCoherent
  BY DEF CacheInv, CachePart, TellsAll, TellsAutocenter, AutocenterCoherent
<1> QED  BY <1>1, CacheAlways, PTL
-----------------------------------------------------------------------------
(* The lease.  A step of the server is a step of ForceLease, or none, under*)
(* the mapping of BridgeServer.  Beside the invariants above this needs the*)
(* places at which the server thread has a client, and that without one    *)
(* nothing in service pushes.                                              *)

SessionPlaces ==
  {"session", "recv", "stop_all", "ensure", "connect", "recheck", "apply", "closing"}

SessionInv ==
  /\ status.client_connected <=> server \in SessionPlaces
  /\ ~BeforeStop => server = "exited"

Forced    == IF BeforeStop THEN Pushing(wheels) ELSE {}
Releasing == IF BeforeStop THEN Pushing(UNION {prev[t] : t \in Threads}) ELSE {}

LeaseInv == CacheInv /\ SessionInv /\ (~status.client_connected => Forced = {})

LeaseStep == Lease!Next \/ UNCHANGED <<status.client_connected, Forced, Releasing>>

(* What a step makes of the mapped variables.                              *)
PushingNext(D) == {d \in D \ dirty' : ~IsFree(reg'[d])}

LEMMA MappingNext ==
  /\ Forced' = IF BeforeStop' THEN PushingNext(wheels') ELSE {}
  /\ Releasing' = IF BeforeStop' THEN PushingNext(UNION {prev'[t] : t \in Threads}) ELSE {}
BY DEF Forced, Releasing, Pushing, PushingNext

LEMMA PushingStays ==
  \A D : (\A d \in D : reg'[d] = reg[d] /\ (d \in dirty' <=> d \in dirty)) => PushingNext(D) = Pushing(D)
BY DEF Pushing, PushingNext

LEMMA NothingPushes == Pushing({}) = {} /\ PushingNext({}) = {}
BY DEF Pushing, PushingNext

(* Before stop() a cycle empties the table, and is alone.                  *)
LEMMA AloneInCycle ==
  ASSUME OwnershipInv, BeforeStop
  PROVE  /\ ~in_progress => UNION {prev[u] : u \in Threads} = {}
         /\ \A t \in Threads : InCycle(t) => wheels = {} /\ UNION {prev[u] : u \in Threads} = prev[t]
         /\ wheels # {} => UNION {prev[u] : u \in Threads} = {}
<1>1. \A u \in Threads : ~InCycle(u) => prev[u] = {}
  BY DEF OwnershipInv, CycleShape
<1>2. /\ \A t, u \in Threads : InCycle(t) /\ InCycle(u) => t = u
      /\ in_progress <=> \E t \in Threads : InCycle(t)
      /\ in_progress => wheels = {}
  BY DEF OwnershipInv, OneCycleAtATime
<1>3. (\A u \in Threads : ~InCycle(u)) => UNION {prev[u] : u \in Threads} = {}
  BY <1>1
<1>4. ASSUME NEW t \in Threads, InCycle(t)
      PROVE  UNION {prev[u] : u \in Threads} = prev[t]
  <2>1. \A u \in Threads : u # t => prev[u] = {}
    BY <1>1, <1>2, <1>4
  <2> QED  BY <1>4, <2>1
<1> QED  BY <1>2, <1>3, <1>4

LEMMA SessionStep ==
  ASSUME OwnershipInv, SessionInv, [Next]_vars PROVE SessionInv'
<1> USE DEF SessionInv, SessionPlaces, serverVars, lockedVars, cycleVars, deviceVars, GoTo, Handled
<1>1. TypeOK /\ (main = "launch" => server = "none")
  BY DEF OwnershipInv, ServerOutsideCycle
<1>2. CASE Start \/ RequestStop \/ (\E t \in Clicks : Click(t))
  BY <1>1, <1>2 DEF Start, RequestStop, Click, BeforeStop
<1>3. CASE Stop \/ Destroy
  <2>1. status'.client_connected = FALSE /\ server' = server
    BY <1>1, <1>3 DEF Stop, Destroy, StopLocked, TypeOK
  <2>2. server = "exited"
    BY <1>3 DEF Stop, Destroy, BeforeStop
  <2> QED  BY <2>1, <2>2
<1>4. ASSUME NEW t \in Threads, CycleStep(t) PROVE SessionInv'
  <2>1. main' = main /\ server' = server
    BY <1>4 DEF CycleStep, BeginCycle, DropPrevious, FindWheels, OpenWheel, StartCalibration,
                EndCalibration, FinishCycle
  <2>2. status'.client_connected = status.client_connected
    BY <1>1, <1>4 DEF CycleStep, BeginCycle, DropPrevious, FindWheels, OpenWheel, StartCalibration,
                EndCalibration, FinishCycle, StatusAfterCycle, TypeOK
  <2> QED  BY <2>1, <2>2 DEF BeforeStop
<1>5. CASE ServerStep
  <2>1. main' = main /\ server # "exited"
    BY <1>5
    DEF ServerStep, Bind, Booted, Loop, LeaveLoop, SelectTimeout, AcceptClient, Session, RecvFails,
        HandleHello, HandlePing, ReceiveStopAll, HandleStopAll, Receive, Ensure, Connected, Recheck,
        EndSession, HandleState, HandleLed, OnlyServer
  <2>2. BeforeStop /\ BeforeStop'
    BY <2>1 DEF BeforeStop
  <2>3. CASE Bind \/ AcceptClient \/ EndSession \/ Ensure
    BY <1>1, <2>2, <2>3 DEF Bind, AcceptClient, EndSession, Ensure, TypeOK
  <2>4. CASE HandleState \/ HandleLed
    <3>1. server = "apply" /\ server' \in {"session", "closing"}
      BY <2>4 DEF HandleState, HandleLed, ApplyWhileBusy, ApplyWithoutWheels, ApplyNoEffect,
                  ApplyRepeated, ApplyEffects, LedShown
    <3>2. status'.client_connected = status.client_connected
      <4>1. UNCHANGED status \/ status' = [status EXCEPT !.wheel_connected = FALSE]
        BY <2>4 DEF HandleState, HandleLed, ApplyWhileBusy, ApplyWithoutWheels, ApplyNoEffect,
                    ApplyRepeated, ApplyEffects, LedShown
      <4> QED  BY <1>1, <4>1 DEF TypeOK
    <3> QED  BY <2>2, <3>1, <3>2
  <2>5. CASE Booted \/ Loop \/ LeaveLoop \/ SelectTimeout \/ Session \/ RecvFails \/ HandleHello
             \/ HandlePing \/ ReceiveStopAll \/ HandleStopAll \/ Receive \/ Connected \/ Recheck
    BY <2>2, <2>5
    DEF Booted, Loop, LeaveLoop, SelectTimeout, Session, RecvFails, HandleHello,
        HandlePing, ReceiveStopAll, HandleStopAll, Receive, Connected, Recheck, OnlyServer
  <2> QED  BY <1>5, <2>3, <2>4, <2>5 DEF ServerStep
<1>6. CASE UNCHANGED vars
  BY <1>6 DEF vars, BeforeStop
<1> QED  BY <1>2, <1>3, <1>4, <1>5, <1>6 DEF Next, Terminated

(* The main thread: after stop() nothing is leased any more.               *)
LEMMA MainLease ==
  ASSUME LeaseInv, Start \/ RequestStop \/ Stop \/ Destroy \/ (\E t \in Clicks : Click(t))
  PROVE  LeaseStep /\ (~status'.client_connected => Forced' = {})
<1> USE DEF lockedVars, deviceVars
<1>1. CASE Start \/ RequestStop \/ (\E t \in Clicks : Click(t))
  <2>1. UNCHANGED <<status, wheels, prev, reg, dirty>> /\ (BeforeStop' <=> BeforeStop)
    BY <1>1 DEF Start, RequestStop, Click, BeforeStop, cycleVars
  <2>2. UNCHANGED <<status.client_connected, Forced, Releasing>>
    BY <2>1 DEF Forced, Releasing, Pushing
  <2> QED  BY <2>1, <2>2 DEF LeaseStep, LeaseInv
<1>2. CASE Stop \/ Destroy
  <2>1. ~BeforeStop' /\ status'.client_connected = FALSE
    BY <1>2 DEF Stop, Destroy, StopLocked, BeforeStop, LeaseInv, CacheInv, OwnershipInv, TypeOK
  <2>2. status.client_connected = FALSE
    <3>1. server = "exited"
      BY <1>2 DEF Stop, Destroy, BeforeStop, LeaseInv, SessionInv
    <3> QED  BY <3>1 DEF LeaseInv, SessionInv, SessionPlaces, CacheInv, OwnershipInv, TypeOK
  <2>3. Forced = {} /\ Forced' = {} /\ Releasing' = {}
    BY <2>1, <2>2, MappingNext DEF LeaseInv
  <2>4. CASE Releasing = {}
    BY <2>1, <2>2, <2>3, <2>4 DEF LeaseStep
  <2>5. CASE Releasing # {}
    <3>1. Lease!Release
      BY <2>1, <2>2, <2>3, <2>5 DEF Lease!Release, Forced, Releasing
    <3> QED  BY <2>3, <3>1 DEF LeaseStep, Lease!Next
  <2> QED  BY <2>3, <2>4, <2>5
<1> QED  BY <1>1, <1>2

(* A connect cycle: it takes the wheels over with their forces on, releases*)
(* them one by one, and puts only free wheels into service.                *)
LEMMA CycleLease ==
  ASSUME LeaseInv, NEW t \in Threads, CycleStep(t)
  PROVE  LeaseStep /\ (~status'.client_connected => Forced' = {})
<1> USE DEF lockedVars, deviceVars
<1> DEFINE hands == UNION {prev[u] : u \in Threads}
           handsNext == UNION {prev'[u] : u \in Threads}
<1>1. /\ TypeOK /\ CycleShape /\ OwnershipInv /\ CachePart
      /\ ~status.client_connected => Forced = {}
  BY DEF LeaseInv, CacheInv, OwnershipInv
<1>2. main' = main /\ (BeforeStop' <=> BeforeStop)
  BY DEF CycleStep, BeginCycle, DropPrevious, FindWheels, OpenWheel, StartCalibration,
         EndCalibration, FinishCycle, BeforeStop
<1>3. status'.client_connected = status.client_connected
  BY <1>1 DEF CycleStep, BeginCycle, DropPrevious, FindWheels, OpenWheel, StartCalibration,
         EndCalibration, FinishCycle, StatusAfterCycle, TypeOK
<1>4. CASE ~BeforeStop
  <2>1. Forced = {} /\ Releasing = {} /\ Forced' = {} /\ Releasing' = {}
    BY <1>2, <1>4, MappingNext DEF Forced, Releasing
  <2> QED  BY <1>3, <2>1 DEF LeaseStep
<1> SUFFICES ASSUME BeforeStop
             PROVE  LeaseStep /\ (~status'.client_connected => Forced' = {})
  BY <1>4
<1>5. /\ Forced = Pushing(wheels) /\ Releasing = Pushing(hands)
      /\ Forced' = PushingNext(wheels') /\ Releasing' = PushingNext(handsNext)
  BY <1>2, MappingNext DEF Forced, Releasing
<1>6. ASSUME Forced' = Forced, Releasing' = Releasing
      PROVE  LeaseStep /\ (~status'.client_connected => Forced' = {})
  BY <1>1, <1>3, <1>6 DEF LeaseStep
<1>7. ASSUME UNCHANGED <<wheels, prev, reg, dirty>>
      PROVE  LeaseStep /\ (~status'.client_connected => Forced' = {})
  <2>1. PushingNext(wheels') = Pushing(wheels) /\ PushingNext(handsNext) = Pushing(hands)
    BY <1>7 DEF Pushing, PushingNext
  <2> QED  BY <1>5, <1>6, <2>1
<1>8. ASSUME InCycle(t), UNCHANGED <<wheels, prev>>, prev[t] = {}
      PROVE  LeaseStep /\ (~status'.client_connected => Forced' = {})
  <2>1. wheels = {} /\ hands = {} /\ wheels' = {} /\ handsNext = {}
    BY <1>1, <1>8, AloneInCycle
  <2> QED  BY <1>5, <1>6, <2>1, NothingPushes
<1>9. CASE BeginCycle(t)
  <2>1. CASE UNCHANGED <<wheels, prev>>
    BY <1>7, <1>9, <2>1 DEF BeginCycle
  <2>2. CASE MayBegin(t) /\ prev' = [prev EXCEPT ![t] = wheels] /\ wheels' = {}
    <3>1. hands = {}
      BY <1>1, <2>2, AloneInCycle DEF MayBegin
    <3>2. handsNext = wheels
      <4>1. \A u \in Threads : u # t => prev'[u] = {}
        BY <1>1, <2>2, <3>1 DEF TypeOK
      <4>2. prev'[t] = wheels
        BY <1>1, <2>2 DEF TypeOK
      <4> QED  BY <4>1, <4>2
    <3>3. PushingNext(wheels) = Pushing(wheels)
      BY <1>9, PushingStays DEF BeginCycle
    <3>4. Forced' = {} /\ Releasing' = Forced /\ Releasing = {}
      BY <1>5, <2>2, <3>1, <3>2, <3>3, NothingPushes
    <3>5. CASE Forced = {}
      BY <1>6, <3>4, <3>5
    <3>6. CASE Forced # {}
      <4>1. Lease!TakeOver
        BY <1>3, <3>4, <3>6 DEF Lease!TakeOver, Forced, Releasing
      <4> QED  BY <3>4, <4>1 DEF LeaseStep, Lease!Next
    <3> QED  BY <3>5, <3>6
  <2> QED  BY <1>9, <2>1, <2>2 DEF BeginCycle
<1>10. ASSUME NEW d \in Devices, DropPrevious(t, d)
       PROVE  LeaseStep /\ (~status'.client_connected => Forced' = {})
  <2>1. /\ InCycle(t) /\ d \in prev[t] /\ prev' = [prev EXCEPT ![t] = @ \ {d}]
        /\ UNCHANGED wheels
    BY <1>10 DEF DropPrevious, InCycle
  <2>2. wheels = {} /\ hands = prev[t]
    BY <1>1, <2>1, AloneInCycle
  <2>3. handsNext = prev[t] \ {d}
    <3>1. \A u \in Threads : u # t => prev'[u] = prev[u] /\ prev[u] \subseteq prev[t]
      BY <1>1, <2>1, <2>2 DEF TypeOK
    <3>2. \A u \in Threads : u # t => prev[u] = {}
      BY <1>1, <2>1 DEF OwnershipInv, OneCycleAtATime, CycleShape
    <3>3. prev'[t] = prev[t] \ {d}
      BY <1>1, <2>1 DEF TypeOK
    <3> QED  BY <3>1, <3>2, <3>3
  <2>4. \A e \in prev[t] \ {d} : reg'[e] = reg[e] /\ (e \in dirty' <=> e \in dirty)
    BY <1>1, <1>10, DestroyedAccounted DEF DropPrevious, TypeOK
  <2>5. PushingNext(prev[t] \ {d}) = Pushing(prev[t] \ {d})
    BY <2>4, PushingStays
  <2>6. Pushing(prev[t] \ {d}) = Pushing(prev[t]) \ {d}
    BY DEF Pushing
  <2>7. Forced = {} /\ Forced' = {} /\ Releasing' = Releasing \ {d}
    BY <1>5, <2>1, <2>2, <2>3, <2>5, <2>6, NothingPushes
  <2>8. CASE d \notin Releasing
    BY <1>6, <2>7, <2>8
  <2>9. CASE d \in Releasing
    <3>1. Lease!Release
      BY <1>3, <2>7, <2>9 DEF Lease!Release, Forced, Releasing
    <3> QED  BY <2>7, <3>1 DEF LeaseStep, Lease!Next
  <2> QED  BY <2>8, <2>9
<1>11. CASE FindWheels(t) \/ \E d \in Devices : OpenWheel(t, d)
  BY <1>7, <1>11 DEF FindWheels, OpenWheel
<1>12. CASE \E d \in Devices : StartCalibration(t, d) \/ EndCalibration(t, d)
  <2>1. InCycle(t) /\ prev[t] = {} /\ UNCHANGED <<wheels, prev>>
    BY <1>1, <1>12 DEF StartCalibration, EndCalibration, InCycle, CycleShape
  <2> QED  BY <1>8, <2>1
<1>13. CASE FinishCycle(t)
  <2>1. InCycle(t) /\ prev[t] = {} /\ wheels' = ready[t] /\ prev' = prev
    BY <1>1, <1>13 DEF FinishCycle, InCycle, CycleShape
  <2>2. wheels = {} /\ hands = {} /\ handsNext = {}
    BY <1>1, <2>1, AloneInCycle
  <2>3. \A d \in Devices : reg'[d] = reg[d] /\ (d \in dirty' <=> d \in dirty)
    BY <1>1, <1>13, <2>2, DestroyedAccounted DEF FinishCycle, TypeOK
  <2>4. ready[t] \subseteq Devices /\ \A d \in ready[t] \ dirty : IsFree(reg[d])
    BY <1>1 DEF TypeOK, CachePart, ReadyFree
  <2>5. PushingNext(ready[t]) = {}
    BY <2>3, <2>4 DEF PushingNext
  <2> QED  BY <1>5, <1>6, <2>1, <2>2, <2>5, NothingPushes
<1> QED  BY <1>9, <1>10, <1>11, <1>12, <1>13 DEF CycleStep

(* The server thread: only a session changes the forces in service, and    *)
(* its end ends them.                                                      *)
LEMMA ServerLease ==
  ASSUME LeaseInv, ServerStep
  PROVE  LeaseStep /\ (~status'.client_connected => Forced' = {})
<1> USE DEF lockedVars, deviceVars, cycleVars, OnlyServer
<1> DEFINE hands == UNION {prev[u] : u \in Threads}
           handsNext == UNION {prev'[u] : u \in Threads}
<1>1. /\ TypeOK /\ OwnershipInv /\ SessionInv
      /\ ~status.client_connected => Forced = {}
  BY DEF LeaseInv, CacheInv, OwnershipInv
<1>2. BeforeStop /\ BeforeStop'
  BY <1>1
  DEF ServerStep, Bind, Booted, Loop, LeaveLoop, SelectTimeout, AcceptClient, Session, RecvFails,
      HandleHello, HandlePing, ReceiveStopAll, HandleStopAll, Receive, Ensure, Connected, Recheck,
      EndSession, HandleState, HandleLed, SessionInv, BeforeStop
<1>3. /\ UNCHANGED <<prev, wheels>> /\ wheels \subseteq Devices /\ hands \subseteq Devices
      /\ \A d \in Devices \ wheels : reg'[d] = reg[d] /\ (d \in dirty' <=> d \in dirty)
  BY <1>1, ServerReach DEF TypeOK
<1>4. /\ Forced = Pushing(wheels) /\ Releasing = Pushing(hands)
      /\ Forced' = PushingNext(wheels) /\ Releasing' = PushingNext(hands)
  BY <1>2, <1>3, MappingNext DEF Forced, Releasing
<1>5. Releasing' = Releasing
  <2>1. CASE hands = {}
    BY <1>4, <2>1, NothingPushes
  <2>2. CASE wheels = {}
    BY <1>3, <1>4, <2>2, PushingStays
  <2> QED  BY <1>1, <1>2, <2>1, <2>2, AloneInCycle
<1>6. ASSUME UNCHANGED <<reg, dirty>> PROVE Forced' = Forced
  BY <1>4, <1>6, PushingStays
<1>7. ASSUME UNCHANGED <<reg, dirty>>, status'.client_connected = status.client_connected
      PROVE  LeaseStep /\ (~status'.client_connected => Forced' = {})
  BY <1>1, <1>5, <1>6, <1>7 DEF LeaseStep
<1>8. CASE AcceptClient
  <2>1. ~status.client_connected /\ status'.client_connected = TRUE /\ UNCHANGED <<reg, dirty>>
    BY <1>1, <1>8 DEF AcceptClient, TypeOK, SessionInv, SessionPlaces
  <2>2. Forced' = Forced
    BY <1>6, <2>1
  <2>3. Lease!Open
    BY <1>5, <2>1, <2>2 DEF Lease!Open, Forced, Releasing
  <2> QED  BY <2>1, <2>3 DEF LeaseStep, Lease!Next
<1>9. CASE EndSession
  <2>1. status.client_connected /\ status'.client_connected = FALSE
    BY <1>1, <1>9 DEF EndSession, TypeOK, SessionInv, SessionPlaces
  <2>2. \A d \in wheels : d \in dirty' \/ IsFree(reg'[d])
    BY <1>1, <1>9, StoppedAccounted DEF EndSession
  <2>3. Forced' = {}
    BY <1>4, <2>2 DEF PushingNext
  <2>4. Lease!Close
    BY <1>5, <2>1, <2>3 DEF Lease!Close, Forced, Releasing
  <2> QED  BY <2>3, <2>4 DEF LeaseStep, Lease!Next
<1>10. CASE HandleState \/ HandleStopAll
  <2>1. status'.client_connected = status.client_connected
    <3>1. UNCHANGED status \/ status' = [status EXCEPT !.wheel_connected = FALSE]
      BY <1>10 DEF HandleState, HandleStopAll, ApplyWhileBusy, ApplyWithoutWheels, ApplyNoEffect,
                   ApplyRepeated, ApplyEffects
    <3> QED  BY <1>1, <3>1 DEF TypeOK
  <2>2. status.client_connected
    BY <1>1, <1>10 DEF HandleState, HandleStopAll, SessionInv, SessionPlaces
  <2>3. Forced' \in SUBSET Devices
    BY <1>3, <1>4 DEF PushingNext
  <2>4. Lease!Work
    BY <1>5, <2>1, <2>2, <2>3 DEF Lease!Work, Forced, Releasing
  <2> QED  BY <2>1, <2>2, <2>4 DEF LeaseStep, Lease!Next
<1>11. CASE Bind \/ Ensure
  BY <1>1, <1>7, <1>11 DEF Bind, Ensure, TypeOK
<1>12. CASE HandleLed
  <2>1. UNCHANGED <<reg, dirty>>
    BY <1>12 DEF HandleLed, ApplyWhileBusy, ApplyWithoutWheels, LedShown
  <2>2. UNCHANGED status \/ status' = [status EXCEPT !.wheel_connected = FALSE]
    BY <1>12 DEF HandleLed, ApplyWhileBusy, ApplyWithoutWheels, LedShown
  <2> QED  BY <1>1, <1>7, <2>1, <2>2 DEF TypeOK
<1>13. CASE Booted \/ Loop \/ LeaveLoop \/ SelectTimeout \/ Session \/ RecvFails \/ HandleHello
            \/ HandlePing \/ ReceiveStopAll \/ Receive \/ Connected \/ Recheck
  <2>1. UNCHANGED <<status, reg, dirty>>
    BY <1>13 DEF Booted, Loop, LeaveLoop, SelectTimeout, Session, RecvFails, HandleHello,
                 HandlePing, ReceiveStopAll, Receive, Connected, Recheck
  <2> QED  BY <1>7, <2>1
<1> QED  BY <1>8, <1>9, <1>10, <1>11, <1>12, <1>13 DEF ServerStep

LEMMA LeaseInit == Init => LeaseInv /\ Lease!Init
<1> SUFFICES ASSUME Init PROVE LeaseInv /\ Lease!Init
  OBVIOUS
<1>1. CacheInv
  BY CacheInit
<1>2. wheels = {} /\ status.client_connected = FALSE /\ \A t \in Threads : prev[t] = {}
  BY DEF Init
<1>3. Forced = {} /\ Releasing = {}
  BY <1>2 DEF Forced, Releasing, Pushing
<1>4. SessionInv
  BY <1>2 DEF Init, SessionInv, SessionPlaces, BeforeStop
<1> QED  BY <1>1, <1>2, <1>3, <1>4 DEF LeaseInv, Lease!Init, Forced, Releasing

LEMMA NextLease == LeaseInv /\ [Next]_vars => LeaseInv' /\ [LeaseStep]_vars
<1> SUFFICES ASSUME LeaseInv, [Next]_vars PROVE LeaseInv' /\ [LeaseStep]_vars
  OBVIOUS
<1>1. CacheInv' /\ SessionInv'
  BY NextCache, SessionStep DEF LeaseInv, CacheInv
<1>2. CASE UNCHANGED vars
  BY <1>1, <1>2
  DEF vars, lockedVars, cycleVars, deviceVars, LeaseInv, Forced, Pushing, BeforeStop
<1>3. CASE Next /\ ~UNCHANGED vars
  <2>1. LeaseStep /\ (~status'.client_connected => Forced' = {})
    <3>1. ASSUME NEW t \in Threads, CycleStep(t)
          PROVE  LeaseStep /\ (~status'.client_connected => Forced' = {})
      BY <3>1, CycleLease
    <3> QED  BY <1>3, <3>1, MainLease, ServerLease DEF Next, Terminated
  <2> QED  BY <1>1, <2>1 DEF LeaseInv
<1> QED  BY <1>2, <1>3

(* Every behaviour of the server is one of ForceLease up to its fairness:  *)
(* for any devices, clicks, messages and refusals, forces act under the    *)
(* lease of a session, end with it, or are taken over and released.        *)
THEOREM LeaseIsKept == Spec => Lease!Safety
<1>1. [LeaseStep]_vars => [Lease!Next]_(Lease!vars)
  BY DEF LeaseStep, Lease!vars, Forced, Releasing, Pushing, BeforeStop,
         vars, serverVars, lockedVars, cycleVars, deviceVars
<1> QED  BY <1>1, LeaseInit, NextLease, PTL DEF Spec, Lease!Safety
=============================================================================
