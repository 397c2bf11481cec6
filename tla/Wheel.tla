-------------------------------- MODULE Wheel --------------------------------
(***************************************************************************)
(* One G923 as WheelController drives it (wheel.cpp, command.cpp): the     *)
(* force registers a command changes, and the sequences of commands the    *)
(* controller sends.  Pure operators over a register record; who sends     *)
(* what, and when, is in BridgeServer.                                     *)
(*                                                                         *)
(* IOHIDDeviceSetReport may refuse any command (an unplugged or busy       *)
(* wheel): an operator takes the set `rej` of the commands refused while   *)
(* it runs, and a refused command changes nothing.  LEDs are left out of   *)
(* the registers (no property is about them), the LED commands are kept    *)
(* where their being refused changes what the controller does next.        *)
(***************************************************************************)
EXTENDS Integers

CONSTANTS
  Params,              \* settings of a spring, a damper or the autocenter spring
  Off,                 \* the all-zero setting: no force
  CalibrationSpring    \* set_autocenter_spring(2, 2, 48)

ASSUME ParamsAssumption == Off \in Params /\ CalibrationSpring \in Params

Byte    == 0..255
Neutral == 128         \* the constant-force byte that pushes neither way
TestForce == 120       \* the constant force of the calibration test

Commands == { "stop_forces", "enable_autocenter", "disable_autocenter", "set_autocenter_spring",
              "set_custom_spring", "set_damper", "set_constant_force", "set_led_pattern" }

Registers == [ autocenter        : BOOLEAN,
               autocenter_spring : Params,
               spring            : Params,
               damper            : Params,
               constant          : Byte ]

(* What the wheel does with a command it accepts.  Springs, dampers and    *)
(* constant forces are all SET_FORCE_EFFECT commands, which STOP_FORCES    *)
(* ends; the autocenter spring has commands of its own.                    *)
Accept(r, command, value) ==
  CASE command = "stop_forces"           -> [r EXCEPT !.spring = Off, !.damper = Off, !.constant = Neutral]
    [] command = "enable_autocenter"     -> [r EXCEPT !.autocenter = TRUE]
    [] command = "disable_autocenter"    -> [r EXCEPT !.autocenter = FALSE]
    [] command = "set_autocenter_spring" -> [r EXCEPT !.autocenter_spring = value]
    [] command = "set_custom_spring"     -> [r EXCEPT !.spring = value]
    [] command = "set_damper"            -> [r EXCEPT !.damper = value]
    [] command = "set_constant_force"    -> [r EXCEPT !.constant = value]
    [] command = "set_led_pattern"       -> r

(* A command whose result the caller ignores.                              *)
Send(r, rej, command, value) == IF command \in rej THEN r ELSE Accept(r, command, value)

(* `ok = ok && command(...)`, on s = [r |-> registers, ok |-> so far]; once *)
(* a command is refused the ones that follow are not sent.                 *)
Try(s, rej, command, value) ==
  IF s.ok /\ command \notin rej
    THEN [r |-> Accept(s.r, command, value), ok |-> TRUE]
    ELSE [s EXCEPT !.ok = FALSE]

(* The same under a condition: `if (ok && wanted) ok = command(...)`.      *)
TryIf(wanted, s, rej, command, value) == IF wanted THEN Try(s, rej, command, value) ELSE s

Begin(r) == [r |-> r, ok |-> TRUE]

-----------------------------------------------------------------------------
(* Mutants: the destructor, or the stop, skips a command.                  *)
DestroyedStillPushing(r, rej) == Send(r, rej, "disable_autocenter", Off)
ForcesStoppedAutocenterOn(r, rej) ==
  Send(Send(Send(r, rej, "stop_forces", Off), rej, "set_custom_spring", Off), rej, "set_damper", Off)
ForcesStoppedStillPushing(r, rej) ==
  Send(Send(Send(r, rej, "disable_autocenter", Off), rej, "set_custom_spring", Off), rej, "set_damper", Off)

(* ~WheelController: results ignored, then the handle is closed.           *)
Destroyed(r, rej) ==
  Send(Send(r, rej, "stop_forces", Off), rej, "disable_autocenter", Off)

DestroyCommands == {"stop_forces", "disable_autocenter"}

(* The body of BridgeServer::stop_wheel_forces_locked for one wheel.       *)
ForcesStopped(r, rej) ==
  LET stopped == Send(r, rej, "stop_forces", Off)
      slack   == Send(stopped, rej, "disable_autocenter", Off)
      unsprung == Send(slack, rej, "set_custom_spring", Off)
  IN  Send(unsprung, rej, "set_damper", Off)

StopCommands == {"stop_forces", "disable_autocenter", "set_custom_spring", "set_damper"}

(* perform_calibration_sequence up to its first long wait: the LEDs must   *)
(* answer (the sweep that follows is best effort), the autocenter spring   *)
(* goes off and the test force on.                                         *)
CalibrationStart(r, rej) ==
  LET lit   == Try(Begin(r), rej, "set_led_pattern", Off)
      slack == Try(lit, rej, "disable_autocenter", Off)
  IN  Try(slack, rej, "set_constant_force", TestForce)

(* After the wait: the test force ends and the idle autocenter spring is   *)
(* set up.                                                                 *)
CalibrationEnd(r, rej) ==
  LET quiet  == Try(Begin(r), rej, "stop_forces", Off)
      sprung == Try(quiet, rej, "set_autocenter_spring", CalibrationSpring)
  IN  Try(sprung, rej, "enable_autocenter", Off)

(* No force effect runs on the wheel; its autocenter spring may.           *)
IsFree(r) == r.spring = Off /\ r.damper = Off /\ r.constant = Neutral
=============================================================================
