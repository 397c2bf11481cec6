----------------------------- MODULE WheelProofs -----------------------------
(***************************************************************************)
(* What the command sequences of WheelController leave on a wheel, whatever*)
(* it refuses: registers stay registers, and a wheel that accepts its      *)
(* reset commands runs no force effect afterwards.                         *)
(***************************************************************************)
EXTENDS Wheel, TLAPS

Values(command) == IF command = "set_constant_force" THEN Byte ELSE Params
Progress == [r : Registers, ok : BOOLEAN]

LEMMA AcceptType ==
  ASSUME NEW r \in Registers, NEW command \in Commands, NEW value \in Values(command)
  PROVE  Accept(r, command, value) \in Registers
<1>1. Off \in Params /\ Neutral \in Byte
  BY ParamsAssumption DEF Neutral, Byte
<1>2. CASE command = "set_constant_force"
  BY <1>2 DEF Accept, Registers, Values
<1>3. CASE command # "set_constant_force"
  <2>1. value \in Params
    BY <1>3 DEF Values
  <2> QED  BY <1>1, <1>3, <2>1 DEF Accept, Registers, Commands
<1> QED  BY <1>2, <1>3

LEMMA SendType ==
  ASSUME NEW r \in Registers, NEW rej, NEW command \in Commands, NEW value \in Values(command)
  PROVE  Send(r, rej, command, value) \in Registers
BY AcceptType DEF Send

LEMMA TryType ==
  ASSUME NEW s \in Progress, NEW rej, NEW command \in Commands, NEW value \in Values(command)
  PROVE  Try(s, rej, command, value) \in Progress
<1>1. s.r \in Registers
  BY DEF Progress
<1>2. Accept(s.r, command, value) \in Registers
  BY <1>1, AcceptType
<1> QED  BY <1>2 DEF Try, Progress

LEMMA TryIfType ==
  ASSUME NEW wanted \in BOOLEAN, NEW s \in Progress, NEW rej,
         NEW command \in Commands, NEW value \in Values(command)
  PROVE  TryIf(wanted, s, rej, command, value) \in Progress
BY TryType DEF TryIf

LEMMA BeginType == \A r \in Registers : Begin(r) \in Progress
BY DEF Begin, Progress

(* The values the fixed sequences send are of the right kind.              *)
LEMMA ValuesOK ==
  /\ \A command \in Commands \ {"set_constant_force"} : Values(command) = Params
  /\ Values("set_constant_force") = Byte
  /\ Off \in Params /\ CalibrationSpring \in Params /\ TestForce \in Byte
BY ParamsAssumption DEF Values, TestForce, Byte

LEMMA CommandsOK ==
  /\ \A command \in { "stop_forces", "enable_autocenter", "disable_autocenter", "set_autocenter_spring",
                      "set_custom_spring", "set_damper", "set_led_pattern" } :
       command \in Commands \ {"set_constant_force"}
  /\ "set_constant_force" \in Commands
BY DEF Commands

LEMMA DestroyedType ==
  ASSUME NEW r \in Registers, NEW rej PROVE Destroyed(r, rej) \in Registers
<1> DEFINE r1 == Send(r, rej, "stop_forces", Off)
<1>1. r1 \in Registers
  BY SendType, ValuesOK, CommandsOK
<1> HIDE DEF r1
<1>2. Send(r1, rej, "disable_autocenter", Off) \in Registers
  BY <1>1, SendType, ValuesOK, CommandsOK
<1> QED  BY <1>2 DEF Destroyed, r1

LEMMA ForcesStoppedType ==
  ASSUME NEW r \in Registers, NEW rej PROVE ForcesStopped(r, rej) \in Registers
<1> DEFINE r1 == Send(r, rej, "stop_forces", Off)
           r2 == Send(r1, rej, "disable_autocenter", Off)
           r3 == Send(r2, rej, "set_custom_spring", Off)
           r4 == Send(r3, rej, "set_damper", Off)
<1>1. r1 \in Registers
  BY SendType, ValuesOK, CommandsOK
<1> HIDE DEF r1
<1>2. r2 \in Registers
  BY <1>1, SendType, ValuesOK, CommandsOK
<1> HIDE DEF r2
<1>3. r3 \in Registers
  BY <1>2, SendType, ValuesOK, CommandsOK
<1> HIDE DEF r3
<1>4. r4 \in Registers
  BY <1>3, SendType, ValuesOK, CommandsOK
<1> QED  BY <1>4 DEF ForcesStopped, r1, r2, r3

LEMMA CalibrationStartType ==
  ASSUME NEW r \in Registers, NEW rej PROVE CalibrationStart(r, rej) \in Progress
<1> DEFINE s1 == Try(Begin(r), rej, "set_led_pattern", Off)
           s2 == Try(s1, rej, "disable_autocenter", Off)
           s3 == Try(s2, rej, "set_constant_force", TestForce)
<1>1. s1 \in Progress
  BY BeginType, TryType, ValuesOK, CommandsOK
<1> HIDE DEF s1
<1>2. s2 \in Progress
  BY <1>1, TryType, ValuesOK, CommandsOK
<1> HIDE DEF s2
<1>3. s3 \in Progress
  BY <1>2, TryType, ValuesOK, CommandsOK
<1> QED  BY <1>3 DEF CalibrationStart, s1, s2

LEMMA CalibrationEndType ==
  ASSUME NEW r \in Registers, NEW rej PROVE CalibrationEnd(r, rej) \in Progress
<1> DEFINE s1 == Try(Begin(r), rej, "stop_forces", Off)
           s2 == Try(s1, rej, "set_autocenter_spring", CalibrationSpring)
           s3 == Try(s2, rej, "enable_autocenter", Off)
<1>1. s1 \in Progress
  BY BeginType, TryType, ValuesOK, CommandsOK
<1> HIDE DEF s1
<1>2. s2 \in Progress
  BY <1>1, TryType, ValuesOK, CommandsOK
<1> HIDE DEF s2
<1>3. s3 \in Progress
  BY <1>2, TryType, ValuesOK, CommandsOK
<1> QED  BY <1>3 DEF CalibrationEnd, s1, s2

-----------------------------------------------------------------------------
(* A destroyed controller that was obeyed leaves no force behind.          *)
THEOREM DestroyedIsFree ==
  ASSUME NEW r \in Registers, NEW rej, rej \cap DestroyCommands = {}
  PROVE  IsFree(Destroyed(r, rej)) /\ ~Destroyed(r, rej).autocenter
<1>1. "stop_forces" \notin rej /\ "disable_autocenter" \notin rej
  BY DEF DestroyCommands
<1>2. Send(r, rej, "stop_forces", Off) = [r EXCEPT !.spring = Off, !.damper = Off, !.constant = Neutral]
  BY <1>1 DEF Send, Accept
<1>3. Destroyed(r, rej) = [[r EXCEPT !.spring = Off, !.damper = Off, !.constant = Neutral]
                             EXCEPT !.autocenter = FALSE]
  BY <1>1, <1>2 DEF Destroyed, Send, Accept
<1> QED  BY <1>3 DEF Registers, IsFree

(* So does a stop that was obeyed.                                         *)
THEOREM StoppedIsFree ==
  ASSUME NEW r \in Registers, NEW rej, rej \cap StopCommands = {}
  PROVE  IsFree(ForcesStopped(r, rej)) /\ ~ForcesStopped(r, rej).autocenter
<1>1. \A c \in StopCommands : c \notin rej
  OBVIOUS
<1> DEFINE r1 == [r EXCEPT !.spring = Off, !.damper = Off, !.constant = Neutral]
           r2 == [r1 EXCEPT !.autocenter = FALSE]
           r3 == [r2 EXCEPT !.spring = Off]
<1>2. Send(r, rej, "stop_forces", Off) = r1
  BY <1>1 DEF Send, Accept, StopCommands
<1>3. Send(r1, rej, "disable_autocenter", Off) = r2
  BY <1>1 DEF Send, Accept, StopCommands
<1>4. Send(r2, rej, "set_custom_spring", Off) = r3
  BY <1>1 DEF Send, Accept, StopCommands
<1>5. Send(r3, rej, "set_damper", Off) = [r3 EXCEPT !.damper = Off]
  BY <1>1 DEF Send, Accept, StopCommands
<1>6. ForcesStopped(r, rej) = [r3 EXCEPT !.damper = Off]
  BY <1>2, <1>3, <1>4, <1>5 DEF ForcesStopped
<1> QED  BY <1>6 DEF Registers, IsFree

(* A calibration that completed has ended its own test force.              *)
THEOREM CalibratedIsFree ==
  ASSUME NEW r \in Registers, NEW rej, CalibrationEnd(r, rej).ok
  PROVE  IsFree(CalibrationEnd(r, rej).r)
<1> DEFINE s1 == Try(Begin(r), rej, "stop_forces", Off)
           s2 == Try(s1, rej, "set_autocenter_spring", CalibrationSpring)
           s3 == Try(s2, rej, "enable_autocenter", Off)
<1>0. s1 \in Progress /\ s2 \in Progress
  BY BeginType, TryType, ValuesOK, CommandsOK
<1>1. s3.ok
  BY DEF CalibrationEnd
<1>2. s2.ok /\ s3.r = [s2.r EXCEPT !.autocenter = TRUE]
  <2> HIDE DEF s2
  <2> QED  BY <1>0, <1>1 DEF Try, Accept, Progress
<1>3. s1.ok /\ s2.r = [s1.r EXCEPT !.autocenter_spring = CalibrationSpring]
  <2> HIDE DEF s1
  <2> QED  BY <1>0, <1>2 DEF Try, Accept, Progress
<1>4. s1.r = [r EXCEPT !.spring = Off, !.damper = Off, !.constant = Neutral]
  BY <1>3 DEF Try, Accept, Begin
<1>5. IsFree(s1.r) /\ s1.r \in Registers
  BY <1>0, <1>4 DEF IsFree, Registers, Progress
<1>6. IsFree(s3.r)
  <2> HIDE DEF s1
  <2> QED  BY <1>2, <1>3, <1>5 DEF IsFree, Registers
<1> QED  BY <1>6 DEF CalibrationEnd
=============================================================================
