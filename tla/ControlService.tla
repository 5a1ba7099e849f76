---------------------------- MODULE ControlService ----------------------------
(***************************************************************************)
(* control.Service: the state of the car as the backend sees it, and the   *)
(* commands that change it.                                                *)
(*                                                                         *)
(* Drive and Stop are three steps: the check of the command, the write of  *)
(* the UDP datagram (motor.Client.Send) WITHOUT the service's mutex, and   *)
(* the update of the state under the mutex.  Other goroutines run between  *)
(* the steps.  The other methods take the mutex for all they do and are    *)
(* one action each.                                                        *)
(*                                                                         *)
(* wire is the payload of the last datagram that left the backend; the     *)
(* kernel serialises the writes on the one socket.  Battery, signal,       *)
(* uptime, heap and failsafe are copied from telemetry to the state and    *)
(* read by nobody but the display, so they are left out, and LastError     *)
(* goes with lastCommandValid.  cameraConnected belongs to Broadcaster.    *)
(*                                                                         *)
(* Times are ages, as in AccessManager: every reader computes time.Since.  *)
(***************************************************************************)
EXTENDS Integers

CONSTANTS
  Callers,           \* the goroutines that call Drive and Stop
  Commands,          \* the speeds <<left, right>> a client may ask for
  Reports,           \* the speeds <<left, right>> telemetry may report
  CommandHorizon,    \* commandAge is counted up to here
  TelemetryHorizon,  \* telemetryAge is counted up to here
  Never              \* the zero time.Time

MaxSpeed == 100
Speed == -MaxSpeed .. MaxSpeed
Halt == <<0, 0>>

ASSUME ServiceAssumption ==
  /\ Commands \subseteq Int \X Int
  /\ Reports \subseteq Int \X Int
  /\ CommandHorizon \in Nat
  /\ TelemetryHorizon \in Nat
  /\ Never \notin Nat

VARIABLES
  motorConnected,    \* State.MotorConnected
  drive,             \* State.Left and State.Right
  lastCommandValid,  \* State.LastCommandValid, and LastError = ""
  commandAge,        \* the age of State.LastCommandAt, or Never
  telemetryAge,      \* the age of State.LastTelemetryAt, or Never
  call,              \* where each caller stands in Drive or Stop
  wire               \* the drive payload of the last datagram written

serviceVars ==
  <<motorConnected, drive, lastCommandValid, commandAge, telemetryAge, call, wire>>

------------------------------------------------------------------------------
Idle == [step |-> "idle", drive |-> Halt]

\* Seeded fault for the mutant runs: only the left speed is checked.
ValidLeftOnly(cmd) == cmd[1] \in Speed

\* validateDriveCommand.
Valid(cmd) == cmd[1] \in Speed /\ cmd[2] \in Speed

Busy(p) == call[p].step # "idle"

\* Drive: an out-of-range command goes to setInvalidCommand, any other to Send.
Drive(p, cmd) ==
  /\ ~Busy(p)
  /\ call' = [call EXCEPT ![p] =
       IF Valid(cmd) THEN [step |-> "write", drive |-> cmd]
       ELSE [step |-> "reject", drive |-> Halt]]
  /\ UNCHANGED <<motorConnected, drive, lastCommandValid, commandAge, telemetryAge, wire>>

\* Stop: motor.Client.Stop is Send(0, 0).
Stop(p) ==
  /\ ~Busy(p)
  /\ call' = [call EXCEPT ![p] = [step |-> "write", drive |-> Halt]]
  /\ UNCHANGED <<motorConnected, drive, lastCommandValid, commandAge, telemetryAge, wire>>

\* motor.Client.sendMessage writes the datagram ...
Write(p) ==
  /\ call[p].step = "write"
  /\ wire' = call[p].drive
  /\ call' = [call EXCEPT ![p].step = "commit"]
  /\ UNCHANGED <<motorConnected, drive, lastCommandValid, commandAge, telemetryAge>>

\* Seeded fault: the error of the client is not looked at.
WriteFailsQuietly(p) ==
  /\ call[p].step = "write"
  /\ call' = [call EXCEPT ![p].step = "commit"]
  /\ UNCHANGED <<motorConnected, drive, lastCommandValid, commandAge, telemetryAge, wire>>

\* ... or fails: the write deadline, a socket error, a closed socket.
WriteFails(p) ==
  /\ call[p].step = "write"
  /\ call' = [call EXCEPT ![p] = [step |-> "fail", drive |-> Halt]]
  /\ UNCHANGED <<motorConnected, drive, lastCommandValid, commandAge, telemetryAge, wire>>

\* The end of Drive and Stop: the command that was written is recorded.
Commit(p) ==
  /\ call[p].step = "commit"
  /\ motorConnected' = TRUE
  /\ drive' = call[p].drive
  /\ lastCommandValid' = TRUE
  /\ commandAge' = 0
  /\ call' = [call EXCEPT ![p] = Idle]
  /\ UNCHANGED <<telemetryAge, wire>>

\* Seeded fault: a call that fails records that the car stands.
SetMotorErrorHalts(p) ==
  /\ call[p].step = "fail"
  /\ motorConnected' = FALSE
  /\ drive' = Halt
  /\ lastCommandValid' = FALSE
  /\ call' = [call EXCEPT ![p] = Idle]
  /\ UNCHANGED <<commandAge, telemetryAge, wire>>

\* setMotorError: the recorded speeds and the time of the command stay.
SetMotorError(p) ==
  /\ call[p].step = "fail"
  /\ motorConnected' = FALSE
  /\ lastCommandValid' = FALSE
  /\ call' = [call EXCEPT ![p] = Idle]
  /\ UNCHANGED <<drive, commandAge, telemetryAge, wire>>

SetInvalidCommand(p) ==
  /\ call[p].step = "reject"
  /\ lastCommandValid' = FALSE
  /\ call' = [call EXCEPT ![p] = Idle]
  /\ UNCHANGED <<motorConnected, drive, commandAge, telemetryAge, wire>>

\* The last step of Drive or Stop, after which the caller has its answer.
Return(p) == Commit(p) \/ SetMotorError(p) \/ SetInvalidCommand(p)

\* The reported speeds overwrite the recorded ones, unchecked; a packet without
\* a motor payload reports Halt.
UpdateMotorTelemetry(report) ==
  /\ motorConnected' = TRUE
  /\ drive' = report
  /\ telemetryAge' = 0
  /\ UNCHANGED <<lastCommandValid, commandAge, call, wire>>

SetMotorConnected(connected) ==
  /\ motorConnected' = connected
  /\ UNCHANGED <<drive, lastCommandValid, commandAge, telemetryAge, call, wire>>

\* The age one time unit later; it stops growing at the horizon.
Older(age, horizon) ==
  IF age = Never THEN Never ELSE IF age < horizon THEN age + 1 ELSE horizon

\* One time unit passes.
ElapseService ==
  /\ commandAge' = Older(commandAge, CommandHorizon)
  /\ telemetryAge' = Older(telemetryAge, TelemetryHorizon)
  /\ UNCHANGED <<motorConnected, drive, lastCommandValid, call, wire>>

------------------------------------------------------------------------------
(* What the service does with motor.Client.                                *)

\* The commands that may leave the backend: those that are in range, and the stop.
Sendable == (Commands \cap (Speed \X Speed)) \cup {Halt}

\* A call that has written is the port's until it has recorded what it wrote; a
\* command that is rejected never reaches the port.
portOfCall ==
  [p \in Callers |->
     CASE call[p].step = "write" -> [step |-> "sending", drive |-> call[p].drive]
       [] call[p].step = "commit" -> [step |-> "sent"]
       [] call[p].step = "fail" -> [step |-> "failed"]
       [] OTHER -> [step |-> "idle"]]

Port == INSTANCE MotorPort WITH port <- portOfCall, Commands <- Sendable

\* Whoever calls Drive and Stop, however their calls overlap: each sends its command
\* once, records it only when it was written, and nothing out of range is sent.
SendsThroughPort == Port!PortSpec

------------------------------------------------------------------------------
\* NewService; no datagram has been written, and the car stands.
ServiceInit ==
  /\ motorConnected = FALSE
  /\ drive = Halt
  /\ lastCommandValid = TRUE
  /\ commandAge = Never
  /\ telemetryAge = Never
  /\ call = [p \in Callers |-> Idle]
  /\ wire = Halt

\* Every speed that is sent, or is about to be, is in range.
ServiceTypeOK ==
  /\ motorConnected \in BOOLEAN
  /\ drive \in (Speed \X Speed) \cup Reports
  /\ lastCommandValid \in BOOLEAN
  /\ commandAge \in 0 .. CommandHorizon \cup {Never}
  /\ telemetryAge \in 0 .. TelemetryHorizon \cup {Never}
  /\ call \in [Callers -> [step : {"idle", "write", "commit", "fail", "reject"},
                           drive : Speed \X Speed]]
  /\ wire \in Speed \X Speed
==============================================================================
