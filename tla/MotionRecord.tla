----------------------------- MODULE MotionRecord -----------------------------
(***************************************************************************)
(* Does the state of control.Service tell what the car was last told?      *)
(*                                                                         *)
(* Nothing holds the write of a datagram and the update of the state       *)
(* together, and the safety watchdog decides by the state.  Two history    *)
(* variables say who wrote the last datagram and who recorded the speeds   *)
(* last; no action of the service reads them.                              *)
(***************************************************************************)
EXTENDS ControlService

CONSTANTS
  Listener,  \* the telemetry listener, as a recorder
  Nobody

ASSUME RecorderAssumption ==
  /\ Listener \notin Callers
  /\ Nobody \notin Callers \cup {Listener}

VARIABLES
  writer,   \* the caller whose datagram is on the wire
  recorder  \* the caller that set the recorded speeds, or the listener

historyVars == <<writer, recorder>>
recordVars == <<serviceVars, historyVars>>

RecordInit ==
  /\ ServiceInit
  /\ writer = Nobody
  /\ recorder = Nobody

Begin(p) == (\E cmd \in Commands : Drive(p, cmd)) \/ Stop(p)

\* A step of Drive or Stop.
CallerStep(p) ==
  \/ (Begin(p) \/ WriteFails(p) \/ SetMotorError(p) \/ SetInvalidCommand(p))
       /\ UNCHANGED historyVars
  \/ Write(p) /\ writer' = p /\ UNCHANGED recorder
  \/ Commit(p) /\ recorder' = p /\ UNCHANGED writer

RecordPacket(report) ==
  /\ UpdateMotorTelemetry(report)
  /\ recorder' = Listener
  /\ UNCHANGED writer

\* Callers, packets, a monitor that sets the flag as it likes, and time.
RecordNext ==
  \/ \E p \in Callers : CallerStep(p)
  \/ \E r \in Reports : RecordPacket(r)
  \/ \E connected \in BOOLEAN : SetMotorConnected(connected) /\ UNCHANGED historyVars
  \/ ElapseService /\ UNCHANGED historyVars

RecordSpec == RecordInit /\ [][RecordNext]_recordVars

------------------------------------------------------------------------------
RecordTypeOK ==
  /\ ServiceTypeOK
  /\ writer \in Callers \cup {Nobody}
  /\ recorder \in Callers \cup {Listener, Nobody}

\* A datagram whose writer has not recorded it yet is the writer's command.
UnrecordedIsWriters ==
  \A p \in Callers :
    writer = p /\ call[p].step = "commit" => wire = call[p].drive

\* The recorded speeds are those on the wire whenever the goroutine that wrote
\* the last datagram is also the last that recorded speeds: only calls that
\* overlap, or telemetry, can make the watchdog decide on a wrong speed.
RecordFollowsWriter ==
  writer = recorder /\ (writer \in Callers => call[writer].step # "commit")
    => drive = wire
==============================================================================
