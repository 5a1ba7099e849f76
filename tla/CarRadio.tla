------------------------------- MODULE CarRadio -------------------------------
(***************************************************************************)
(* The backend and the car it drives: the two UDP directions between them, *)
(* and the ESP32.                                                          *)
(*                                                                         *)
(* A datagram that was written may be lost or overtaken, and a packet of   *)
(* telemetry may be lost or late: nothing in the code answers, repeats or  *)
(* orders either.  What is in flight is a set: two equal datagrams are one.*)
(* The ESP32 is not part of the repository: as the README has it, it       *)
(* applies each command it gets and keeps reporting the speeds of its      *)
(* motors.  Its own timeout is left out, so that what the backend achieves *)
(* without it shows.                                                       *)
(***************************************************************************)
EXTENDS CarServer

\* Telemetry may report whatever the motors may be told.
ASSUME RadioAssumption == Service!Sendable \subseteq Reports

VARIABLES
  motors,   \* the speeds the ESP32 runs its motors at
  uplink,   \* the commands in flight to it
  downlink  \* the report in flight from it, if any

radioVars == <<motors, uplink, downlink>>

RadioInit ==
  /\ ServerInit
  /\ motors = Halt
  /\ uplink = {}
  /\ downlink = {}

\* motor.Client's datagram leaves.
Transmit(p) ==
  /\ WriteDatagram(p)
  /\ uplink' = uplink \cup {call[p].drive}
  /\ UNCHANGED <<motors, downlink>>

\* The ESP32 applies a command.
Apply(cmd) ==
  /\ cmd \in uplink
  /\ motors' = cmd
  /\ uplink' = uplink \ {cmd}
  /\ UNCHANGED <<vars, downlink>>

\* The ESP32 reports, no sooner than its last report has arrived or is lost: its
\* firmware is assumed to wait for longer between two reports than one is on the way.
Report ==
  /\ downlink = {}
  /\ downlink' = {motors}
  /\ UNCHANGED <<vars, motors, uplink>>

\* The listener gets a report, by when the motors may run differently.
ReceiveReport(report) ==
  /\ report \in downlink
  /\ ReceiveTelemetry(report)
  /\ downlink' = downlink \ {report}
  /\ UNCHANGED <<motors, uplink>>

\* The network drops a command or a report.
Lose ==
  /\ \/ \E cmd \in uplink : uplink' = uplink \ {cmd} /\ UNCHANGED downlink
     \/ \E report \in downlink : downlink' = downlink \ {report} /\ UNCHANGED uplink
  /\ UNCHANGED <<vars, motors>>

\* The steps of the backend that send and receive nothing.
Inside ==
  /\ \/ \E k \in Conns : Handler(k)
     \/ Check
     \/ \E p \in Callers : WriteError(p) \/ Finish(p)
     \/ Elapse
  /\ UNCHANGED radioVars

RadioNext ==
  \/ \E p \in Callers : Transmit(p)
  \/ \E cmd \in uplink : Apply(cmd)
  \/ Report
  \/ \E report \in downlink : ReceiveReport(report)
  \/ Lose
  \/ Inside

\* The backend is fair as in CarServer, the ESP32 keeps reporting, and the network is
\* fair-lossy: a stop that is sent again and again arrives, and so does a report.
RadioSpec ==
  /\ RadioInit
  /\ [][RadioNext]_<<vars, radioVars>>
  /\ WF_<<vars, radioVars>>(Elapse /\ UNCHANGED radioVars)
  /\ WF_<<vars, radioVars>>(Check /\ UNCHANGED radioVars)
  /\ \A p \in Conns \cup {Watchdog} :
       WF_<<vars, radioVars>>(Transmit(p) \/ ((WriteError(p) \/ Finish(p)) /\ UNCHANGED radioVars))
  /\ WF_<<vars, radioVars>>(Report)
  /\ SF_<<vars, radioVars>>(Apply(Halt))
  /\ \A report \in Reports : SF_<<vars, radioVars>>(ReceiveReport(report))

------------------------------------------------------------------------------
\* The motors run at a speed that was asked for and is in range, and nothing else is
\* on its way to them or from them.
RadioTypeOK ==
  /\ ServerTypeOK
  /\ motors \in Service!Sendable
  /\ uplink \subseteq Service!Sendable
  /\ downlink \subseteq Service!Sendable

\* When all clients fall silent the car comes to a stand and stays there, though
\* the watchdog sends one stop and takes the record for the truth: a stop that
\* is lost, overtaken by an older drive or recorded out of order shows in the
\* telemetry, and the watchdog tries again.
SilenceStopsMotors == <>[](motors = Halt) \/ Disturbed
==============================================================================
