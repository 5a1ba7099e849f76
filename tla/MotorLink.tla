------------------------------- MODULE MotorLink -------------------------------
(***************************************************************************)
(* telemetry.Listener over the control service: the packets that confirm   *)
(* the link to the ESP32, and the monitor that declares it lost.           *)
(*                                                                         *)
(* The monitor (connectionWatchdog) copies the state, decides, and only    *)
(* then sets the flag; packets and commands come in between.  Commands set *)
(* the same flag: a datagram that was written counts as a connection.      *)
(* A goroutine that is due runs within the time unit.                      *)
(*                                                                         *)
(* Commands and packets are the steps of MotionRecord, by its names, and   *)
(* what is proved of that module is carried over to this one.              *)
(***************************************************************************)
EXTENDS MotionRecord

CONSTANT MotorTimeout  \* telemetry.motor_timeout_ms, in time units

\* The period of the monitor's ticker.
LinkPeriod == MotorTimeout \div 2

ASSUME LinkAssumption ==
  /\ MotorTimeout \in Nat \ {0, 1}
  /\ TelemetryHorizon > MotorTimeout + LinkPeriod
  /\ CommandHorizon > LinkPeriod

VARIABLES
  linkTickerAge,  \* how long ago the monitor's ticker fired, modulo its period
  linkTick,       \* the tick that waits in the ticker's channel
  monitor         \* "waiting" for a tick, or "lost": about to clear the flag

linkVars == <<linkTickerAge, linkTick, monitor>>

LinkInit ==
  /\ RecordInit
  /\ linkTickerAge = 0
  /\ linkTick = FALSE
  /\ monitor = "waiting"

\* handlePacket with a well-formed telemetry message; any other is dropped.
HandlePacket(report) ==
  /\ RecordPacket(report)
  /\ UNCHANGED linkVars

\* Seeded fault for the mutant runs: a link that was never up is not looked at.
SilentOnceHeard == telemetryAge # Never /\ telemetryAge > MotorTimeout

\* No packet yet, or none for longer than the timeout.
Silent == telemetryAge = Never \/ telemetryAge > MotorTimeout

\* connectionWatchdog takes a tick and copies the state ...
TakeTick ==
  /\ linkTick /\ monitor = "waiting"
  /\ linkTick' = FALSE
  /\ monitor' = IF Silent THEN "lost" ELSE "waiting"
  /\ UNCHANGED <<recordVars, linkTickerAge>>

\* ... and then clears the flag, whatever has arrived since.
DeclareLost ==
  /\ monitor = "lost"
  /\ SetMotorConnected(FALSE)
  /\ monitor' = "waiting"
  /\ UNCHANGED <<historyVars, linkTickerAge, linkTick>>

\* A command of a handler or of the watchdog.
Command(p) ==
  /\ CallerStep(p)
  /\ UNCHANGED linkVars

Elapse ==
  /\ ~linkTick /\ monitor = "waiting"
  /\ ElapseService
  /\ linkTickerAge' = (linkTickerAge + 1) % LinkPeriod
  /\ linkTick' = (linkTickerAge' = 0)
  /\ UNCHANGED <<historyVars, monitor>>

LinkNext ==
  \/ \E r \in Reports : HandlePacket(r)
  \/ TakeTick
  \/ DeclareLost
  \/ \E p \in Callers : Command(p)
  \/ Elapse

LinkSpec == LinkInit /\ [][LinkNext]_<<recordVars, linkVars>>

------------------------------------------------------------------------------
LinkTypeOK ==
  /\ RecordTypeOK
  /\ linkTickerAge \in 0 .. LinkPeriod - 1
  /\ linkTick \in BOOLEAN
  /\ monitor \in {"waiting", "lost"}

Within(age, limit) == age # Never /\ age <= limit

\* A motor shown as connected has been confirmed lately: by telemetry within
\* the timeout and a period of the monitor, or by a written command within a
\* period.  The monitor's stale copy never lets an old confirmation live on.
ConnectedWasConfirmed ==
  motorConnected => \/ Within(telemetryAge, MotorTimeout + LinkPeriod)
                    \/ Within(commandAge, LinkPeriod)

\* A motor is shown as connected only while telemetry arrives.
ConnectedByTelemetry ==
  motorConnected => Within(telemetryAge, MotorTimeout + LinkPeriod)
==============================================================================
