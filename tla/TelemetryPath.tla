----------------------------- MODULE TelemetryPath -----------------------------
(***************************************************************************)
(* Telemetry from the car to the backend, by way of the relay, when either *)
(* process ends and is started again: both compose files say               *)
(* "restart: always".  A container that an operator stops is not started   *)
(* again; of the two only the relay is stopped that way here.              *)
(***************************************************************************)
EXTENDS Lifecycle, TelemetryRelay

vars == <<processVars, relayVars>>

Init == ProcessInit /\ RelayInit

Backend(A) == A /\ UNCHANGED relayVars
Relay(A) == A /\ UNCHANGED processVars

\* Docker starts the backend's container again.
RestartBackend ==
  /\ ~Alive
  /\ main' = "starting" /\ canceled' = FALSE /\ stopCh' = FALSE /\ errCh' = <<>>
  /\ http' = "serving" /\ listener' = "binding" /\ loop' = "none" /\ loopErrCh' = <<>>
  /\ watching' = {}

\* Docker starts the relay's container again.
RestartRelay ==
  /\ RelayEnded /\ ~signalled
  /\ relay' = "starting" /\ expired' = FALSE /\ queue' = <<>>
  /\ refused' = FALSE /\ signalled' = FALSE

RelayStep == StartRelay \/ Arm \/ Receive \/ TimeOut \/ Forward(SocketOpen) \/ ForwardFails

Next ==
  \/ Backend(ProcessStep)
  \/ Backend(ProcessFault)
  \/ Backend(RestartBackend)
  \/ Relay(RelayStep)
  \/ Relay(SignalRelay)
  \/ \E source \in Sources : Relay(Arrive(source))
  \/ Relay(RestartRelay)
  \/ Relay(Expire)
  \/ Relay(RelayFails)

\* Goroutines go on, Docker restarts, a read on a quiet socket reaches its deadline.
Spec ==
  /\ Init /\ [][Next]_vars
  /\ WF_vars(Backend(ProcessStep)) /\ WF_vars(Backend(RestartBackend))
  /\ WF_vars(Relay(RelayStep)) /\ WF_vars(Relay(RestartRelay))
  /\ WF_vars(Relay(Expire) /\ relay = "reading" /\ queue = <<>>)

------------------------------------------------------------------------------
\* A relay that is told to stop does, unless packets keep coming.
RelayStops ==
  \/ signalled ~> RelayEnded
  \/ \E source \in Sources : []<><<Relay(Arrive(source))>>_vars

\* However often the backend and the relay have ended before: while the car sends, and
\* unless the backend's process ends or the relay's sockets fail again and again,
\* telemetry goes on reaching the backend's socket.  Neither can run on deaf: a listener that fails takes the process with it,
\* and a relay that has met a refusal ends, and both are started again.
TelemetryResumes ==
  \/ []<><<Relay(Forward(SocketOpen)) /\ SocketOpen>>_vars
  \/ []<>~Alive
  \/ []<><<Relay(RelayFails)>>_vars
  \/ <>signalled
  \/ <>[][~Relay(Arrive("car"))]_vars
==============================================================================
