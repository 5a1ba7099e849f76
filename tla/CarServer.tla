------------------------------- MODULE CarServer -------------------------------
(***************************************************************************)
(* The backend that drives the car: the WebSocket handlers (one goroutine  *)
(* per connection), the safety watchdog and the main goroutine, over the   *)
(* access manager and the control service they share.                      *)
(*                                                                         *)
(* A handler asks the access manager and then calls the service; the       *)
(* answers of the access manager do not reach the service, so the decision *)
(* may be old when the datagram is written.  The telemetry listener comes  *)
(* in as the packets it accepts; its link monitor is MotorLink.            *)
(*                                                                         *)
(* Time: Elapse is one unit.  A call of the service is in flight for at    *)
(* most MaxStall units (the write deadline of motor.Client, and the        *)
(* scheduler), and a goroutine that is due runs within the unit.           *)
(***************************************************************************)
EXTENDS Integers, Sequences

CONSTANTS
  Addrs, Operators, ControlTimeout, NoClient,  \* see AccessManager
  Commands, Reports, Never,                    \* see ControlService
  Conns,           \* WebSocket connections
  ConnAddr,        \* the client address of each
  Watchdog, Main,  \* the two other goroutines that stop the motors
  CommandTimeout,  \* safety.command_timeout_ms, in time units
  MaxStall         \* bound: how long a call of the service is in flight

Callers == Conns \cup {Watchdog, Main}

\* NewWatchdog: half the timeout; a timeout below two units rounds to the least
\* period instead of to zero.
Period == IF CommandTimeout \div 2 <= 0 THEN 1 ELSE CommandTimeout \div 2

ASSUME ServerAssumption ==
  /\ Operators \in Seq([name : STRING, ips : SUBSET Addrs])
  /\ ControlTimeout \in Nat \ {0}
  /\ NoClient \notin [name : STRING, ip : Addrs]
  /\ Commands \subseteq Int \X Int
  /\ Reports \subseteq Int \X Int
  /\ Never \notin Nat
  /\ ConnAddr \in [Conns -> Addrs]
  /\ Watchdog \notin Conns \cup {Main}
  /\ Main \notin Conns
  /\ CommandTimeout \in Nat \ {0}
  /\ MaxStall \in 1 .. ControlTimeout

VARIABLES
  owner, lastCommand,          \* the access manager
  motorConnected, drive, lastCommandValid, commandAge, telemetryAge,
  call, wire,                  \* the control service and its callers
  open,        \* the connections whose handler is in its read loop
  tickerAge,   \* how long ago the watchdog's ticker fired, modulo its period
  tick,        \* the tick that waits in the ticker's channel
  stall,       \* how long each call has been in flight
  writeFailed, \* the last datagram was not written
  app          \* where App.Run stands

accessVars == <<owner, lastCommand>>
serviceVars ==
  <<motorConnected, drive, lastCommandValid, commandAge, telemetryAge, call, wire>>
serverVars == <<open, tickerAge, tick, stall, writeFailed, app>>
vars == <<accessVars, serviceVars, serverVars>>

\* Operators lists the addresses in their normal form here; Admission has the others.
AsListed(addr) == addr

Access == INSTANCE AccessManager WITH Normal <- AsListed
Service == INSTANCE ControlService
             WITH CommandHorizon <- CommandTimeout + 1, TelemetryHorizon <- 0

Halt == Service!Halt
Client(k) == Access!ResolveClient(ConnAddr[k])
Alive == app \notin {"stopped", "failed"}

------------------------------------------------------------------------------
(* A WebSocket handler.                                                    *)

\* The handler waits for the next message of its client.
Reading(k) == Alive /\ k \in open /\ ~Service!Busy(k)

\* ServeHTTP up to the read loop.  net/http accepts until Shutdown, and a connection it
\* has accepted by then may still be upgraded.
Connect(k) ==
  /\ Alive
  /\ k \notin open /\ ~Service!Busy(k)
  /\ open' = open \cup {k}
  /\ UNCHANGED <<accessVars, serviceVars, tickerAge, tick, stall, writeFailed, app>>

\* Seeded fault for the mutant runs: a drive is carried out for every client
\* the manager knows.
ReceiveControlUnasked(k, cmd) ==
  /\ Reading(k)
  /\ Client(k) # NoClient
  /\ UNCHANGED accessVars
  /\ Service!Drive(k, cmd)
  /\ UNCHANGED serverVars

\* handleControlMessage.
ReceiveControl(k, cmd) ==
  /\ Reading(k)
  /\ \/ Access!CanControlGranted(ConnAddr[k]) /\ Service!Drive(k, cmd)
     \/ Access!CanControlDenied(ConnAddr[k]) /\ UNCHANGED serviceVars
  /\ UNCHANGED serverVars

\* handleSystemMessage, "stop".
ReceiveStop(k) ==
  /\ Reading(k)
  /\ \/ Access!CanControlGranted(ConnAddr[k]) /\ Service!Stop(k)
     \/ Access!CanControlDenied(ConnAddr[k]) /\ UNCHANGED serviceVars
  /\ UNCHANGED serverVars

\* handleSystemMessage, "emergency_stop", from a client the manager knows; the
\* one from a stranger, and every message handleMessage finds invalid, is
\* answered from a copy of the state and changes nothing.
ReceiveEmergencyStop(k) ==
  /\ Reading(k)
  /\ Access!AllowEmergencyStop(ConnAddr[k])
  /\ Service!Stop(k)
  /\ UNCHANGED serverVars

\* Seeded fault: no stop is sent when the state says the car stands already.
DisconnectMoving(k) ==
  /\ Reading(k)
  /\ open' = open \ {k}
  /\ Access!IsOwner(ConnAddr[k])
  /\ IF Access!Owns(ConnAddr[k]) /\ drive # Halt THEN Service!Stop(k)
     ELSE UNCHANGED serviceVars
  /\ UNCHANGED <<tickerAge, tick, stall, writeFailed, app>>

\* ReadJSON fails: the connection is gone, or the message was not JSON.
Disconnect(k) ==
  /\ Reading(k)
  /\ open' = open \ {k}
  /\ Access!IsOwner(ConnAddr[k])
  /\ IF Access!Owns(ConnAddr[k]) THEN Service!Stop(k) ELSE UNCHANGED serviceVars
  /\ UNCHANGED <<tickerAge, tick, stall, writeFailed, app>>

------------------------------------------------------------------------------
(* The watchdog.                                                           *)

\* Seeded fault: the watchdog looks at one track only.
StaleLeft ==
  /\ commandAge # Never
  /\ drive[1] # 0
  /\ commandAge > CommandTimeout

\* Seeded fault: a stop that failed is not tried again.
StaleUnlessFailed ==
  /\ commandAge # Never
  /\ drive # Halt
  /\ commandAge > CommandTimeout
  /\ lastCommandValid

\* check decides to stop the motors, by the state it has copied.
Stale ==
  /\ commandAge # Never
  /\ drive # Halt
  /\ commandAge > CommandTimeout

\* Run takes the tick and calls check, which copies the state and then calls
\* Stop; after cancel, the select may still take a tick that is there.
Check ==
  /\ Alive
  /\ tick /\ ~Service!Busy(Watchdog)
  /\ tick' = FALSE
  /\ IF Stale THEN Service!Stop(Watchdog) ELSE UNCHANGED serviceVars
  /\ UNCHANGED <<accessVars, open, tickerAge, stall, writeFailed, app>>

------------------------------------------------------------------------------
(* The steps of the service's callers, telemetry, and time.                *)

WriteDatagram(p) ==
  /\ Alive
  /\ Service!Write(p)
  /\ writeFailed' = FALSE
  /\ UNCHANGED <<accessVars, open, tickerAge, tick, stall, app>>

WriteError(p) ==
  /\ Alive
  /\ Service!WriteFails(p)
  /\ writeFailed' = TRUE
  /\ UNCHANGED <<accessVars, open, tickerAge, tick, stall, app>>

Finish(p) ==
  /\ Alive
  /\ Service!Return(p)
  /\ stall' = [stall EXCEPT ![p] = 0]
  /\ UNCHANGED <<accessVars, open, tickerAge, tick, writeFailed, app>>

\* The listener's handlePacket; cancel closes the socket, but a packet that has
\* been read is still handled.
ReceiveTelemetry(report) ==
  /\ Alive
  /\ Service!UpdateMotorTelemetry(report)
  /\ UNCHANGED <<accessVars, serverVars>>

\* One time unit passes.  The ticker's channel holds one tick.
Elapse ==
  /\ Alive
  /\ app = "running" /\ tick => Service!Busy(Watchdog)
  /\ \A p \in Callers : Service!Busy(p) => stall[p] < MaxStall
  /\ Access!ElapseLease
  /\ Service!ElapseService
  /\ tickerAge' = (tickerAge + 1) % Period
  /\ tick' = (tick \/ tickerAge' = 0)
  /\ stall' = [p \in Callers |-> IF Service!Busy(p) THEN stall[p] + 1 ELSE 0]
  /\ UNCHANGED <<open, writeFailed, app>>

------------------------------------------------------------------------------
(* App.Run.                                                                *)

\* SIGINT or SIGTERM: cancel, then Stop.
Signal ==
  /\ app = "running"
  /\ app' = "stopping"
  /\ Service!Stop(Main)
  /\ UNCHANGED <<accessVars, open, tickerAge, tick, stall, writeFailed>>

\* httpServer.Shutdown: it neither closes the WebSockets nor waits for them, for
\* net/http has handed them over to the handlers.
Shutdown ==
  /\ app = "stopping" /\ ~Service!Busy(Main)
  /\ app' = "draining"
  /\ UNCHANGED <<accessVars, serviceVars, open, tickerAge, tick, stall, writeFailed>>

\* Run returns, main returns, and every goroutine is gone.
Exit ==
  /\ app = "draining"
  /\ app' = "stopped"
  /\ UNCHANGED <<accessVars, serviceVars, open, tickerAge, tick, stall, writeFailed>>

\* The HTTP server or the telemetry listener reports an error: Run returns it.
Fail ==
  /\ app = "running"
  /\ app' = "failed"
  /\ UNCHANGED <<accessVars, serviceVars, open, tickerAge, tick, stall, writeFailed>>

------------------------------------------------------------------------------
ServerInit ==
  /\ Access!AccessInit
  /\ Service!ServiceInit
  /\ open = {}
  /\ tickerAge = 0
  /\ tick = FALSE
  /\ stall = [p \in Callers |-> 0]
  /\ writeFailed = FALSE
  /\ app = "running"

\* A message a client sends that may reach the motors.
Message(k) ==
  \/ \E cmd \in Commands : ReceiveControl(k, cmd)
  \/ ReceiveStop(k)
  \/ ReceiveEmergencyStop(k)

Handler(k) == Connect(k) \/ Message(k) \/ Disconnect(k)

Lifecycle == Signal \/ Shutdown \/ Exit \/ Fail

\* The backend while it runs.
RunningNext ==
  \/ \E k \in Conns : Handler(k)
  \/ Check
  \/ \E p \in Callers : WriteDatagram(p) \/ WriteError(p) \/ Finish(p)
  \/ \E r \in Reports : ReceiveTelemetry(r)
  \/ Elapse

ServerNext == RunningNext \/ Lifecycle

ServerSpec == ServerInit /\ [][ServerNext]_vars

\* Time passes, the watchdog takes its ticks, and a call that has begun ends.
ServerFairness ==
  /\ WF_vars(Elapse)
  /\ WF_vars(Check)
  /\ \A p \in Callers : WF_vars(WriteDatagram(p) \/ WriteError(p) \/ Finish(p))

\* A backend that nobody stops and that does not fail.
FairServerSpec == ServerInit /\ [][RunningNext]_vars /\ ServerFairness

------------------------------------------------------------------------------
ServerTypeOK ==
  /\ Access!AccessTypeOK
  /\ Service!ServiceTypeOK
  /\ open \subseteq Conns
  /\ tickerAge \in 0 .. Period - 1
  /\ tick \in BOOLEAN
  /\ stall \in [Callers -> 0 .. MaxStall]
  /\ writeFailed \in BOOLEAN
  /\ app \in {"running", "stopping", "draining", "stopped", "failed"}

\* A drive of this connection has been granted and is not yet over.
Driving(k) == call[k].step \in {"write", "commit"} /\ call[k].drive # Halt

\* While a granted drive is on its way its client owns control: the datagram
\* never outlives the permission it was sent under.
GrantedDriverOwns ==
  \A k \in Conns : Driving(k) =>
    /\ Client(k) # NoClient
    /\ owner = Client(k)
    /\ lastCommand \in 0 .. stall[k]

\* The commands of two clients are never in flight together: the lease is out
\* of step with the datagrams by less than it is long, so nobody is let in
\* while a granted command is still on its way.
OneDriverInFlight ==
  \A j, k \in Conns : Driving(j) /\ Driving(k) => Client(j) = Client(k)

\* When the client that holds control has left, all its connections closed and
\* every call over, the car has been told to stand, or the write failed.  Two
\* tabs of one client, stops by others and commands on their way included, and
\* at every stage of a shutdown.
DepartedOwnerParked ==
  /\ owner # NoClient /\ ~Access!Expired
  /\ \A k \in open : Client(k) # owner
  /\ \A p \in Callers : ~Service!Busy(p)
  => wire = Halt \/ writeFailed

\* Somebody keeps the motors busy: clients send, or the network fails.
Disturbed ==
  \/ []<><<\E k \in Conns : Message(k)>>_vars
  \/ []<><<\E p \in Callers : WriteError(p)>>_vars

\* When all clients fall silent, the recorded motion ends: unless the car goes on
\* reporting that it moves, or no command was ever recorded, for then the watchdog looks
\* away from whatever the telemetry says.
SilenceStopsRecord ==
  \/ []<>(drive = Halt)
  \/ []<><<\E r \in Reports \ {Halt} : ReceiveTelemetry(r)>>_vars
  \/ [](commandAge = Never)
  \/ Disturbed

\* When all clients fall silent, the car is told to stand.
SilenceStopsCar == []<>(wire = Halt) \/ Disturbed

\* The backend does not exit on a signal with the car told to move.
SignalParksCar == app = "stopped" => wire = Halt \/ writeFailed
==============================================================================
