# Verification of the RC car server

TLA+ models of the program in `src/` (Go: WebSocket in, UDP out, telemetry back
through a relay, a camera relayed to browsers), the TLC runs that check them,
and TLAPS proofs. A module's header says which code it stands for;
`PROJECT.json` maps every definition to its lines.

## The system

| Component | State | Operations | Talks to |
|---|---|---|---|
| `web/app.js` | what is held, the active command, one WebSocket | press, release, repeat every 100 ms, blur, reconnect | the handler, by messages in order |
| `access.ClientIPResolver` | the trusted proxies | `Resolve` | called at each handshake |
| `access.Manager` | owner, time of its last command, table of operators | `CanControl`, `AllowEmergencyStop`, `IsOwner`, `StateFor`, `ReleaseIfOwner`; lazy expiry in each | called by the handlers under its own mutex; `StateFor` and `ReleaseIfOwner` have no caller |
| `ws.Handler` | one goroutine per WebSocket | drive, stop, emergency stop, disconnect | access manager, then control service |
| `control.Service` | speeds, time and validity of the last command, link flags, telemetry | `Drive`, `Stop`, `UpdateMotorTelemetry`, `SetMotorConnected`, `SetCameraConnected`, `State` | writes datagrams through `motor.Client`, **outside** its mutex |
| `motor.Client` | sequence number, one UDP socket with one write deadline | `Send`, `Stop`, `Close` | the ESP32, without an answer |
| `safety.Watchdog` | a ticker | `check`: copy the state, decide, stop | control service |
| `telemetry.Listener` | socket, a ticker | packets; `connectionWatchdog` | control service |
| `cmd/telemetry-relay` | two sockets, a read deadline | receive, forward, stop on a signal | the listener, in another process |
| `camera.Broadcaster` | newest frame, connection, viewers | reads the camera, wakes the viewers | control service (one flag) |
| `app.App`, `httpserver` | context, two channels of errors, requests being served | start, signal, error, shutdown | all |
| `camera.Monitor`, `camera.Proxy` | built by `app.New`, never run | | |

What is hard in it: the two steps of every command (datagram, then record)
that other goroutines interleave with; decisions taken on copied state (the
watchdog, the link monitor); permission asked from one component and used in
another; a lease that expires lazily and that third parties refresh; a deadline
shared by all writers; a network that loses and reorders; two processes that end
and are started again; a shutdown that leaves handlers running; sleeping viewers;
stops that are lost with their connection. Each is a row under `hazards` in
`PROJECT.json`, with the properties that watch it or the reason none does.

What makes each part correct: one client at a time drives (resolver, access
manager, handlers); a command is written once or fails, and numbers follow the
order of calls (motor client); the record that the watchdog trusts follows what
was sent (service); a car nobody commands is stopped (page, disconnect, watchdog,
shutdown); the link flag rests on something recent (listener); no error is stuck
and telemetry comes back after any failure (lifecycle, relay); no viewer sleeps
through a frame or its own end, and the camera flag settles on the truth
(broadcaster).

## Modules

Each line names a module, what it stands for, and what it is built from.

* `AccessManager` - the manager, one action per method, since each holds the mutex
  throughout. `ControlLease` is the abstract promise, an exclusive lease.
  `AccessLease` adds the history of grants and states the properties, the
  refinement among them. An address is listed as a text, in any form that
  `normalizeIP` reads.
* `ClientAddress` - operators for `ClientIPResolver`, the normal forms of prefixes
  and addresses, and next to them what a configured value means in plain bits.
* `Admission` - `AccessLease` asked for the addresses `ClientAddress` resolves: any
  accepted configuration of proxies, any peer, and a header of several lines, of which
  the handler reads the first. `AdmissionProofs`.
* `ControlService` - the service. `Drive`/`Stop`, `Write`/`WriteFails` and
  `Commit`/`SetMotorError`/`SetInvalidCommand` are the steps of a command. `wire`
  is what the last datagram said; `call[p]` is where goroutine `p` stands.
  `MotionRecord` adds who wrote and who recorded last.
* `MotorLink` - the telemetry listener and its monitor over the service, built from the
  steps of `MotionRecord`. `MotorLinkProofs` is about both.
* `MotorPort` - what the service relies on when it sends: a call writes its command
  once, or fails and writes nothing. The service is shown to use this port
  (`SendsThroughPort`), and `MotorClient` to be it (`ImplementsPort`): number, shared
  deadline, one writer at a time, refused datagrams, other errors, `Close`.
  `MotorClientProofs`.
* `CarServer` - handlers, watchdog and main over manager and service, by `INSTANCE`
  on shared variables. A handler that was granted control is a call of the
  service that has begun. `CarServerProofs`.
* `MotionWatch` - `CarServer` with a history of how long motion has been on record
  without a command and without a stop of the watchdog.
* `CarRadio` - `CarServer`, the network to the car and back, and a car.
  `FairServerSpec`, `FairWatchSpec` and `CarRadio` leave out the end of the process,
  which is in `ServerSpec`, its proofs, and `RemoteDrive`.
* `EmergencyStop` - `CarServer` with a history of emergency stops, of the drives that
  overlap them, and of what is written after the stop of a shutdown.
  `CarSystemProofs` is about this module, `CarRadio` and `MotionWatch`.
* `WebClient` - the page; `RemoteDrive` composes it with `CarServer` over
  connections that deliver in order, late, or a beginning. `RemoteDriveProofs`.
* `Broadcaster` - the camera reader, the viewers on the condition variable, and the
  helper goroutines that wake a viewer whose request has ended. `BroadcasterProofs`.
* `Lifecycle` - `App.Run`, the HTTP server, the listener's goroutines and the
  channels their errors go through. `TelemetryRelay` - the relay's loop.
  `TelemetryPath` - both processes, with restarts. `TelemetryPathProofs`.
* `MC*` give the constants their values. Operators commented *Seeded fault* are
  broken variants of the definition that follows them; no specification uses
  them, they show that a property can fail.

### Time

The code only ever compares `time.Since(t)` with a timeout, so a time is kept as
its age in units, or `Never` for the zero time. An age stops growing once it is
past everything it is compared with, which keeps the models finite without a
constraint. `Elapse` is one unit; it waits for goroutines that are due (a tick in
the ticker's channel) and for calls in flight for `MaxStall` units.

`MaxStall` bounds one call of the service. What the code gives for it is the write
deadline of 100 ms (`motor/client.go:81`), but the deadline belongs to the socket
and every other caller puts it off once: `MotorClient` shows, and its proof
confirms for any number of callers, that a blocked write lasts at most
*callers x 100 ms*, and a call may wait for its turn before that. `CarServer`
therefore assumes only `MaxStall <= ControlTimeout`, that a call ends within the
lease, of 30 s in `configs/config-example.yaml`; it is an assumption about the
platform, the number of clients and the configuration (any positive timeout is
accepted), not a fact of the code. Where a call may outlast the lease,
`OneDriverInFlight` and `GrantedDriverOwns` need not hold.

`RemoteDrive` and `TelemetryPath` have no time: in the first neither the watchdog
nor the end of a lease may help, in the second a deadline may pass at any moment.

### Abstractions

Invalid messages, commands from clients without control, and strangers'
emergency stops are answered from a copy of the state and leave shared state
alone. A reply is written and never read by anything modelled; that a client
which stops reading blocks its handler shows as a handler that does nothing more,
which no fairness rules out. Battery, signal, uptime and failsafe are display data.
A camera frame is its number. An address is the sequence of its bits, `V4Bits` or
`V6Bits` of them, constants for 32 and 128; a trusted prefix is the set of the
addresses it contains, and a text is what it parses to, or `None` if it parses to
nothing. Zones of IPv6 addresses are left out. The car is external: it applies what
it gets and reports its speeds; its own timeout is left out on purpose.
`CarServer` and `RemoteDrive` end at `wire`, what was sent; `CarRadio` goes on to
the motors.

## Runs

| Run | Shows | Bounds |
|---|---|---|
| `Admission` | whose request it is, by any route and in any listed form; the manager is an exclusive lease; a live owner is never displaced; a silent one yields | addresses of two and three bits with half of the longer ones mapped, so that every pair of written forms and every prefix length, too short ones included, occurs; no proxy or any one value; headers of up to two entries, in one line or two; three operators, one address claimed twice, one listed in its mapped form, one text that is no address; a timeout of three units, so that grant, refresh and expiry overlap in every order |
| `MotorLink` | the link flag rests on a recent packet or command; overlapping calls and telemetry are the only ways the record leaves the wire; each call of the service writes once or fails | two callers: every pair of calls overlaps in every way; reports that agree, disagree, and are out of range; timeout of four units, monitor every two |
| `MotorClient` | numbers follow the order of calls, a blocked write ends, every call returns, the client is the port | two goroutines, three calls, deadline of two units: a call is overtaken at each of its steps, and a third can put a deadline off after the first has ended |
| `Rivals` | a granted driver owns control until its datagram is recorded; one driver in flight; motion nobody commands meets one stop of the watchdog after another, by whatever it came on record and however many stops fail; a departed owner leaves a parked car; the recorded motion ends in silence | two operators; a lease of one unit, the shortest that one unit of stall allows, and a command timeout of four with a period of two: expiry and takeover happen within one call, and the watchdog's next tick comes while its stop is on its way; failing writes at every step; a car that reports motion or rest at any moment, whatever it was told |
| `RemoteDrive` | the page repeats only what is held; letting go stops the car, lost stops, old connections and a shutdown included | a button and a key, two connections of one page, one message under way on each: a drive of the old connection is read after a stop on the new one |
| `SilenceReported` | over a lossy network, telemetry makes the watchdog repeat its stop until the motors stand | one connection against the watchdog is enough to break the record; one report in flight |
| `TelemetryPath` | no error finds its channel full; a signal ends each process; telemetry resumes after any failures | one viewer (one request is enough to hold `Shutdown`), one packet waiting at the relay: every order of failures, signals and restarts, errors of the relay's sockets included, without limit |
| `Broadcaster` | no missed frame, no missed end, flag settles, leavers are released, shutdown disconnects | two viewers and three frames: one viewer can be a frame behind, or two, while the other waits |
| `SilenceUnreported` | *violated*: without telemetry the car may never be stopped | one operator's connection and the watchdog |
| `SignalExit` | *violated*: the process ends with the car told to move | one connection |
| `EmergencyStop` | *violated*: a drive is written after the answer to an emergency stop | two operators |
| `MotorLinkDocumented` | *violated*: a command alone shows the motor as connected | as `MotorLink` |

Deadlock is checked except in `Broadcaster`, `RemoteDrive`, `EmergencyStop` and
`SignalExit`, where the process may end and the model with it (in `Broadcaster` also the viewers and
frames of the bound run out).

### What the violated runs say

* `SilenceUnreported`: a drive sent just as the watchdog stops the car can be
  written after the stop and recorded before it. The record says 0/0, so the
  watchdog returns early on every later tick (`safety/watchdog.go:70`). README line
  714 promises a stop. Telemetry that reports the true speeds repairs it
  (`SilenceReported`); without it only the ESP32's own timeout does.
* `SignalExit`: the stop of `app.go:145` is sent first, the handlers live on
  through `Shutdown`, and a drive that is written after it, whether it was accepted
  before or after, can be the last datagram, against README line 715.
  That is the only way, failing writes aside: `SignalParksUnlessDriven` is proved.
* `EmergencyStop`: an emergency stop is an ordinary `Stop`. A drive another handler
  has begun is not cancelled and can be written after it, with the emergency stop
  already answered, against README line 274. A stop that no drive overlaps does hold:
  `LoneStopHolds` is proved.
* `MotorLinkDocumented`: `Drive` and `Stop` set `MotorConnected` after a UDP write;
  README line 464 ties it to telemetry. With a silent ESP32 and a held button the
  flag alternates between commands and monitor. What the flag does rest on, a packet
  or a command not too old, is `ConnectedWasConfirmed`.

Differences seen while modelling, for which there is no run:

* the error path of `app.go:136` sends no stop, though README line 715 promises one
  at the end of the backend (a hazard without a property);
* the README's line 713 (a disconnect sends a stop) holds for the client that owns
  control; for others the handler leaves the motors alone on purpose;
* of two inputs held at once, releasing either stops the car and ends the
  repetition, though README line 707 has drives repeated while a button is pressed;
* `access/client_ip.go:10` says that the value of the nearest proxy is used; of several
  header lines `Header.Get` (`ws/handler.go:40`) returns the first, so a proxy that adds
  a line of its own behind the client's is not heard, and the client's line decides.
  `NearestProxyDecides` therefore speaks of proxies that append to the line they
  got, or send one line only, as the Caddy that `deploy/Caddyfile.rc-car` sets up;
* the watchdog ignores whatever the telemetry says until a first command was recorded
  (`safety/watchdog.go:66`), so a backend that is restarted while the car moves does
  not stop it on its own (a hazard without a property);
* an IPv4-in-IPv6 prefix shorter than 96 bits is accepted and trusts nobody;
  `TrustAsConfigured` leaves those values out of its second half by name.

### Fairness

Time passes; goroutines that can go on do: weak fairness of the watchdog's check,
of writes, records, notifications, viewers and their helpers, of the steps of
`App.Run` and of the relay. In `MotorClient` a waiting writer is let in and a
writer whose deadline has passed fails (strong fairness of `Enter` and of
`Write`/`WriteFails`, since `package net` forgets no waiter, while room may come
and go); nothing makes room in the kernel. Docker starts a process that has ended
(`restart: always` in both compose files), and a read on a quiet socket reaches
its deadline. A write may fail for ever, clients may send for ever, the car may report
motion for ever, packets may keep the relay from ever looking at its context and its
sockets may fail again and again: the liveness properties name these as alternatives
instead of assuming them away. `SilentOwnerYields` assumes
the challenger keeps asking, which a held button does every 100 ms.
`SilenceStopsMotors` assumes of the firmware, which is not in this repository, that the
car keeps reporting, and of the network that it is fair-lossy: of the stops that are sent again
and again one arrives, and so does a report (strong fairness). Nothing is assumed
of the camera or of viewers, except that a request ends when its context does.

## Proofs

For every value of the constants, from the assumptions named in the modules:

* `AdmissionProofs`: `RecentGrantOwns`, `AtMostOneGranted`, `LiveOwnerKeepsControl`
  and the refinement of `ControlLease`, first for the manager alone and then
  behind any proxies. The inductive invariant says that a grant younger than the
  timeout still shows in the manager's own two variables, with a last command at
  least as recent; exclusion alone is not inductive, since the manager does not
  remember grants. `OwnerIsConfigured`: whoever owns control is an operator of the
  table, at an address that no later entry takes away; it rests on a lemma that of
  finitely many entries one is the last.
  `TrustAsConfigured` compares, bit by bit, the prefix that the resolver keeps (with
  its address unmapped, and shorter by the mapped block if it was written so) with
  what the configured value covers. `NearestProxyDecides` follows from it and from what
  appending does to the first line, and `SameClientByAnyRoute` from what unmapping does
  twice and from which entry the table keeps.
* `MotorLinkProofs`: `RecordFollowsWriter` and its type invariant, strengthened by
  this: an unrecorded datagram carries its writer's own command. `MotorLink` is built
  from the same steps, so it carries over.
  `SendsThroughPort`, for the service alone and behind the listener.
  `ConnectedWasConfirmed`, from an invariant that bounds the age of the confirmation
  by the time since the monitor last looked.
* `MotorClientProofs`: `NumbersFollowCalls`, the refinement of `MotorPort`, and
  `BlockedWriteEnds`. A call that puts the deadline off then waits until the writer
  is gone, so what has passed and what is left fit into one timeout for the writer
  and one for each that waits.
* `CarServerProofs`: `OneDriverInFlight`, `GrantedDriverOwns`, `DepartedOwnerParked`
  and the type invariant. That two drivers are never in flight is
  not inductive: the step that lets the second one in looks only at the manager's
  variables. `DriveInv` ties them to the calls: a drive on its way belongs to a
  client that still owns control, with a last command no older than the call; then
  nobody is admitted before the lease is over, and `ServerAssumption` ends the call
  first. `ParkInv` adds that while the wire says go, an open connection of the owner
  or a halt about to be written is there.
* `CarSystemProofs`: the backend over the network is still `CarServer`, so a departed
  owner leaves a parked car there too; what is sent, in flight, reported or run by the
  motors is in range (`RadioTypeOK`), given that the car can report whatever it may
  be told (`RadioAssumption`). `LoneStopHolds`: while an emergency stop that
  nothing overlaps is carried out, no drive is accepted and unwritten, so what it wrote
  stays the last word (`LoneInv`, over the proof that one driver at most is in flight).
  `SignalParksUnlessDriven`: once main's stop is written, only a failed write or a
  drive changes what the wire says (`SignalInv`). The handlers, the watchdog and main
  together send through the port. `OverdueMotionIsMet` is not inductive, since how long
  motion may have been unattended depends on what the watchdog is about: `WatchInv`
  bounds it by the age of the ticker before a tick, by the way to the next check while a
  tick waits, by that and the stall of the call while a stop is to be written, and by
  the stall alone once it was tried.
* `RemoteDriveProofs`: the backend behind the page implements `CarServer`, so what is
  proved there holds whatever the page sends; `ActiveOnlyWhileHeld`; `ReleaseStopsCar`,
  from five conjuncts (`StopInv`): no lease runs out; a connection not yet used is
  empty; once the page has let go, what is unread on its connection ends with a message
  that stops, and a drive in the handler has such a message behind it; and while the
  wire says go, a halt is about to be written or the owner has an open connection whose
  messages or whose end are still to come.
* `BroadcasterProofs`: `NoMissedFrame`, `NoMissedEnd`, `CameraFlagFollows`, the count of
  viewers. A viewer about to check or wait has a helper, or sees that it has left;
  what a notification is going to say is still true.
* `TelemetryPathProofs`: `NoSendBlocks`, since a channel holds no more than the
  goroutines that have sent into it.

Only model-checked is all liveness, which is out of the prover's reach, as is
`ENABLED`: `SilentOwnerYields`, `SendReturns`, `SilenceStopsRecord`,
`SilenceStopsMotors`, `SignalEnds`, `TelemetryResumes`, `RelayStops`,
`LeaversAreReleased`, `ShutdownDisconnects`. Every other property of a passing run
is a theorem. Those of the violated runs are false; the two about stops have the proved
counterparts named above, which are checked by no run of their own.

## Not modelled

* `camera.Monitor` and `camera.Proxy`: constructed and never run or routed.
* What the page displays, `GET /api/state`, static files, routing: they read a copy
  of the state and change nothing.
* The origin check of the handshake: a pure comparison before the upgrade.
* Reading the configuration file. What `Validate` guarantees appears as the
  assumptions on the constants, and its check of the proxies is in `ClientAddress`.
* The relay's start-up errors (a bad address, a port in use): with `restart: always`
  they only repeat.
* `motor.Client.EmergencyStop`: it differs from `Send` in its payload and has no
  caller.
* `tools/`: manual senders and listeners for the bench.
