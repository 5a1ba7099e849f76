---------------------------- MODULE CarServerProofs ----------------------------
(***************************************************************************)
(* For any number of connections, operators and commands.                  *)
(*                                                                         *)
(* Two clients never drive at once: the access manager and the control     *)
(* service share no state, so the invariant relates them.  While a drive   *)
(* is on its way its client still owns control, with a command no older    *)
(* than the call.                                                          *)
(*                                                                         *)
(* A client that leaves leaves the car standing: while the car moves there *)
(* is an open connection of the owner or a halt about to be written.       *)
(***************************************************************************)
EXTENDS CarServer, TLAPS

Calls == [step : {"idle", "write", "commit", "fail", "reject"},
          drive : Service!Speed \X Service!Speed]

DriveInv ==
  /\ call \in [Callers -> Calls]
  /\ stall \in [Callers -> 0 .. MaxStall]
  /\ GrantedDriverOwns

LEMMA HaltIsInRange == Halt \in Service!Speed \X Service!Speed
PROOF BY DEF Halt, Service!Halt, Service!Speed, Service!MaxSpeed

\* Of the service's steps only Drive begins a drive.
NoDriveBegins == \A k \in Conns : Driving(k)' => Driving(k)

LEMMA StopBeginsNoDrive ==
  ASSUME DriveInv, NEW p \in Callers, Service!Stop(p)
  PROVE  call' \in [Callers -> Calls] /\ NoDriveBegins
PROOF
<1>1. call' = [call EXCEPT ![p] = [step |-> "write", drive |-> Halt]]
  BY DEF Service!Stop, Halt
<1>2. call' \in [Callers -> Calls]
  BY <1>1, HaltIsInRange DEF DriveInv, Calls
<1>3. call'[p].drive = Halt /\ \A q \in Callers \ {p} : call'[q] = call[q]
  BY <1>1 DEF DriveInv
<1> QED
  BY <1>2, <1>3 DEF NoDriveBegins, Driving, Callers

LEMMA WriteBeginsNoDrive ==
  ASSUME DriveInv, NEW p \in Callers, Service!Write(p)
  PROVE  call' \in [Callers -> Calls] /\ NoDriveBegins
PROOF
<1>1. /\ call[p].step = "write"
      /\ call' = [call EXCEPT ![p].step = "commit"]
  BY DEF Service!Write
<1>2. call' \in [Callers -> Calls]
  BY <1>1 DEF DriveInv, Calls
<1>3. call'[p].drive = call[p].drive /\ \A q \in Callers \ {p} : call'[q] = call[q]
  BY <1>1 DEF DriveInv, Calls
<1> QED
  BY <1>1, <1>2, <1>3 DEF NoDriveBegins, Driving, Callers

LEMMA EndBeginsNoDrive ==
  ASSUME DriveInv, NEW p \in Callers, Service!WriteFails(p) \/ Service!Return(p)
  PROVE  /\ call' \in [Callers -> Calls]
         /\ NoDriveBegins
         /\ ~Driving(p)'
PROOF
<1>1. \/ call' = [call EXCEPT ![p] = [step |-> "fail", drive |-> Halt]]
      \/ call' = [call EXCEPT ![p] = [step |-> "idle", drive |-> Halt]]
  BY DEF Service!WriteFails, Service!Return, Service!Commit, Service!SetMotorError,
         Service!SetInvalidCommand, Service!Idle, Halt
<1>2. call' \in [Callers -> Calls]
  BY <1>1, HaltIsInRange DEF DriveInv, Calls
<1>3. call'[p].drive = Halt /\ \A q \in Callers \ {p} : call'[q] = call[q]
  BY <1>1 DEF DriveInv
<1> QED
  BY <1>2, <1>3 DEF NoDriveBegins, Driving, Callers

\* While a drive is on its way, the owner is live and is its client.
LEMMA DriverIsLiveOwner ==
  ASSUME DriveInv, NEW k \in Conns, Driving(k)
  PROVE  /\ Client(k) # NoClient
         /\ ~Access!Expired
         /\ Access!LiveOwner = Client(k)
         /\ lastCommand \in 0 .. stall[k] /\ stall[k] \in Nat
PROOF
<1>1. Client(k) # NoClient /\ owner = Client(k) /\ lastCommand \in 0 .. stall[k]
  BY DEF DriveInv, GrantedDriverOwns
<1>2. stall[k] \in 0 .. MaxStall
  BY DEF DriveInv, Callers
<1>3. ~(lastCommand > ControlTimeout)
  BY <1>1, <1>2, ServerAssumption
<1> QED
  BY <1>1, <1>2, <1>3, ServerAssumption DEF Access!LiveOwner, Access!Expired

\* What the manager does while no drive begins: the owner stays the client of
\* every drive on its way, and its command gets no older.
AccessKeeps ==
  \A k \in Conns : Driving(k) =>
    owner' = owner /\ (lastCommand' = lastCommand \/ lastCommand' = 0)

LEMMA KeptOwnerKeepsInv ==
  ASSUME DriveInv, AccessKeeps, NoDriveBegins, call' \in [Callers -> Calls],
         stall' \in [Callers -> 0 .. MaxStall],
         \A k \in Conns : Driving(k)' => stall'[k] = stall[k]
  PROVE  DriveInv'
PROOF
<1>1. ASSUME NEW k \in Conns, Driving(k)'
      PROVE  Client(k) # NoClient /\ owner' = Client(k) /\ lastCommand' \in 0 .. stall'[k]
  <2>1. Driving(k)
    BY <1>1 DEF NoDriveBegins
  <2>2. Client(k) # NoClient /\ owner = Client(k) /\ lastCommand \in 0 .. stall[k]
    BY <2>1 DEF DriveInv, GrantedDriverOwns
  <2>3. stall'[k] = stall[k] /\ stall[k] \in Nat
    BY <1>1, <2>1, DriverIsLiveOwner
  <2> QED
    BY <2>1, <2>2, <2>3 DEF AccessKeeps
<1> QED
  BY <1>1 DEF DriveInv, GrantedDriverOwns, Client, Access!ResolveClient,
       Access!operatorsByIP, Access!EntriesFor

\* Asking the manager, refused or not: an owner on the way with a drive stays.
LEMMA AskingKeepsAccess ==
  ASSUME DriveInv, NEW k \in Conns,
         \/ Access!CanControlGranted(ConnAddr[k])
         \/ Access!CanControlDenied(ConnAddr[k])
         \/ Access!AllowEmergencyStop(ConnAddr[k])
         \/ Access!IsOwner(ConnAddr[k])
  PROVE  AccessKeeps
PROOF
<1> SUFFICES ASSUME NEW j \in Conns, Driving(j)
             PROVE  owner' = owner /\ (lastCommand' = lastCommand \/ lastCommand' = 0)
  BY DEF AccessKeeps
<1>1. /\ Client(j) # NoClient
      /\ ~Access!Expired
      /\ Access!LiveOwner = Client(j)
      /\ owner = Client(j)
  BY DriverIsLiveOwner DEF DriveInv, GrantedDriverOwns
<1>2. CASE Access!CanControlGranted(ConnAddr[k])
  BY <1>1, <1>2 DEF Access!CanControlGranted, Access!Grants
<1>3. CASE Access!CanControlDenied(ConnAddr[k])
  BY <1>3 DEF Access!CanControlDenied, Access!accessVars
<1>4. CASE Access!AllowEmergencyStop(ConnAddr[k])
  BY <1>1, <1>4 DEF Access!AllowEmergencyStop
<1>5. CASE Access!IsOwner(ConnAddr[k])
  BY <1>1, <1>5 DEF Access!IsOwner, Access!ReleaseExpired, Access!accessVars
<1> QED
  BY <1>2, <1>3, <1>4, <1>5

LEMMA UnchangedKeepsAccess ==
  ASSUME UNCHANGED accessVars
  PROVE  AccessKeeps
PROOF BY DEF AccessKeeps, accessVars

LEMMA UnchangedBeginsNoDrive ==
  ASSUME DriveInv, UNCHANGED call
  PROVE  call' \in [Callers -> Calls] /\ NoDriveBegins
PROOF BY DEF DriveInv, NoDriveBegins, Driving

\* A drive that is granted now is the owner's, and so is every one on its way.
LEMMA GrantedDriveKeepsInv ==
  ASSUME DriveInv, NEW k \in Conns, NEW cmd \in Commands,
         Access!CanControlGranted(ConnAddr[k]), Service!Drive(k, cmd), UNCHANGED stall
  PROVE  DriveInv'
PROOF
<1>1. /\ Client(k) # NoClient
      /\ owner' = Client(k)
      /\ lastCommand' = 0
  BY DEF Access!CanControlGranted, Access!Grants, Client
<1>2. call' = [call EXCEPT ![k] =
        IF Service!Valid(cmd) THEN [step |-> "write", drive |-> cmd]
        ELSE [step |-> "reject", drive |-> Halt]]
  BY DEF Service!Drive, Halt
<1>3. Service!Valid(cmd) => cmd \in Service!Speed \X Service!Speed
  BY ServerAssumption DEF Service!Valid
<1>4. call' \in [Callers -> Calls]
  BY <1>2, <1>3, HaltIsInRange DEF DriveInv, Calls
<1>5. ASSUME NEW j \in Conns, Driving(j)'
      PROVE  Client(j) # NoClient /\ owner' = Client(j) /\ lastCommand' \in 0 .. stall'[j]
  <2>1. stall'[j] \in Nat
    BY ServerAssumption DEF DriveInv, Callers
  <2>2. CASE j = k
    BY <1>1, <2>1, <2>2
  <2>3. CASE j # k
    <3>1. Driving(j)
      BY <1>2, <1>5, <2>3 DEF Driving, DriveInv, Callers
    <3>2. owner' = owner /\ owner = Client(j) /\ Client(j) # NoClient
      BY <3>1, AskingKeepsAccess DEF AccessKeeps, DriveInv, GrantedDriverOwns
    <3> QED
      BY <1>1, <2>1, <3>2
  <2> QED
    BY <2>2, <2>3
<1> QED
  BY <1>4, <1>5 DEF DriveInv, GrantedDriverOwns, Client, Access!ResolveClient,
       Access!operatorsByIP, Access!EntriesFor

THEOREM ServerInitInv == ServerInit => DriveInv
PROOF
<1> SUFFICES ASSUME ServerInit PROVE DriveInv
  OBVIOUS
<1>1. call = [p \in Callers |-> [step |-> "idle", drive |-> Halt]]
  BY DEF ServerInit, Service!ServiceInit, Service!Idle, Halt
<1>2. stall \in [Callers -> 0 .. MaxStall]
  BY ServerAssumption DEF ServerInit
<1> QED
  BY <1>1, <1>2, HaltIsInRange DEF DriveInv, Calls, GrantedDriverOwns, Driving, Callers

LEMMA ElapseKeepsInv ==
  ASSUME DriveInv, Elapse
  PROVE  DriveInv'
PROOF
<1>1. /\ call' = call
      /\ owner' = owner
      /\ stall' = [p \in Callers |-> IF Service!Busy(p) THEN stall[p] + 1 ELSE 0]
      /\ \A p \in Callers : Service!Busy(p) => stall[p] < MaxStall
  BY DEF Elapse, Service!ElapseService, Access!ElapseLease
<1>2. stall' \in [Callers -> 0 .. MaxStall]
  BY <1>1, ServerAssumption DEF DriveInv
<1>3. ASSUME NEW k \in Conns, Driving(k)'
      PROVE  Client(k) # NoClient /\ owner' = Client(k) /\ lastCommand' \in 0 .. stall'[k]
  <2>1. Driving(k) /\ Service!Busy(k) /\ k \in Callers
    BY <1>1, <1>3 DEF Driving, Service!Busy, Callers
  <2>2. Client(k) # NoClient /\ owner = Client(k) /\ lastCommand \in 0 .. stall[k]
    BY <2>1 DEF DriveInv, GrantedDriverOwns
  <2>3. stall[k] \in 0 .. MaxStall /\ stall[k] < MaxStall /\ stall'[k] = stall[k] + 1
    BY <1>1, <2>1 DEF DriveInv
  <2>4. lastCommand # Never /\ lastCommand < ControlTimeout + 1
    BY <2>2, <2>3, ServerAssumption
  <2>5. lastCommand' = lastCommand + 1
    BY <2>4 DEF Elapse, Access!ElapseLease, Access!OlderThan
  <2> QED
    BY <1>1, <2>2, <2>3, <2>5
<1> QED
  BY <1>1, <1>2, <1>3 DEF DriveInv, GrantedDriverOwns, Client, Access!ResolveClient,
       Access!operatorsByIP, Access!EntriesFor

LEMMA HandlerKeepsInv ==
  ASSUME DriveInv, NEW k \in Conns, Handler(k)
  PROVE  DriveInv'
PROOF
<1> k \in Callers
  BY DEF Callers
<1>1. CASE Connect(k)
  BY <1>1, UnchangedKeepsAccess, UnchangedBeginsNoDrive, KeptOwnerKeepsInv
  DEF Connect, serviceVars, DriveInv
<1>2. ASSUME NEW cmd \in Commands, ReceiveControl(k, cmd)
      PROVE  DriveInv'
  <2>1. UNCHANGED stall
    BY <1>2 DEF ReceiveControl, serverVars
  <2>2. CASE Access!CanControlGranted(ConnAddr[k]) /\ Service!Drive(k, cmd)
    BY <2>1, <2>2, GrantedDriveKeepsInv
  <2>3. CASE Access!CanControlDenied(ConnAddr[k]) /\ UNCHANGED serviceVars
    BY <2>1, <2>3, AskingKeepsAccess, UnchangedBeginsNoDrive, KeptOwnerKeepsInv
    DEF serviceVars, DriveInv
  <2> QED
    BY <1>2, <2>2, <2>3 DEF ReceiveControl
<1>3. CASE ReceiveStop(k) \/ ReceiveEmergencyStop(k) \/ Disconnect(k)
  <2>1. AccessKeeps
    BY <1>3, AskingKeepsAccess DEF ReceiveStop, ReceiveEmergencyStop, Disconnect
  <2>2. Service!Stop(k) \/ UNCHANGED call
    BY <1>3 DEF ReceiveStop, ReceiveEmergencyStop, Disconnect, serviceVars
  <2>3. call' \in [Callers -> Calls] /\ NoDriveBegins
    BY <2>2, StopBeginsNoDrive, UnchangedBeginsNoDrive
  <2>4. UNCHANGED stall
    BY <1>3 DEF ReceiveStop, ReceiveEmergencyStop, Disconnect, serverVars
  <2> QED
    BY <2>1, <2>3, <2>4, KeptOwnerKeepsInv DEF DriveInv
<1> QED
  BY <1>1, <1>2, <1>3 DEF Handler, Message

LEMMA CallerKeepsInv ==
  ASSUME DriveInv, NEW p \in Callers, WriteDatagram(p) \/ WriteError(p) \/ Finish(p)
  PROVE  DriveInv'
PROOF
<1>1. AccessKeeps
  BY UnchangedKeepsAccess DEF WriteDatagram, WriteError, Finish
<1>2. CASE WriteDatagram(p)
  BY <1>1, <1>2, WriteBeginsNoDrive, KeptOwnerKeepsInv DEF WriteDatagram, DriveInv
<1>3. CASE WriteError(p)
  BY <1>1, <1>3, EndBeginsNoDrive, KeptOwnerKeepsInv DEF WriteError, DriveInv
<1>4. CASE Finish(p)
  <2>1. call' \in [Callers -> Calls] /\ NoDriveBegins /\ ~Driving(p)'
    BY <1>4, EndBeginsNoDrive DEF Finish
  <2>2. stall' = [stall EXCEPT ![p] = 0]
    BY <1>4 DEF Finish
  <2>3. stall' \in [Callers -> 0 .. MaxStall]
    BY <2>2, ServerAssumption DEF DriveInv
  <2>4. \A k \in Conns : Driving(k)' => stall'[k] = stall[k]
    BY <2>1, <2>2 DEF DriveInv, Callers
  <2> QED
    BY <1>1, <2>1, <2>3, <2>4, KeptOwnerKeepsInv
<1> QED
  BY <1>2, <1>3, <1>4

LEMMA RestKeepsInv ==
  ASSUME DriveInv,
         \/ Check
         \/ \E r \in Reports : ReceiveTelemetry(r)
         \/ Lifecycle
         \/ UNCHANGED vars
  PROVE  DriveInv'
PROOF
<1>1. UNCHANGED accessVars /\ UNCHANGED stall
  BY DEF Check, ReceiveTelemetry, Lifecycle, Signal, Shutdown, Exit, Fail, vars,
         serverVars
<1>2. \/ \E p \in Callers : Service!Stop(p)
      \/ UNCHANGED call
  BY DEF Check, ReceiveTelemetry, Service!UpdateMotorTelemetry, Lifecycle, Signal,
         Shutdown, Exit, Fail, vars, serviceVars, Callers
<1>3. call' \in [Callers -> Calls] /\ NoDriveBegins
  BY <1>2, StopBeginsNoDrive, UnchangedBeginsNoDrive
<1> QED
  BY <1>1, <1>3, UnchangedKeepsAccess, KeptOwnerKeepsInv DEF DriveInv

THEOREM ServerStepInv == DriveInv /\ [ServerNext]_vars => DriveInv'
PROOF
  BY HandlerKeepsInv, CallerKeepsInv, ElapseKeepsInv, RestKeepsInv DEF ServerNext, RunningNext

\* The commands of two clients are never in flight together, for any number of
\* connections and operators, provided no call of the service lasts longer than
\* the lease.
THEOREM OneDriverInFlightAlways == ServerSpec => []OneDriverInFlight
PROOF
<1>1. ServerSpec => []DriveInv
  BY ServerInitInv, ServerStepInv, PTL DEF ServerSpec
<1>2. DriveInv => OneDriverInFlight
  BY DEF DriveInv, GrantedDriverOwns, OneDriverInFlight
<1> QED
  BY <1>1, <1>2, PTL

\* While a granted drive is on its way its client owns control.
THEOREM GrantedDriverOwnsAlways == ServerSpec => []GrantedDriverOwns
PROOF
<1>1. ServerSpec => []DriveInv
  BY ServerInitInv, ServerStepInv, PTL DEF ServerSpec
<1>2. DriveInv => GrantedDriverOwns
  BY DEF DriveInv
<1> QED
  BY <1>1, <1>2, PTL

------------------------------------------------------------------------------
(* Types.                                                                  *)

\* The horizons of the two ages are naturals, and the zero time is none.
LEMMA Horizons ==
  /\ CommandTimeout + 1 \in Nat
  /\ ControlTimeout \in Nat /\ Never \notin Nat
  /\ Period \in Nat \ {0}
PROOF
<1>1. CommandTimeout \div 2 \in Nat
  BY ServerAssumption
<1> QED
  BY <1>1, ServerAssumption DEF Period

\* What a handler asks of the manager keeps the manager's type.
LEMMA AskingKeepsType ==
  ASSUME Access!AccessTypeOK, NEW k \in Conns,
         \/ Access!CanControlGranted(ConnAddr[k])
         \/ Access!CanControlDenied(ConnAddr[k])
         \/ Access!AllowEmergencyStop(ConnAddr[k])
         \/ Access!IsOwner(ConnAddr[k])
  PROVE  Access!AccessTypeOK'
PROOF
<1>1. ConnAddr[k] \in Addrs /\ 0 \in 0 .. ControlTimeout + 1 /\ 0 # Never
  BY ServerAssumption
<1>2. Client(k) # NoClient => Client(k) \in Access!Clients
  BY <1>1 DEF Access!Clients, Client
<1>3. NoClient \notin Access!Clients
  BY DEF Access!Clients
<1>4. /\ owner' \in Access!Clients \cup {NoClient}
      /\ lastCommand' \in 0 .. ControlTimeout + 1 \cup {Never}
      /\ (owner' = NoClient) = (lastCommand' = Never)
  <2>1. CASE Access!CanControlGranted(ConnAddr[k])
    BY <1>1, <1>2, <2>1 DEF Access!CanControlGranted, Access!Grants, Client
  <2>2. CASE Access!CanControlDenied(ConnAddr[k])
    BY <2>2 DEF Access!CanControlDenied, Access!accessVars, Access!AccessTypeOK
  <2>3. CASE Access!AllowEmergencyStop(ConnAddr[k])
    BY <1>1, <1>2, <2>3
    DEF Access!AllowEmergencyStop, Access!LiveOwner, Access!AccessTypeOK, Client
  <2>4. CASE Access!IsOwner(ConnAddr[k])
    BY <2>4
    DEF Access!IsOwner, Access!ReleaseExpired, Access!LiveOwner, Access!Expired,
        Access!accessVars, Access!AccessTypeOK
  <2> QED
    BY <2>1, <2>2, <2>3, <2>4
<1> QED
  BY <1>4
  DEF Access!AccessTypeOK, Access!Clients, Access!ResolveClient, Access!operatorsByIP,
      Access!EntriesFor

\* What a caller does in the service keeps the service's type.
LEMMA ServiceStepKeepsType ==
  ASSUME Service!ServiceTypeOK, NEW p \in Callers,
         \/ \E cmd \in Commands : Service!Drive(p, cmd)
         \/ Service!Stop(p)
         \/ Service!Write(p)
         \/ Service!WriteFails(p)
         \/ Service!Return(p)
         \/ \E report \in Reports : Service!UpdateMotorTelemetry(report)
         \/ UNCHANGED serviceVars
  PROVE  Service!ServiceTypeOK'
PROOF
<1> 0 \in 0 .. CommandTimeout + 1 /\ 0 \in 0 .. 0
  BY Horizons
<1>1. ASSUME NEW cmd \in Commands, Service!Drive(p, cmd)
      PROVE  Service!ServiceTypeOK'
  <2>1. Service!Valid(cmd) => cmd \in Service!Speed \X Service!Speed
    BY ServerAssumption DEF Service!Valid
  <2> QED
    BY <1>1, <2>1, HaltIsInRange DEF Service!Drive, Service!ServiceTypeOK, Halt
<1>2. CASE Service!Stop(p)
  BY <1>2, HaltIsInRange DEF Service!Stop, Service!ServiceTypeOK, Halt
<1>3. CASE Service!Write(p)
  BY <1>3 DEF Service!Write, Service!ServiceTypeOK
<1>4. CASE Service!WriteFails(p)
  BY <1>4, HaltIsInRange DEF Service!WriteFails, Service!ServiceTypeOK, Halt
<1>5. CASE Service!Return(p)
  <2>1. CASE Service!Commit(p)
    <3>1. call[p].drive \in Service!Speed \X Service!Speed
      BY DEF Service!ServiceTypeOK
    <3> QED
      BY <2>1, <3>1, HaltIsInRange DEF Service!Commit, Service!Idle, Service!ServiceTypeOK, Halt
  <2>2. CASE Service!SetMotorError(p)
    BY <2>2, HaltIsInRange DEF Service!SetMotorError, Service!Idle, Service!ServiceTypeOK, Halt
  <2>3. CASE Service!SetInvalidCommand(p)
    BY <2>3, HaltIsInRange
    DEF Service!SetInvalidCommand, Service!Idle, Service!ServiceTypeOK, Halt
  <2> QED
    BY <1>5, <2>1, <2>2, <2>3 DEF Service!Return
<1>6. ASSUME NEW report \in Reports, Service!UpdateMotorTelemetry(report)
      PROVE  Service!ServiceTypeOK'
  BY <1>6 DEF Service!UpdateMotorTelemetry, Service!ServiceTypeOK
<1>7. CASE UNCHANGED serviceVars
  BY <1>7 DEF serviceVars, Service!ServiceTypeOK
<1> QED
  BY <1>1, <1>2, <1>3, <1>4, <1>5, <1>6, <1>7

\* The parts of ServerTypeOK that are neither the manager's nor the service's.
OwnTypeOK ==
  /\ open \subseteq Conns
  /\ tickerAge \in 0 .. Period - 1
  /\ tick \in BOOLEAN
  /\ stall \in [Callers -> 0 .. MaxStall]
  /\ writeFailed \in BOOLEAN
  /\ app \in {"running", "stopping", "draining", "stopped", "failed"}

LEMMA TypeInit == ServerInit => ServerTypeOK
PROOF
<1> SUFFICES ASSUME ServerInit PROVE ServerTypeOK
  OBVIOUS
<1>1. Access!AccessTypeOK
  BY DEF ServerInit, Access!AccessInit, Access!AccessTypeOK
<1>2. Service!ServiceTypeOK
  BY HaltIsInRange
  DEF ServerInit, Service!ServiceInit, Service!ServiceTypeOK, Service!Idle, Halt
<1>3. OwnTypeOK
  <2>1. 0 \in 0 .. Period - 1
    BY Horizons
  <2>2. stall \in [Callers -> 0 .. MaxStall]
    BY ServerAssumption DEF ServerInit
  <2> QED
    BY <2>1, <2>2 DEF ServerInit, OwnTypeOK
<1> QED
  BY <1>1, <1>2, <1>3 DEF ServerTypeOK, OwnTypeOK

LEMMA ElapseKeepsType ==
  ASSUME ServerTypeOK, Elapse
  PROVE  ServerTypeOK'
PROOF
<1>1. Access!AccessTypeOK'
  <2>1. /\ owner' = owner
        /\ lastCommand' = Access!OlderThan(lastCommand, ControlTimeout + 1)
    BY DEF Elapse, Access!ElapseLease
  <2>2. /\ lastCommand' \in 0 .. ControlTimeout + 1 \cup {Never}
        /\ lastCommand' = Never <=> lastCommand = Never
    BY <2>1, Horizons DEF ServerTypeOK, Access!AccessTypeOK, Access!OlderThan
  <2> QED
    BY <2>1, <2>2
    DEF ServerTypeOK, Access!AccessTypeOK, Access!Clients, Access!ResolveClient,
        Access!operatorsByIP, Access!EntriesFor
<1>2. Service!ServiceTypeOK'
  BY Horizons
  DEF Elapse, ServerTypeOK, Service!ElapseService, Service!ServiceTypeOK, Service!Older
<1>3. OwnTypeOK'
  <2>1. tickerAge' \in 0 .. Period - 1
    BY Horizons DEF Elapse, ServerTypeOK
  <2>2. stall' \in [Callers -> 0 .. MaxStall]
    BY ServerAssumption DEF Elapse, ServerTypeOK
  <2>3. tick' \in BOOLEAN
    BY DEF Elapse, ServerTypeOK
  <2> QED
    BY <2>1, <2>2, <2>3 DEF Elapse, ServerTypeOK, OwnTypeOK
<1> QED
  BY <1>1, <1>2, <1>3 DEF ServerTypeOK, OwnTypeOK

LEMMA SameAccessKeepsType ==
  ASSUME Access!AccessTypeOK, UNCHANGED accessVars
  PROVE  Access!AccessTypeOK'
PROOF
  BY DEF accessVars, Access!AccessTypeOK, Access!Clients, Access!ResolveClient,
     Access!operatorsByIP, Access!EntriesFor

LEMMA HandlerKeepsType ==
  ASSUME ServerTypeOK, NEW k \in Conns, Handler(k)
  PROVE  ServerTypeOK'
PROOF
<1> k \in Callers
  BY DEF Callers
<1>1. Access!AccessTypeOK'
  <2>1. UNCHANGED accessVars
        \/ Access!CanControlGranted(ConnAddr[k]) \/ Access!CanControlDenied(ConnAddr[k])
        \/ Access!AllowEmergencyStop(ConnAddr[k]) \/ Access!IsOwner(ConnAddr[k])
    BY DEF Handler, Message, Connect, ReceiveControl, ReceiveStop, ReceiveEmergencyStop,
           Disconnect
  <2> QED
    BY <2>1, AskingKeepsType, SameAccessKeepsType DEF ServerTypeOK
<1>2. Service!ServiceTypeOK'
  <2>1. \/ \E cmd \in Commands : Service!Drive(k, cmd)
        \/ Service!Stop(k)
        \/ UNCHANGED serviceVars
    BY DEF Handler, Message, Connect, ReceiveControl, ReceiveStop, ReceiveEmergencyStop,
           Disconnect
  <2> QED
    BY <2>1, ServiceStepKeepsType DEF ServerTypeOK
<1>3. OwnTypeOK'
  BY DEF Handler, Message, Connect, ReceiveControl, ReceiveStop, ReceiveEmergencyStop,
         Disconnect, ServerTypeOK, OwnTypeOK, serverVars
<1> QED
  BY <1>1, <1>2, <1>3 DEF ServerTypeOK, OwnTypeOK

LEMMA CallerKeepsType ==
  ASSUME ServerTypeOK, NEW p \in Callers, WriteDatagram(p) \/ WriteError(p) \/ Finish(p)
  PROVE  ServerTypeOK'
PROOF
<1>1. Access!AccessTypeOK'
  BY SameAccessKeepsType DEF ServerTypeOK, WriteDatagram, WriteError, Finish
<1>2. Service!ServiceTypeOK'
  BY ServiceStepKeepsType DEF ServerTypeOK, WriteDatagram, WriteError, Finish
<1>3. OwnTypeOK'
  <2>1. stall' \in [Callers -> 0 .. MaxStall]
    <3>1. stall' = stall \/ stall' = [stall EXCEPT ![p] = 0]
      BY DEF WriteDatagram, WriteError, Finish
    <3> QED
      BY <3>1, ServerAssumption DEF ServerTypeOK
  <2>2. /\ UNCHANGED <<open, tickerAge, tick, app>>
        /\ writeFailed' \in {writeFailed, TRUE, FALSE}
    BY DEF WriteDatagram, WriteError, Finish
  <2> QED
    BY <2>1, <2>2 DEF ServerTypeOK, OwnTypeOK
<1> QED
  BY <1>1, <1>2, <1>3 DEF ServerTypeOK, OwnTypeOK

LEMMA RestKeepsType ==
  ASSUME ServerTypeOK,
         \/ Check
         \/ \E r \in Reports : ReceiveTelemetry(r)
         \/ Lifecycle
         \/ UNCHANGED vars
  PROVE  ServerTypeOK'
PROOF
<1> Watchdog \in Callers /\ Main \in Callers
  BY DEF Callers
<1>1. Access!AccessTypeOK'
  <2>1. UNCHANGED accessVars
    BY DEF Check, ReceiveTelemetry, Lifecycle, Signal, Shutdown, Exit, Fail, vars
  <2> QED
    BY <2>1, SameAccessKeepsType DEF ServerTypeOK
<1>2. Service!ServiceTypeOK'
  <2>1. \/ Service!Stop(Watchdog) \/ Service!Stop(Main)
        \/ \E report \in Reports : Service!UpdateMotorTelemetry(report)
        \/ UNCHANGED serviceVars
    BY DEF Check, ReceiveTelemetry, Lifecycle, Signal, Shutdown, Exit, Fail, vars
  <2> QED
    BY <2>1, ServiceStepKeepsType DEF ServerTypeOK
<1>3. OwnTypeOK'
  BY DEF Check, ReceiveTelemetry, Lifecycle, Signal, Shutdown, Exit, Fail, vars, serverVars,
         ServerTypeOK, OwnTypeOK
<1> QED
  BY <1>1, <1>2, <1>3 DEF ServerTypeOK, OwnTypeOK

THEOREM TypeStep == ServerTypeOK /\ [ServerNext]_vars => ServerTypeOK'
PROOF
  BY HandlerKeepsType, CallerKeepsType, ElapseKeepsType, RestKeepsType DEF ServerNext, RunningNext

\* Every speed that reaches a datagram is in range, whatever clients ask for and
\* telemetry reports, and every age stays below its horizon.
THEOREM ServerTypeOKAlways == ServerSpec => []ServerTypeOK
PROOF
  BY TypeInit, TypeStep, PTL DEF ServerSpec

------------------------------------------------------------------------------
(* The departed owner.  While the car moves and its owner's lease runs,    *)
(* there is somebody left to stop it: an open connection of the owner, or  *)
(* a halt that is about to be written.                                     *)

\* Only an open connection's handler has a drive on its way.
HandlersDrive ==
  \A p \in Callers : call[p].drive # Halt => p \in open /\ call[p].step \in {"write", "commit"}

HaltPending(p) == call[p].step = "write" /\ call[p].drive = Halt

SomebodyStops ==
  \/ \E k \in open : Client(k) = owner
  \/ \E p \in Callers : HaltPending(p)

MotionHasOwner == owner # NoClient /\ ~Access!Expired /\ wire # Halt /\ ~writeFailed => SomebodyStops

ParkInv == DriveInv /\ ServerTypeOK /\ HandlersDrive /\ MotionHasOwner

\* The owner is who it was, unless its lease is over.
LeaseOnlyEnds ==
  owner' # NoClient /\ ~Access!Expired' => owner' = owner /\ ~Access!Expired

LEMMA ParkInit == ServerInit => ParkInv
PROOF
<1> SUFFICES ASSUME ServerInit PROVE ParkInv
  OBVIOUS
<1>1. HandlersDrive /\ MotionHasOwner
  BY DEF ServerInit, Access!AccessInit, Service!ServiceInit, Service!Idle, Halt, HandlersDrive,
         MotionHasOwner
<1> QED
  BY <1>1, ServerInitInv, TypeInit DEF ParkInv

\* A caller's step in the service begins a drive on an open connection only, and leaves
\* alone the halts that others are about to write.
LEMMA StopKeepsHandlers ==
  ASSUME ParkInv, NEW p \in Callers, Service!Stop(p), open \ {p} \subseteq open'
  PROVE  /\ HandlersDrive'
         /\ HaltPending(p)'
         /\ \A q \in Callers : HaltPending(q) => HaltPending(q)'
         /\ wire' = wire
PROOF
<1>1. /\ call' = [call EXCEPT ![p] = [step |-> "write", drive |-> Halt]]
      /\ wire' = wire
      /\ call[p].step = "idle"
  BY DEF Service!Stop, Service!Busy, Halt
<1>2. call'[p] = [step |-> "write", drive |-> Halt] /\ \A q \in Callers \ {p} : call'[q] = call[q]
  BY <1>1 DEF ParkInv, DriveInv
<1> QED
  BY <1>1, <1>2 DEF ParkInv, HandlersDrive, HaltPending

LEMMA SameCallsKeepHandlers ==
  ASSUME ParkInv, UNCHANGED <<call, wire>>, open \subseteq open'
  PROVE  /\ HandlersDrive'
         /\ \A q \in Callers : HaltPending(q) => HaltPending(q)'
         /\ wire' = wire
PROOF BY DEF ParkInv, HandlersDrive, HaltPending

\* A step that lets nobody in, and takes away neither a connection nor a halt.
LEMMA QuietStepKeepsOwner ==
  ASSUME ParkInv, LeaseOnlyEnds, open \subseteq open', UNCHANGED <<wire, writeFailed>>,
         \A q \in Callers : HaltPending(q) => HaltPending(q)'
  PROVE  MotionHasOwner'
PROOF
<1> SUFFICES ASSUME owner' # NoClient, ~Access!Expired', wire' # Halt, ~writeFailed'
             PROVE  SomebodyStops'
  BY DEF MotionHasOwner, Halt, Service!Halt
<1>1. owner' = owner /\ SomebodyStops
  BY DEF LeaseOnlyEnds, ParkInv, MotionHasOwner
<1> QED
  BY <1>1 DEF SomebodyStops, Client, Access!ResolveClient, Access!operatorsByIP, Access!EntriesFor

LEMMA SameAccessEndsOnly ==
  ASSUME UNCHANGED accessVars
  PROVE  LeaseOnlyEnds
PROOF BY DEF LeaseOnlyEnds, accessVars, Access!Expired

\* Looking whether a client is the owner ends the lease of an expired one at most.
LEMMA IsOwnerEndsOnly ==
  ASSUME NEW k \in Conns, Access!IsOwner(ConnAddr[k]) \/ Access!CanControlDenied(ConnAddr[k])
  PROVE  LeaseOnlyEnds
PROOF
  BY DEF LeaseOnlyEnds, Access!IsOwner, Access!CanControlDenied, Access!ReleaseExpired,
     Access!LiveOwner, Access!Expired, Access!accessVars

LEMMA ElapseEndsOnly ==
  ASSUME ParkInv, Elapse
  PROVE  LeaseOnlyEnds
PROOF
<1>1. /\ owner' = owner
      /\ lastCommand' = Access!OlderThan(lastCommand, ControlTimeout + 1)
  BY DEF Elapse, Access!ElapseLease
<1>2. lastCommand \in 0 .. ControlTimeout + 1 \cup {Never}
  BY DEF ParkInv, ServerTypeOK, Access!AccessTypeOK
<1>3. /\ lastCommand = Never => lastCommand' = Never
      /\ lastCommand # Never /\ lastCommand > ControlTimeout =>
           lastCommand' # Never /\ lastCommand' > ControlTimeout
  BY <1>1, <1>2, Horizons DEF Access!OlderThan
<1> QED
  BY <1>1, <1>3 DEF LeaseOnlyEnds, Access!Expired

LEMMA ConnectKeepsPark ==
  ASSUME ParkInv, NEW k \in Conns, Connect(k)
  PROVE  HandlersDrive' /\ MotionHasOwner'
PROOF
  BY SameCallsKeepHandlers, SameAccessEndsOnly, QuietStepKeepsOwner DEF Connect, serviceVars

LEMMA MessageKeepsPark ==
  ASSUME ParkInv, NEW k \in Conns, Message(k)
  PROVE  HandlersDrive' /\ MotionHasOwner'
PROOF
<1> k \in Callers
  BY DEF Callers
<1> USE DEF serverVars
<1>2. k \in open /\ open' = open /\ UNCHANGED writeFailed
  BY DEF Message, ReceiveControl, ReceiveStop, ReceiveEmergencyStop, Reading
<1>3. CASE Access!CanControlDenied(ConnAddr[k]) /\ UNCHANGED serviceVars
  BY <1>2, <1>3, SameCallsKeepHandlers, IsOwnerEndsOnly, QuietStepKeepsOwner DEF serviceVars
\* A client that is let in has an open connection, this one.
<1>4. Access!CanControlGranted(ConnAddr[k]) => MotionHasOwner'
  BY <1>2
  DEF Access!CanControlGranted, MotionHasOwner, SomebodyStops, Client, Access!ResolveClient,
      Access!operatorsByIP, Access!EntriesFor
<1>5. ASSUME NEW cmd \in Commands, Access!CanControlGranted(ConnAddr[k]), Service!Drive(k, cmd)
      PROVE  HandlersDrive' /\ MotionHasOwner'
  <2>1. call' = [call EXCEPT ![k] =
          IF Service!Valid(cmd) THEN [step |-> "write", drive |-> cmd]
          ELSE [step |-> "reject", drive |-> Halt]]
    BY <1>5 DEF Service!Drive, Halt
  <2>2. \A q \in Callers \ {k} : call'[q] = call[q]
    BY <2>1 DEF ParkInv, DriveInv
  <2>3. call'[k].drive # Halt => call'[k].step = "write"
    BY <2>1 DEF ParkInv, DriveInv
  <2>4. HandlersDrive'
    BY <1>2, <2>2, <2>3 DEF ParkInv, HandlersDrive
  <2> QED
    BY <1>4, <1>5, <2>4
<1>6. CASE Access!CanControlGranted(ConnAddr[k]) /\ Service!Stop(k)
  BY <1>2, <1>4, <1>6, StopKeepsHandlers
<1>7. CASE ReceiveEmergencyStop(k)
  <2>1. HandlersDrive' /\ HaltPending(k)'
    BY <1>2, <1>7, StopKeepsHandlers DEF ReceiveEmergencyStop
  <2> QED
    BY <2>1 DEF MotionHasOwner, SomebodyStops
<1> QED
  BY <1>3, <1>5, <1>6, <1>7 DEF Message, ReceiveControl, ReceiveStop

LEMMA DisconnectKeepsPark ==
  ASSUME ParkInv, NEW k \in Conns, Disconnect(k)
  PROVE  HandlersDrive' /\ MotionHasOwner'
PROOF
<1> k \in Callers
  BY DEF Callers
<1>1. /\ k \in open /\ call[k].step = "idle"
      /\ open' = open \ {k}
      /\ UNCHANGED writeFailed
      /\ LeaseOnlyEnds
  BY IsOwnerEndsOnly DEF Disconnect, Reading, Service!Busy
<1>2. CASE Service!Stop(k)
  <2>1. HandlersDrive' /\ HaltPending(k)'
    BY <1>1, <1>2, StopKeepsHandlers
  <2> QED
    BY <2>1 DEF MotionHasOwner, SomebodyStops
<1>3. CASE ~Access!Owns(ConnAddr[k]) /\ UNCHANGED serviceVars
  <2>1. UNCHANGED <<call, wire>>
    BY <1>3 DEF serviceVars
  <2>2. call[k].drive = Halt
    BY <1>1 DEF ParkInv, HandlersDrive
  <2>3. HandlersDrive'
    BY <1>1, <2>1, <2>2 DEF ParkInv, HandlersDrive
  <2>4. ASSUME owner' # NoClient, ~Access!Expired', wire' # Halt, ~writeFailed'
        PROVE  SomebodyStops'
    <3>1. owner' = owner /\ ~Access!Expired /\ SomebodyStops
      BY <1>1, <2>1, <2>4 DEF LeaseOnlyEnds, ParkInv, MotionHasOwner
    <3>2. Client(k) # owner
      BY <1>3, <2>4, <3>1 DEF Access!Owns, Access!LiveOwner, Client
    <3> QED
      BY <1>1, <2>1, <3>1, <3>2
      DEF SomebodyStops, HaltPending, Client, Access!ResolveClient, Access!operatorsByIP,
          Access!EntriesFor
  <2> QED
    BY <2>3, <2>4 DEF MotionHasOwner
<1> QED
  BY <1>2, <1>3 DEF Disconnect

LEMMA CallerKeepsPark ==
  ASSUME ParkInv, NEW p \in Callers, WriteDatagram(p) \/ WriteError(p) \/ Finish(p)
  PROVE  HandlersDrive' /\ MotionHasOwner'
PROOF
<1>1. UNCHANGED accessVars /\ open' = open
  BY DEF WriteDatagram, WriteError, Finish
<1>2. call \in [Callers -> Calls]
  BY DEF ParkInv, DriveInv
<1>3. CASE WriteDatagram(p)
  <2>1. /\ call[p].step = "write"
        /\ call' = [call EXCEPT ![p].step = "commit"]
        /\ wire' = call[p].drive
    BY <1>3 DEF WriteDatagram, Service!Write
  <2>2. /\ call'[p].step = "commit" /\ call'[p].drive = call[p].drive
        /\ \A q \in Callers \ {p} : call'[q] = call[q]
    BY <1>2, <2>1 DEF Calls
  <2>3. HandlersDrive'
    BY <1>1, <2>2 DEF ParkInv, HandlersDrive
  <2>4. wire' # Halt => p \in open /\ Client(p) = owner
    <3>1. wire' # Halt => p \in open /\ p \in Conns /\ Driving(p)
      BY <2>1 DEF ParkInv, HandlersDrive, ServerTypeOK, Driving
    <3> QED
      BY <3>1 DEF ParkInv, DriveInv, GrantedDriverOwns
  <2>5. MotionHasOwner'
    BY <1>1, <2>4
    DEF MotionHasOwner, SomebodyStops, accessVars, Client, Access!ResolveClient,
        Access!operatorsByIP, Access!EntriesFor, Halt, Service!Halt
  <2> QED
    BY <2>3, <2>5
<1>4. CASE WriteError(p) \/ Finish(p)
  <2>1. /\ call[p].step # "write" \/ WriteError(p)
        /\ \/ call' = [call EXCEPT ![p] = [step |-> "fail", drive |-> Halt]]
           \/ call' = [call EXCEPT ![p] = [step |-> "idle", drive |-> Halt]]
        /\ wire' = wire
    BY <1>4
    DEF WriteError, Finish, Service!WriteFails, Service!Return, Service!Commit,
        Service!SetMotorError, Service!SetInvalidCommand, Service!Idle, Halt
  <2>2. call'[p].drive = Halt /\ \A q \in Callers \ {p} : call'[q] = call[q]
    BY <1>2, <2>1
  <2>3. HandlersDrive'
    BY <1>1, <2>2 DEF ParkInv, HandlersDrive
  <2>4. CASE WriteError(p)
    BY <2>3, <2>4 DEF WriteError, MotionHasOwner
  <2>5. CASE Finish(p) /\ ~WriteError(p)
    <3>1. \A q \in Callers : HaltPending(q) => HaltPending(q)'
      BY <2>1, <2>2, <2>5 DEF HaltPending
    <3> QED
      BY <1>1, <2>1, <2>3, <2>5, <3>1, SameAccessEndsOnly, QuietStepKeepsOwner DEF Finish
  <2> QED
    BY <1>4, <2>4, <2>5
<1> QED
  BY <1>3, <1>4

LEMMA RestKeepsPark ==
  ASSUME ParkInv,
         \/ Check
         \/ \E r \in Reports : ReceiveTelemetry(r)
         \/ Elapse
         \/ Lifecycle
         \/ UNCHANGED vars
  PROVE  HandlersDrive' /\ MotionHasOwner'
PROOF
<1> Watchdog \in Callers /\ Main \in Callers
  BY DEF Callers
<1>1. LeaseOnlyEnds
  BY SameAccessEndsOnly, ElapseEndsOnly
  DEF Check, ReceiveTelemetry, Lifecycle, Signal, Shutdown, Exit, Fail, vars
<1>2. open' = open /\ UNCHANGED writeFailed
  BY DEF Check, ReceiveTelemetry, Elapse, Lifecycle, Signal, Shutdown, Exit, Fail, vars,
         serverVars
<1>3. Service!Stop(Watchdog) \/ Service!Stop(Main) \/ UNCHANGED <<call, wire>>
  BY DEF Check, ReceiveTelemetry, Service!UpdateMotorTelemetry, Elapse, Service!ElapseService,
         Lifecycle, Signal, Shutdown, Exit, Fail, vars, serviceVars
<1>4. HandlersDrive' /\ wire' = wire /\ \A q \in Callers : HaltPending(q) => HaltPending(q)'
  BY <1>2, <1>3, StopKeepsHandlers, SameCallsKeepHandlers
<1> QED
  BY <1>1, <1>2, <1>4, QuietStepKeepsOwner

THEOREM ParkStep == ParkInv /\ [ServerNext]_vars => ParkInv'
PROOF
<1> SUFFICES ASSUME ParkInv, [ServerNext]_vars PROVE ParkInv'
  OBVIOUS
<1>1. HandlersDrive' /\ MotionHasOwner'
  BY ConnectKeepsPark, MessageKeepsPark, DisconnectKeepsPark, CallerKeepsPark, RestKeepsPark
  DEF ServerNext, RunningNext, Handler
<1> QED
  BY <1>1, ServerStepInv, TypeStep DEF ParkInv

\* When the client that holds control has left and every call is over, the car has been
\* told to stand or the write failed: for any number of clients and connections, and at
\* every stage of a shutdown.
THEOREM DepartedOwnerParkedAlways == ServerSpec => []DepartedOwnerParked
PROOF
<1>1. ServerSpec => []ParkInv
  BY ParkInit, ParkStep, PTL DEF ServerSpec
<1>2. ParkInv => DepartedOwnerParked
  <2> SUFFICES ASSUME ParkInv, owner # NoClient, ~Access!Expired,
                      \A k \in open : Client(k) # owner,
                      \A p \in Callers : ~Service!Busy(p)
               PROVE  wire = Halt \/ writeFailed
    BY DEF DepartedOwnerParked
  <2>1. ~SomebodyStops
    BY DEF SomebodyStops, HaltPending, Service!Busy
  <2> QED
    BY <2>1 DEF ParkInv, MotionHasOwner
<1> QED
  BY <1>1, <1>2, PTL
==============================================================================
