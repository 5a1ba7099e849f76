---------------------------- MODULE CarSystemProofs ----------------------------
(***************************************************************************)
(* The backend with what surrounds it, for any number of connections,      *)
(* operators and commands.                                                 *)
(*                                                                         *)
(* Over a network that loses, reorders and delays, the backend is still    *)
(* the one of CarServer, so that what CarServerProofs shows holds beside   *)
(* the car; and the car runs at no speed that was not in range.            *)
(*                                                                         *)
(* An emergency stop that no drive overlaps holds.  The invariant follows  *)
(* the stop: while it is carried out no drive is accepted and unsent, so   *)
(* what it has written stays on the wire.  The stop of a shutdown holds    *)
(* until a handler writes a drive.  Both are the proved side of a property *)
(* that a run refutes.                                                     *)
(*                                                                         *)
(* Overdue motion is met: the watchdog waits for its tick, has a tick to   *)
(* take, or is at its stop, before the write or after it, and each bounds  *)
(* the time without a try.                                                 *)
(***************************************************************************)
EXTENDS CarRadio, EmergencyStop, MotionWatch, CarServerProofs

------------------------------------------------------------------------------
(* The network.                                                            *)

\* Everything that is sent, on its way or obeyed is in range and was asked for.
RadioInv ==
  /\ DriveInv
  /\ \A p \in Callers : call[p].step = "write" => call[p].drive \in Service!Sendable
  /\ uplink \subseteq Service!Sendable
  /\ downlink \subseteq Service!Sendable
  /\ motors \in Service!Sendable

\* What a step of the backend does to the calls: at most one of them goes on.
LEMMA ServiceSteps ==
  ASSUME [ServerNext]_vars
  PROVE  \/ \E k \in Conns, cmd \in Commands : Service!Drive(k, cmd)
         \/ \E p \in Callers : Service!Stop(p)
         \/ \E p \in Callers : Service!Write(p) \/ Service!WriteFails(p) \/ Service!Return(p)
         \/ UNCHANGED <<call, wire>>
PROOF
  BY DEF ServerNext, RunningNext, Handler, Message, Connect, ReceiveControl, ReceiveStop,
         ReceiveEmergencyStop, Disconnect, Check, WriteDatagram, WriteError, Finish,
         ReceiveTelemetry, Service!UpdateMotorTelemetry, Elapse, Service!ElapseService,
         Lifecycle, Signal, Shutdown, Exit, Fail, vars, serviceVars, Callers

LEMMA HaltIsSendable == Halt \in Service!Sendable
PROOF BY DEF Service!Sendable, Halt

\* A step of the service sets at most one caller's call, to a sendable command.
LEMMA BegunIsSendable ==
  ASSUME DriveInv, NEW p \in Callers, NEW c, call' = [call EXCEPT ![p] = c],
         c.step = "write" => c.drive \in Service!Sendable,
         \A q \in Callers : call[q].step = "write" => call[q].drive \in Service!Sendable
  PROVE  \A q \in Callers : call'[q].step = "write" => call'[q].drive \in Service!Sendable
PROOF BY DEF DriveInv

LEMMA ServerStepIsSendable ==
  ASSUME DriveInv, [ServerNext]_vars,
         \A p \in Callers : call[p].step = "write" => call[p].drive \in Service!Sendable
  PROVE  \A p \in Callers : call'[p].step = "write" => call'[p].drive \in Service!Sendable
PROOF
<1>1. ASSUME NEW k \in Conns, NEW cmd \in Commands, Service!Drive(k, cmd)
      PROVE  \A p \in Callers : call'[p].step = "write" => call'[p].drive \in Service!Sendable
  <2>1. k \in Callers
    BY DEF Callers
  <2>2. CASE Service!Valid(cmd)
    <3>1. cmd \in Service!Sendable
      BY <2>2, ServerAssumption DEF Service!Valid, Service!Sendable
    <3>2. call' = [call EXCEPT ![k] = [step |-> "write", drive |-> cmd]]
      BY <1>1, <2>2 DEF Service!Drive
    <3> QED
      BY <2>1, <3>1, <3>2, BegunIsSendable
  <2>3. CASE ~Service!Valid(cmd)
    <3>1. call' = [call EXCEPT ![k] = [step |-> "reject", drive |-> Halt]]
      BY <1>1, <2>3 DEF Service!Drive, Halt
    <3> QED
      BY <2>1, <3>1, BegunIsSendable
  <2> QED
    BY <2>2, <2>3
<1>2. ASSUME NEW p \in Callers, Service!Stop(p)
      PROVE  \A q \in Callers : call'[q].step = "write" => call'[q].drive \in Service!Sendable
  <2>1. call' = [call EXCEPT ![p] = [step |-> "write", drive |-> Halt]]
    BY <1>2 DEF Service!Stop, Halt
  <2> QED
    BY <2>1, HaltIsSendable, BegunIsSendable
<1>3. ASSUME NEW p \in Callers, Service!Write(p) \/ Service!WriteFails(p) \/ Service!Return(p)
      PROVE  \A q \in Callers : call'[q].step = "write" => call'[q].drive \in Service!Sendable
  <2>1. \/ call' = [call EXCEPT ![p] = [call[p] EXCEPT !.step = "commit"]]
        \/ call' = [call EXCEPT ![p] = [step |-> "fail", drive |-> Halt]]
        \/ call' = [call EXCEPT ![p] = [step |-> "idle", drive |-> Halt]]
    BY <1>3
    DEF Service!Write, Service!WriteFails, Service!Return, Service!Commit,
        Service!SetMotorError, Service!SetInvalidCommand, Service!Idle, Halt
  <2>2. [call[p] EXCEPT !.step = "commit"].step = "commit"
    BY DEF DriveInv, Calls
  <2> QED
    BY <2>1, <2>2, BegunIsSendable
<1> QED
  BY <1>1, <1>2, <1>3, ServiceSteps

\* What happens outside the backend is no step of it, and a report that arrives is one
\* the listener may get.
LEMMA RadioStepIsServerStep ==
  ASSUME RadioInv, [RadioNext]_<<vars, radioVars>>
  PROVE  [ServerNext]_vars
PROOF
<1>1. ASSUME NEW p \in Callers, Transmit(p)
      PROVE  ServerNext
  BY <1>1 DEF Transmit, ServerNext, RunningNext
<1>2. ASSUME NEW report \in downlink, ReceiveReport(report)
      PROVE  ServerNext
  <2>1. report \in Reports
    BY RadioAssumption DEF RadioInv
  <2> QED
    BY <1>2, <2>1 DEF ReceiveReport, ServerNext, RunningNext
<1>3. CASE Inside
  BY <1>3 DEF Inside, ServerNext, RunningNext
<1>4. CASE \/ \E cmd \in uplink : Apply(cmd)
           \/ Report
           \/ Lose
           \/ UNCHANGED <<vars, radioVars>>
  BY <1>4 DEF Apply, Report, Lose
<1> QED
  BY <1>1, <1>2, <1>3, <1>4 DEF RadioNext

LEMMA RadioInitInv == RadioInit => RadioInv
PROOF
<1> SUFFICES ASSUME RadioInit PROVE RadioInv
  OBVIOUS
<1>1. call = [p \in Callers |-> [step |-> "idle", drive |-> Halt]]
  BY DEF RadioInit, ServerInit, Service!ServiceInit, Service!Idle, Halt
<1> QED
  BY <1>1, ServerInitInv, HaltIsSendable DEF RadioInit, RadioInv

LEMMA RadioStepInv == RadioInv /\ [RadioNext]_<<vars, radioVars>> => RadioInv'
PROOF
<1> SUFFICES ASSUME RadioInv, [RadioNext]_<<vars, radioVars>> PROVE RadioInv'
  OBVIOUS
<1>1. [ServerNext]_vars
  BY RadioStepIsServerStep
<1>2. DriveInv'
  BY <1>1, ServerStepInv DEF RadioInv
<1>3. \A p \in Callers : call'[p].step = "write" => call'[p].drive \in Service!Sendable
  BY <1>1, ServerStepIsSendable DEF RadioInv
<1>4. ASSUME NEW p \in Callers, Transmit(p)
      PROVE  uplink' \subseteq Service!Sendable /\ UNCHANGED <<motors, downlink>>
  <2>1. call[p].step = "write"
    BY <1>4 DEF Transmit, WriteDatagram, Service!Write
  <2> QED
    BY <1>4, <2>1 DEF Transmit, RadioInv
<1>5. /\ uplink' \subseteq Service!Sendable
      /\ downlink' \subseteq Service!Sendable
      /\ motors' \in Service!Sendable
  BY <1>4 DEF RadioInv, RadioNext, Apply, Report, ReceiveReport, Lose, Inside, radioVars
<1> QED
  BY <1>2, <1>3, <1>5 DEF RadioInv, Service!Sendable

LEMMA RadioInvAlways == RadioSpec => []RadioInv
PROOF BY RadioInitInv, RadioStepInv, PTL DEF RadioSpec

\* The backend at the end of a network that loses, reorders and delays is the backend
\* of CarServer: nothing the car or the network does is a step it could not take.
THEOREM RadioImplementsServer == RadioSpec => ServerSpec
PROOF
<1>1. RadioInit => ServerInit
  BY DEF RadioInit
<1> QED
  BY <1>1, RadioInvAlways, RadioStepIsServerStep, PTL DEF RadioSpec, ServerSpec

\* At the car: whatever the network does, the motors run only at a speed that was asked
\* for and is in range.
THEOREM RadioTypeOKAlways == RadioSpec => []RadioTypeOK
PROOF
<1>1. RadioInv /\ ServerTypeOK => RadioTypeOK
  BY DEF RadioInv, RadioTypeOK
<1> QED
  BY <1>1, RadioInvAlways, RadioImplementsServer, ServerTypeOKAlways, PTL

\* Over that network a client that has left has the car told to stand, as in CarServer.
THEOREM RadioDepartedOwnerParked == RadioSpec => []DepartedOwnerParked
PROOF BY RadioImplementsServer, DepartedOwnerParkedAlways, PTL

------------------------------------------------------------------------------
(* The emergency stop.                                                     *)

\* No drive is accepted and unsent.
NoneUnsent == \A j \in Conns : ~Unsent(j)

LoneInv ==
  /\ ParkInv
  /\ stopping \subseteq Conns /\ overlapped \subseteq stopping
  /\ \A k \in stopping : call[k].step \in {"write", "commit", "fail"} /\ call[k].drive = Halt
  /\ \A k \in stopping \ overlapped : NoneUnsent /\ (call[k].step = "commit" => wire = Halt)
  /\ alone => wire = Halt /\ NoneUnsent

LEMMA EmergencyStepIsServerStep ==
  [EmergencyNext]_<<vars, emergencyVars>> => [ServerNext]_vars
PROOF
<1> SUFFICES ASSUME EmergencyNext PROVE ServerNext
  OBVIOUS
<1>1. ASSUME NEW k \in Conns, NEW cmd \in Commands, Accept(k, cmd)
      PROVE  ServerNext
  BY <1>1 DEF Accept, ServerNext, RunningNext, Handler, Message
<1>2. ASSUME NEW k \in Conns, Press(k) \/ Connect(k) \/ ReceiveStop(k) \/ Disconnect(k)
      PROVE  ServerNext
  BY <1>2 DEF Press, ServerNext, RunningNext, Handler, Message
<1>3. ASSUME NEW p \in Callers, Answer(p) \/ Datagram(p) \/ WriteError(p)
      PROVE  ServerNext
  BY <1>3 DEF Answer, Datagram, ServerNext, RunningNext
<1>4. CASE \/ Terminate \/ Check \/ Elapse \/ Shutdown \/ Exit \/ Fail
           \/ \E r \in Reports : ReceiveTelemetry(r)
  BY <1>4 DEF Terminate, ServerNext, RunningNext, Lifecycle
<1> QED
  BY <1>1, <1>2, <1>3, <1>4 DEF EmergencyNext

LEMMA LoneInitInv == EmergencyInit => LoneInv
PROOF
<1>1. EmergencyInit => ParkInv
  BY ParkInit DEF EmergencyInit
<1> QED
  BY <1>1 DEF EmergencyInit, LoneInv

\* A step that begins no drive, writes nothing but a halt unless a drive is unsent, and
\* at most writes or fails the stops that are carried out.
LEMMA QuietStepKeepsLone ==
  ASSUME LoneInv, ParkInv', UNCHANGED stopVars,
         \A k \in Conns : Unsent(k)' => Unsent(k),
         NoneUnsent => wire' \in {wire, Halt},
         \A k \in stopping : \/ call'[k] = call[k]
                             \/ /\ call'[k].drive = Halt
                                /\ \/ call'[k].step = "fail"
                                   \/ call'[k].step = "commit" /\ wire' = Halt
  PROVE  LoneInv'
PROOF BY DEF LoneInv, NoneUnsent, stopVars, Halt, Service!Halt

\* One call goes on, and no other.
LEMMA OneCallMoves ==
  ASSUME LoneInv, NEW p \in Callers, NEW c, call' = [call EXCEPT ![p] = c]
  PROVE  \A q \in Callers : call'[q] = IF q = p THEN c ELSE call[q]
PROOF BY DEF LoneInv, ParkInv, DriveInv

\* Whoever is at rest carries out no emergency stop and has no drive to send.
LEMMA AtRest ==
  ASSUME LoneInv, NEW p \in Callers, ~Service!Busy(p)
  PROVE  p \notin stopping /\ ~Unsent(p)
PROOF BY DEF LoneInv, Unsent, Service!Busy

LEMMA StopKeepsLone ==
  ASSUME LoneInv, ParkInv', UNCHANGED stopVars, NEW p \in Callers, Service!Stop(p)
  PROVE  LoneInv'
PROOF
<1>1. /\ call' = [call EXCEPT ![p] = [step |-> "write", drive |-> Halt]]
      /\ wire' = wire /\ p \notin stopping
  BY AtRest DEF Service!Stop, Halt
<1>2. \A q \in Callers : call'[q] = IF q = p THEN [step |-> "write", drive |-> Halt] ELSE call[q]
  BY <1>1, OneCallMoves
<1>3. \A k \in Conns : Unsent(k)' => Unsent(k)
  BY <1>2 DEF Unsent, Callers, Halt, Service!Halt
<1>4. \A k \in stopping : call'[k] = call[k]
  BY <1>1, <1>2 DEF LoneInv, Callers
<1> QED
  BY <1>1, <1>3, <1>4, QuietStepKeepsLone

LEMMA SameCallsKeepLone ==
  ASSUME LoneInv, ParkInv', UNCHANGED stopVars, UNCHANGED <<call, wire>>
  PROVE  LoneInv'
PROOF
<1>1. \A k \in Conns : Unsent(k)' => Unsent(k)
  BY DEF Unsent, Halt, Service!Halt
<1> QED
  BY <1>1, QuietStepKeepsLone

LEMMA WriteKeepsLone ==
  ASSUME LoneInv, ParkInv', UNCHANGED stopVars, NEW p \in Callers,
         WriteDatagram(p) \/ WriteError(p)
  PROVE  LoneInv'
PROOF
<1>1. CASE WriteDatagram(p)
  <2>1. /\ call[p].step = "write" /\ wire' = call[p].drive
        /\ call' = [call EXCEPT ![p] = [call[p] EXCEPT !.step = "commit"]]
    BY <1>1 DEF WriteDatagram, Service!Write
  <2>2. \A q \in Callers : /\ q # p => call'[q] = call[q]
                           /\ call'[p].step = "commit" /\ call'[p].drive = call[p].drive
    BY <2>1 DEF LoneInv, ParkInv, DriveInv, Calls
  <2>3. NoneUnsent => wire' = Halt
    <3>1. call[p].drive # Halt => p \in Conns
      BY DEF LoneInv, ParkInv, HandlersDrive, ServerTypeOK
    <3> QED
      BY <2>1, <3>1 DEF NoneUnsent, Unsent
  <2>4. \A k \in Conns : Unsent(k)' => Unsent(k)
    BY <2>2 DEF Unsent, Callers, Halt, Service!Halt
  <2>5. ASSUME NEW k \in stopping
        PROVE  \/ call'[k] = call[k]
               \/ call'[k].drive = Halt /\ call'[k].step = "commit" /\ wire' = Halt
    <3>1. k \in Callers /\ call[k].drive = Halt
      BY DEF LoneInv, Callers
    <3> QED
      BY <2>1, <2>2, <3>1
  <2> QED
    BY <2>3, <2>4, <2>5, QuietStepKeepsLone
<1>2. CASE WriteError(p)
  <2>1. wire' = wire /\ call' = [call EXCEPT ![p] = [step |-> "fail", drive |-> Halt]]
    BY <1>2 DEF WriteError, Service!WriteFails, Halt
  <2>2. \A q \in Callers : call'[q] = IF q = p THEN [step |-> "fail", drive |-> Halt] ELSE call[q]
    BY <2>1, OneCallMoves
  <2>3. \A k \in Conns : Unsent(k)' => Unsent(k)
    BY <2>2 DEF Unsent, Callers, Halt, Service!Halt
  <2>4. \A k \in stopping : \/ call'[k] = call[k]
                            \/ call'[k].drive = Halt /\ call'[k].step = "fail"
    BY <2>2 DEF LoneInv, Callers
  <2> QED
    BY <2>1, <2>3, <2>4, QuietStepKeepsLone
<1> QED
  BY <1>1, <1>2

\* A drive that is accepted overlaps every stop under way, and ends what a stop achieved.
LEMMA AcceptKeepsLone ==
  ASSUME LoneInv, ParkInv', NEW k \in Conns, NEW cmd \in Commands, Accept(k, cmd)
  PROVE  LoneInv'
PROOF
<1>1. k \in Callers /\ k \notin stopping /\ ~Unsent(k)
  BY AtRest DEF Accept, ReceiveControl, Reading, Callers
<1>2. UNCHANGED serviceVars \/ Service!Drive(k, cmd)
  BY DEF Accept, ReceiveControl
<1>3. wire' = wire /\ \A q \in Callers \ {k} : call'[q] = call[q]
  BY <1>2 DEF Service!Drive, serviceVars, LoneInv, ParkInv, DriveInv
<1>4. \A j \in stopping : call'[j] = call[j]
  BY <1>1, <1>3 DEF LoneInv, Callers
<1>5. stopping' = stopping
  BY DEF Accept
<1>6. CASE Unsent(k)'
  <2>1. overlapped' = stopping /\ ~alone'
    BY <1>6 DEF Accept
  <2> QED
    BY <1>4, <1>5, <2>1 DEF LoneInv, Halt, Service!Halt
<1>7. CASE ~Unsent(k)'
  <2>1. overlapped' = overlapped /\ (alone' => alone)
    BY <1>7 DEF Accept
  <2>2. \A j \in Conns : Unsent(j)' => Unsent(j)
    BY <1>3, <1>7 DEF Unsent, Callers, Halt, Service!Halt
  <2> QED
    BY <1>3, <1>4, <1>5, <2>1, <2>2 DEF LoneInv, NoneUnsent, Halt, Service!Halt
<1> QED
  BY <1>6, <1>7

LEMMA PressKeepsLone ==
  ASSUME LoneInv, ParkInv', NEW k \in Conns, Press(k)
  PROVE  LoneInv'
PROOF
<1>1. k \in Callers /\ k \notin stopping /\ ~Unsent(k) /\ Service!Stop(k)
  BY AtRest DEF Press, ReceiveEmergencyStop, Reading, Callers
<1>2. wire' = wire /\ call' = [call EXCEPT ![k] = [step |-> "write", drive |-> Halt]]
  BY <1>1 DEF Service!Stop, Halt
<1>3. \A q \in Callers : call'[q] = IF q = k THEN [step |-> "write", drive |-> Halt] ELSE call[q]
  BY <1>1, <1>2, OneCallMoves
<1>4. NoneUnsent => NoneUnsent'
  BY <1>3 DEF NoneUnsent, Unsent, Callers, Halt, Service!Halt
<1>5. /\ stopping' = stopping \cup {k} /\ alone' = alone
      /\ overlapped' = IF NoneUnsent THEN overlapped ELSE overlapped \cup {k}
  BY DEF Press, NoneUnsent
<1>6. stopping' \subseteq Conns /\ overlapped' \subseteq stopping'
  BY <1>5 DEF LoneInv
<1>7. \A j \in stopping' : call'[j].step \in {"write", "commit", "fail"} /\ call'[j].drive = Halt
  BY <1>3, <1>5, <1>6 DEF LoneInv, Callers
<1>8. ASSUME NEW j \in stopping' \ overlapped'
      PROVE  NoneUnsent' /\ (call'[j].step = "commit" => wire' = Halt)
  <2>1. j \in Callers
    BY <1>6 DEF Callers
  <2>2. CASE j = k
    BY <1>1, <1>3, <1>4, <1>5, <2>1, <2>2 DEF LoneInv
  <2>3. CASE j # k
    <3>1. j \in stopping \ overlapped /\ call'[j] = call[j]
      BY <1>3, <1>5, <2>1, <2>3
    <3> QED
      BY <1>2, <1>4, <3>1 DEF LoneInv
  <2> QED
    BY <2>2, <2>3
<1> QED
  BY <1>2, <1>4, <1>5, <1>6, <1>7, <1>8 DEF LoneInv, Halt, Service!Halt

LEMMA AnswerKeepsLone ==
  ASSUME LoneInv, ParkInv', NEW p \in Callers, Answer(p)
  PROVE  LoneInv'
PROOF
<1>1. wire' = wire /\ call' = [call EXCEPT ![p] = [step |-> "idle", drive |-> Halt]]
  BY DEF Answer, Finish, Service!Return, Service!Commit, Service!SetMotorError,
         Service!SetInvalidCommand, Service!Idle, Halt
<1>2. \A q \in Callers : call'[q] = IF q = p THEN [step |-> "idle", drive |-> Halt] ELSE call[q]
  BY <1>1, OneCallMoves
<1>3. NoneUnsent => NoneUnsent'
  BY <1>2 DEF NoneUnsent, Unsent, Callers, Halt, Service!Halt
<1>4. /\ stopping' = stopping \ {p} /\ overlapped' = overlapped \ {p}
      /\ alone' = (alone \/ (Succeeds(p) /\ p \notin overlapped))
  BY DEF Answer
<1>5. \A j \in stopping' : j \in stopping /\ call'[j] = call[j]
  BY <1>2, <1>4 DEF LoneInv, Callers
<1>6. alone' => wire' = Halt /\ NoneUnsent'
  BY <1>1, <1>3, <1>4 DEF LoneInv, Succeeds
<1> QED
  BY <1>1, <1>3, <1>4, <1>5, <1>6 DEF LoneInv, Halt, Service!Halt

THEOREM LoneStep == LoneInv /\ [EmergencyNext]_<<vars, emergencyVars>> => LoneInv'
PROOF
<1> SUFFICES ASSUME LoneInv, [EmergencyNext]_<<vars, emergencyVars>> PROVE LoneInv'
  OBVIOUS
<1>1. ParkInv'
  BY EmergencyStepIsServerStep, ParkStep DEF LoneInv
<1>2. ASSUME NEW k \in Conns, Connect(k) \/ ReceiveStop(k) \/ Disconnect(k),
             UNCHANGED emergencyVars
      PROVE  LoneInv'
  <2>1. Service!Stop(k) \/ UNCHANGED <<call, wire>>
    BY <1>2 DEF Connect, ReceiveStop, Disconnect, serviceVars
  <2> QED
    BY <1>1, <1>2, <2>1, StopKeepsLone, SameCallsKeepLone DEF Callers, emergencyVars
<1>3. ASSUME NEW p \in Callers, Datagram(p) \/ (WriteError(p) /\ UNCHANGED emergencyVars)
      PROVE  LoneInv'
  BY <1>1, <1>3, WriteKeepsLone DEF Datagram, emergencyVars
<1>4. CASE Terminate
  BY <1>1, <1>4, StopKeepsLone DEF Terminate, Signal, Callers
<1>5. CASE /\ \/ Check \/ Elapse \/ Shutdown \/ Exit \/ Fail
              \/ \E r \in Reports : ReceiveTelemetry(r)
              \/ UNCHANGED vars
           /\ UNCHANGED emergencyVars
  <2>1. Service!Stop(Watchdog) \/ UNCHANGED <<call, wire>>
    BY <1>5
    DEF Check, Elapse, Service!ElapseService, Shutdown, Exit, Fail, ReceiveTelemetry,
        Service!UpdateMotorTelemetry, vars, serviceVars
  <2> QED
    BY <1>1, <1>5, <2>1, StopKeepsLone, SameCallsKeepLone DEF Callers, emergencyVars
<1> QED
  BY <1>1, <1>2, <1>3, <1>4, <1>5, AcceptKeepsLone, PressKeepsLone, AnswerKeepsLone
  DEF EmergencyNext

\* An emergency stop that succeeds while no drive overlaps it has told the car to stand,
\* and it stays told until a drive is accepted: for any number of clients, connections
\* and stops.  EmergencyStopHolds, without the proviso, fails.
THEOREM LoneStopHoldsAlways == EmergencySpec => []LoneStopHolds
PROOF
<1>1. EmergencySpec => []LoneInv
  BY LoneInitInv, LoneStep, PTL DEF EmergencySpec
<1>2. LoneInv => LoneStopHolds
  BY DEF LoneInv, LoneStopHolds
<1> QED
  BY <1>1, <1>2, PTL

\* The emergency stops are followed in the backend of CarServer as it is.
THEOREM EmergencyImplementsServer == EmergencySpec => ServerSpec
PROOF
<1>1. EmergencyInit => ServerInit
  BY DEF EmergencyInit
<1> QED
  BY <1>1, EmergencyStepIsServerStep, PTL DEF EmergencySpec, ServerSpec

------------------------------------------------------------------------------
(* The stop of a shutdown.  It is over before Shutdown begins, and from    *)
(* its write on the car stands, or was driven, or a write has failed.      *)

\* Main has carried out its stop.
MainStopped ==
  app \in {"draining", "stopped"} \/ (app = "stopping" /\ call[Main].step # "write")

SignalInv == ParkInv /\ (MainStopped => wire = Halt \/ writeFailed \/ driven)

\* A step that leaves app and the wire alone, and main's call unless it has been written.
LEMMA QuietStepKeepsSignal ==
  ASSUME SignalInv, ParkInv', UNCHANGED <<app, wire, writeFailed, driven>>,
         call'[Main] = call[Main] \/ call[Main].step # "write"
  PROVE  SignalInv'
PROOF BY DEF SignalInv, MainStopped, Halt, Service!Halt

LEMMA SignalStep ==
  SignalInv /\ [EmergencyNext]_<<vars, emergencyVars>> => SignalInv'
PROOF
<1> SUFFICES ASSUME SignalInv, [EmergencyNext]_<<vars, emergencyVars>> PROVE SignalInv'
  OBVIOUS
<1>p. ParkInv'
  BY EmergencyStepIsServerStep, ParkStep DEF SignalInv
<1>t. /\ Main \in Callers /\ Main \notin Conns /\ Main # Watchdog
      /\ call \in [Callers -> Calls]
      /\ call[Main].drive = Halt
  <2>1. Main \in Callers /\ Main \notin Conns /\ Main # Watchdog
    BY ServerAssumption DEF Callers
  <2> QED
    BY <2>1 DEF SignalInv, ParkInv, DriveInv, HandlersDrive, ServerTypeOK
<1>1. ASSUME NEW k \in Conns,
             \/ \E cmd \in Commands : Accept(k, cmd)
             \/ Press(k)
             \/ (Connect(k) \/ ReceiveStop(k) \/ Disconnect(k)) /\ UNCHANGED emergencyVars
      PROVE  SignalInv'
  <2>1. UNCHANGED <<app, writeFailed, driven>>
    BY <1>1
    DEF Accept, Press, Connect, ReceiveControl, ReceiveStop, ReceiveEmergencyStop, Disconnect,
        serverVars, emergencyVars
  <2>2. \/ \E cmd \in Commands : Service!Drive(k, cmd)
        \/ Service!Stop(k)
        \/ UNCHANGED <<call, wire>>
    BY <1>1
    DEF Accept, Press, Connect, ReceiveControl, ReceiveStop, ReceiveEmergencyStop, Disconnect,
        serviceVars
  <2>3. wire' = wire /\ call'[Main] = call[Main]
    BY <1>t, <2>2 DEF Service!Drive, Service!Stop
  <2> QED
    BY <1>p, <2>1, <2>3, QuietStepKeepsSignal
<1>2. ASSUME NEW p \in Callers, Answer(p)
      PROVE  SignalInv'
  <2>1. /\ UNCHANGED <<app, wire, writeFailed, driven>>
        /\ call[p].step # "write" /\ call' = [call EXCEPT ![p] = Service!Idle]
    BY <1>2
    DEF Answer, Finish, Service!Return, Service!Commit, Service!SetMotorError,
        Service!SetInvalidCommand
  <2> QED
    BY <1>p, <1>t, <2>1, QuietStepKeepsSignal
<1>3. ASSUME NEW p \in Callers, Datagram(p)
      PROVE  SignalInv'
  <2>1. wire' = call[p].drive /\ driven' = (p # Main /\ (driven \/ call[p].drive # Halt))
    BY <1>3 DEF Datagram, WriteDatagram, Service!Write
  <2>2. wire' = Halt \/ driven'
    BY <1>t, <2>1
  <2> QED
    BY <1>p, <2>2 DEF SignalInv, Halt, Service!Halt
<1>4. ASSUME NEW p \in Callers, WriteError(p)
      PROVE  SignalInv'
  BY <1>p, <1>4 DEF SignalInv, WriteError
<1>5. CASE Terminate
  <2>1. app' = "stopping" /\ call' = [call EXCEPT ![Main] = [step |-> "write", drive |-> Halt]]
    BY <1>5 DEF Terminate, Signal, Service!Stop, Halt
  <2>2. ~MainStopped'
    BY <1>t, <2>1 DEF MainStopped
  <2> QED
    BY <1>p, <2>2 DEF SignalInv
<1>6. CASE (Check \/ Elapse \/ \E r \in Reports : ReceiveTelemetry(r)) /\ UNCHANGED emergencyVars
  <2>1. UNCHANGED <<app, writeFailed, driven>>
    BY <1>6 DEF Check, Elapse, ReceiveTelemetry, serverVars, emergencyVars
  <2>2. Service!Stop(Watchdog) \/ UNCHANGED <<call, wire>>
    BY <1>6
    DEF Check, Elapse, Service!ElapseService, ReceiveTelemetry, Service!UpdateMotorTelemetry,
        serviceVars
  <2>3. wire' = wire /\ call'[Main] = call[Main]
    BY <1>t, <2>2 DEF Service!Stop
  <2> QED
    BY <1>p, <2>1, <2>3, QuietStepKeepsSignal
<1>7. CASE (Shutdown \/ Exit \/ Fail) /\ UNCHANGED emergencyVars
  <2>1. MainStopped' => MainStopped
    BY <1>7 DEF Shutdown, Exit, Fail, MainStopped, Service!Busy
  <2>2. UNCHANGED <<wire, writeFailed, driven>>
    BY <1>7 DEF Shutdown, Exit, Fail, serviceVars, emergencyVars
  <2> QED
    BY <1>p, <2>1, <2>2 DEF SignalInv, Halt, Service!Halt
<1>8. CASE UNCHANGED <<vars, emergencyVars>>
  BY <1>p, <1>8, QuietStepKeepsSignal DEF vars, serviceVars, serverVars, emergencyVars
<1> QED
  BY <1>1, <1>2, <1>3, <1>4, <1>5, <1>6, <1>7, <1>8 DEF EmergencyNext

\* A backend that exits on a signal leaves a car that was told to stand, unless the last
\* write failed or a handler wrote a drive after main's stop: for any number of clients.
\* SignalParksCar, without the latter, fails.
THEOREM SignalParksUnlessDrivenAlways == EmergencySpec => []SignalParksUnlessDriven
PROOF
<1>1. EmergencyInit => SignalInv
  BY ParkInit DEF EmergencyInit, ServerInit, SignalInv, MainStopped
<1>2. EmergencySpec => []SignalInv
  BY <1>1, SignalStep, PTL DEF EmergencySpec
<1>3. SignalInv => SignalParksUnlessDriven
  BY DEF SignalInv, MainStopped, SignalParksUnlessDriven
<1> QED
  BY <1>2, <1>3, PTL

------------------------------------------------------------------------------
(* The port.  Handlers, watchdog and main goroutine send through the port  *)
(* that motor.Client is, and through nothing else.                         *)

\* Where the port sees a call.
PortAt(c) ==
  CASE c.step = "write" -> [step |-> "sending", drive |-> c.drive]
    [] c.step = "commit" -> [step |-> "sent"]
    [] c.step = "fail" -> [step |-> "failed"]
    [] OTHER -> [step |-> "idle"]

LEMMA PortAtSteps ==
  ASSUME NEW c
  PROVE  /\ c.step = "write" => PortAt(c) = [step |-> "sending", drive |-> c.drive]
         /\ c.step = "commit" => PortAt(c) = [step |-> "sent"]
         /\ c.step = "fail" => PortAt(c) = [step |-> "failed"]
         /\ c.step \in {"idle", "reject"} => PortAt(c) = [step |-> "idle"]
PROOF BY DEF PortAt

LEMMA HaltAtPort ==
  \A step \in {"idle", "reject"} : PortAt([step |-> step, drive |-> Halt]) = [step |-> "idle"]
PROOF BY PortAtSteps

LEMMA PortShows ==
  /\ Service!portOfCall = [p \in Callers |-> PortAt(call[p])]
  /\ Service!portOfCall' = [p \in Callers |-> PortAt(call'[p])]
PROOF BY DEF Service!portOfCall, PortAt

\* One call goes on, and the port sees that one go on.
LEMMA CallMovesPort ==
  ASSUME DriveInv, NEW p \in Callers, NEW c, call' = [call EXCEPT ![p] = c]
  PROVE  Service!portOfCall' = [Service!portOfCall EXCEPT ![p] = PortAt(c)]
PROOF
<1>1. \A q \in Callers : call'[q] = IF q = p THEN c ELSE call[q]
  BY DEF DriveInv
<1> QED
  BY <1>1, PortShows

LEMMA ServerStepIsPortStep ==
  ASSUME DriveInv, [ServerNext]_vars
  PROVE  [Service!Port!PortNext]_(Service!Port!portVars)
PROOF
<1> USE DEF Service!Port!PortNext, Service!Port!portVars
<1>1. \A p \in Callers : Service!portOfCall[p] = PortAt(call[p])
  BY PortShows
<1>2. ASSUME NEW p \in Callers, NEW cmd \in Service!Sendable, wire' = wire,
             call[p].step = "idle",
             call' = [call EXCEPT ![p] = [step |-> "write", drive |-> cmd]]
      PROVE  Service!Port!Submit(p, cmd)
  <2>1. Service!portOfCall[p] = [step |-> "idle"]
    BY <1>1, <1>2, PortAtSteps
  <2>2. Service!portOfCall' =
          [Service!portOfCall EXCEPT ![p] = [step |-> "sending", drive |-> cmd]]
    BY <1>2, CallMovesPort DEF PortAt
  <2> QED
    BY <1>2, <2>1, <2>2 DEF Service!Port!Submit
<1>3. ASSUME NEW k \in Conns, NEW cmd \in Commands, Service!Drive(k, cmd)
      PROVE  (\E p \in Callers, sent \in Service!Sendable : Service!Port!Submit(p, sent))
               \/ UNCHANGED Service!Port!portVars
  <2>1. k \in Callers /\ call[k].step = "idle" /\ wire' = wire
    BY <1>3 DEF Service!Drive, Service!Busy, Callers
  <2>2. CASE Service!Valid(cmd)
    <3>1. cmd \in Service!Sendable
      BY <2>2, ServerAssumption DEF Service!Valid, Service!Sendable
    <3>2. call' = [call EXCEPT ![k] = [step |-> "write", drive |-> cmd]]
      BY <1>3, <2>2 DEF Service!Drive
    <3> QED
      BY <1>2, <2>1, <3>1, <3>2
  <2>3. CASE ~Service!Valid(cmd)
    <3>1. call' = [call EXCEPT ![k] = [step |-> "reject", drive |-> Halt]]
      BY <1>3, <2>3 DEF Service!Drive, Halt
    <3>2. Service!portOfCall' = [Service!portOfCall EXCEPT ![k] = [step |-> "idle"]]
      BY <2>1, <3>1, CallMovesPort, HaltAtPort
    <3>3. Service!portOfCall[k] = [step |-> "idle"]
      BY <1>1, <2>1, PortAtSteps
    <3> QED
      BY <2>1, <3>2, <3>3 DEF Service!portOfCall
  <2> QED
    BY <2>2, <2>3
<1>4. ASSUME NEW p \in Callers, Service!Stop(p)
      PROVE  Service!Port!Submit(p, Halt)
  <2>1. call' = [call EXCEPT ![p] = [step |-> "write", drive |-> Halt]]
    BY <1>4 DEF Service!Stop, Halt
  <2> QED
    BY <1>2, <1>4, <2>1, HaltIsSendable DEF Service!Stop, Service!Busy
<1>5. ASSUME NEW p \in Callers, Service!Write(p)
      PROVE  Service!Port!Deliver(p)
  <2>1. Service!portOfCall[p] = [step |-> "sending", drive |-> call[p].drive]
    BY <1>1, <1>5, PortAtSteps DEF Service!Write
  <2>2. call' = [call EXCEPT ![p] = [call[p] EXCEPT !.step = "commit"]]
    BY <1>5 DEF Service!Write
  <2>3. [call[p] EXCEPT !.step = "commit"].step = "commit"
    BY DEF DriveInv, Calls
  <2>4. Service!portOfCall' = [Service!portOfCall EXCEPT ![p] = [step |-> "sent"]]
    BY <2>2, <2>3, CallMovesPort, PortAtSteps
  <2> QED
    BY <1>5, <2>1, <2>4 DEF Service!Port!Deliver, Service!Write
<1>6. ASSUME NEW p \in Callers, Service!WriteFails(p)
      PROVE  Service!Port!Refuse(p)
  <2>1. Service!portOfCall[p] = [step |-> "sending", drive |-> call[p].drive]
    BY <1>1, <1>6, PortAtSteps DEF Service!WriteFails
  <2>2. Service!portOfCall' = [Service!portOfCall EXCEPT ![p] = [step |-> "failed"]]
    BY <1>6, CallMovesPort DEF Service!WriteFails, PortAt
  <2> QED
    BY <1>6, <2>1, <2>2 DEF Service!Port!Refuse, Service!WriteFails
<1>7. ASSUME NEW p \in Callers, Service!Return(p)
      PROVE  Service!Port!Return(p) \/ UNCHANGED Service!Port!portVars
  <2>1. call' = [call EXCEPT ![p] = [step |-> "idle", drive |-> Halt]] /\ wire' = wire
    BY <1>7
    DEF Service!Return, Service!Commit, Service!SetMotorError, Service!SetInvalidCommand,
        Service!Idle, Halt
  <2>2. Service!portOfCall' = [Service!portOfCall EXCEPT ![p] = [step |-> "idle"]]
    BY <2>1, CallMovesPort, HaltAtPort
  <2>3. CASE call[p].step \in {"commit", "fail"}
    <3>1. Service!portOfCall[p].step \in {"sent", "failed"}
      BY <1>1, <2>3, PortAtSteps
    <3> QED
      BY <2>1, <2>2, <3>1 DEF Service!Port!Return
  <2>4. CASE call[p].step = "reject"
    <3>1. Service!portOfCall[p] = [step |-> "idle"]
      BY <1>1, <2>4, PortAtSteps
    <3> QED
      BY <2>1, <2>2, <3>1 DEF Service!portOfCall
  <2> QED
    BY <1>7, <2>3, <2>4
    DEF Service!Return, Service!Commit, Service!SetMotorError, Service!SetInvalidCommand
<1>8. CASE UNCHANGED <<call, wire>>
  BY <1>8 DEF Service!portOfCall
<1> QED
  BY <1>3, <1>4, <1>5, <1>6, <1>7, <1>8, HaltIsSendable, ServiceSteps

\* All of the backend's goroutines send through the port: what is shown of motor.Client,
\* which implements it, is all that CarServer takes for granted of the writes.
THEOREM ServerSendsThroughPort == ServerSpec => Service!SendsThroughPort
PROOF
<1>1. ServerInit => Service!Port!PortInit
  <2> SUFFICES ASSUME ServerInit PROVE Service!Port!PortInit
    OBVIOUS
  <2>1. call = [p \in Callers |-> [step |-> "idle", drive |-> Halt]] /\ wire = Halt
    BY DEF ServerInit, Service!ServiceInit, Service!Idle, Halt
  <2>2. Service!portOfCall = [p \in Callers |-> [step |-> "idle"]]
    BY <2>1 DEF Service!portOfCall
  <2> QED
    BY <2>1, <2>2, HaltIsSendable DEF Service!Port!PortInit
<1>2. ServerSpec => []DriveInv
  BY ServerInitInv, ServerStepInv, PTL DEF ServerSpec
<1> QED
  BY <1>1, <1>2, ServerStepIsPortStep, PTL
  DEF ServerSpec, Service!SendsThroughPort, Service!Port!PortSpec

------------------------------------------------------------------------------
(* The watchdog in time.  How long overdue motion may have gone unattended *)
(* follows what the watchdog is about: before its write, after it, with a  *)
(* tick to take, or before the next tick.                                  *)

CountLimit ==
  IF call[Watchdog].step = "write" THEN CheckLimit + stall[Watchdog]
  ELSE IF Service!Busy(Watchdog) THEN stall[Watchdog]
  ELSE IF tick THEN CheckLimit
  ELSE tickerAge

\* A call of the watchdog that no tick has fired in began after the last one.
Attended ==
  /\ unattended \in Nat
  /\ ~Overdue => unattended = 0
  /\ app = "running" =>
       /\ unattended <= CountLimit
       /\ Service!Busy(Watchdog) /\ ~tick => stall[Watchdog] <= tickerAge
       /\ ~Service!Busy(Watchdog) => stall[Watchdog] = 0

WatchInv == ParkInv /\ Attended

\* The terms of the limits are naturals.
LEMMA LimitTerms ==
  ASSUME ParkInv
  PROVE  /\ Period \in Nat \ {0} /\ MaxStall \in Nat
         /\ CheckLimit \in Nat /\ Period <= CheckLimit /\ MaxStall <= CheckLimit
         /\ tickerAge \in 0 .. Period - 1
         /\ stall[Watchdog] \in 0 .. MaxStall
         /\ CountLimit \in Nat
         /\ Watchdog \in Callers
PROOF
<1>1. /\ Period \in Nat \ {0} /\ MaxStall \in Nat
      /\ tickerAge \in 0 .. Period - 1
      /\ stall[Watchdog] \in 0 .. MaxStall
      /\ Watchdog \in Callers
  BY Horizons, ServerAssumption DEF ParkInv, ServerTypeOK, Callers
<1> QED
  BY <1>1 DEF CountLimit, CheckLimit

\* The ticker fires when its age would reach the period.
LEMMA TickerAdvances ==
  ASSUME ParkInv
  PROVE  (tickerAge + 1) % Period = IF tickerAge = Period - 1 THEN 0 ELSE tickerAge + 1
PROOF BY Horizons, LimitTerms

\* What a step does to the count.
LEMMA CountStep ==
  ASSUME Attended, Counts
  PROVE  /\ unattended' \in Nat
         /\ ~Overdue' => unattended' = 0
         /\ unattended' <= unattended + 1
         /\ ~Elapse => unattended' <= unattended
         /\ Tries => unattended' = 0
PROOF BY DEF Attended, Counts

LEMMA ElapseKeepsAttended ==
  ASSUME WatchInv, Elapse, Counts
  PROVE  Attended'
PROOF
<1> ParkInv /\ Attended
  BY DEF WatchInv
<1>1. unattended' \in Nat /\ (~Overdue' => unattended' = 0) /\ unattended' <= unattended + 1
  BY CountStep
<1>2. /\ app' = app /\ call' = call
      /\ tickerAge' = (tickerAge + 1) % Period
      /\ tick' = (tick \/ tickerAge' = 0)
      /\ stall' = [p \in Callers |-> IF Service!Busy(p) THEN stall[p] + 1 ELSE 0]
      /\ app = "running" /\ tick => Service!Busy(Watchdog)
  BY DEF Elapse, Service!ElapseService
<1>3. /\ Service!Busy(Watchdog)' = Service!Busy(Watchdog)
      /\ stall'[Watchdog] = IF Service!Busy(Watchdog) THEN stall[Watchdog] + 1 ELSE 0
  BY <1>2, LimitTerms DEF Service!Busy
<1>4. CASE app # "running"
  BY <1>1, <1>2, <1>4 DEF Attended
<1>5. CASE app = "running" /\ Service!Busy(Watchdog)
  <2>1. unattended \in Nat /\ unattended <= CountLimit /\ stall[Watchdog] \in Nat /\ CheckLimit \in Nat
    BY <1>5, LimitTerms DEF Attended
  <2>2. unattended' <= CountLimit'
    BY <1>1, <1>2, <1>3, <1>5, <2>1 DEF CountLimit, CheckLimit
  <2>3. ASSUME ~tick' PROVE stall'[Watchdog] <= tickerAge'
    <3>1. ~tick /\ tickerAge' = tickerAge + 1 /\ stall[Watchdog] <= tickerAge
      BY <1>2, <1>5, <2>3, TickerAdvances DEF Attended
    <3> QED
      BY <1>3, <1>5, <2>1, <3>1, LimitTerms
  <2> QED
    BY <1>1, <1>3, <1>5, <2>2, <2>3 DEF Attended
<1>6. CASE app = "running" /\ ~Service!Busy(Watchdog)
  <2>1. ~tick /\ call[Watchdog].step # "write" /\ unattended \in Nat /\ unattended <= tickerAge
    BY <1>2, <1>6 DEF Attended, CountLimit, Service!Busy
  <2>2. CASE tickerAge = Period - 1
    <3>1. CountLimit' = CheckLimit
      BY <1>2, <1>3, <1>6, <2>1, <2>2, TickerAdvances DEF CountLimit, CheckLimit
    <3>2. unattended' <= CheckLimit
      BY <1>1, <2>1, <2>2, LimitTerms
    <3> QED
      BY <1>1, <1>3, <1>6, <3>1, <3>2 DEF Attended
  <2>3. CASE tickerAge # Period - 1
    <3>1. tickerAge' = tickerAge + 1 /\ tickerAge' # 0
      BY <1>2, <2>3, TickerAdvances, LimitTerms
    <3>2. ~tick'
      BY <1>2, <2>1, <3>1
    <3>3. CountLimit' = tickerAge + 1
      BY <1>2, <1>3, <1>6, <2>1, <3>1, <3>2 DEF CountLimit
    <3>4. unattended' <= tickerAge + 1
      BY <1>1, <2>1, LimitTerms
    <3> QED
      BY <1>1, <1>3, <1>6, <3>3, <3>4 DEF Attended
  <2> QED
    BY <2>2, <2>3
<1> QED
  BY <1>4, <1>5, <1>6

\* A step that leaves the watchdog and its ticker alone.
LEMMA OthersKeepAttended ==
  ASSUME WatchInv, ~Elapse, Counts, app' = app,
         UNCHANGED <<tick, tickerAge, call[Watchdog], stall[Watchdog]>>
  PROVE  Attended'
PROOF
<1> ParkInv /\ Attended
  BY DEF WatchInv
<1>1. unattended' \in Nat /\ (~Overdue' => unattended' = 0) /\ unattended' <= unattended
  BY CountStep
<1>2. CountLimit' = CountLimit /\ Service!Busy(Watchdog)' = Service!Busy(Watchdog)
  BY DEF CountLimit, CheckLimit, Service!Busy
<1>3. app = "running" => unattended' <= CountLimit
  BY <1>1, LimitTerms DEF Attended
<1> QED
  BY <1>1, <1>2, <1>3 DEF Attended

\* A check that does not stop the motors has found no overdue motion.
LEMMA CheckKeepsAttended ==
  ASSUME WatchInv, ~Elapse, Counts, Check
  PROVE  Attended'
PROOF
<1> ParkInv /\ Attended
  BY DEF WatchInv
<1>1. unattended' \in Nat /\ (~Overdue' => unattended' = 0) /\ unattended' <= unattended
  BY CountStep
<1>2. /\ tick /\ ~Service!Busy(Watchdog) /\ ~tick'
      /\ UNCHANGED <<tickerAge, stall, app, drive, commandAge>>
  BY DEF Check, Service!Stop, serviceVars
<1>3. CASE app # "running"
  BY <1>1, <1>2, <1>3 DEF Attended
<1>4. CASE app = "running" /\ Stale /\ Service!Stop(Watchdog)
  <2>1. call'[Watchdog].step = "write"
    BY <1>4, LimitTerms DEF Service!Stop, ParkInv, DriveInv
  <2>2. unattended <= CheckLimit /\ stall'[Watchdog] = 0
    BY <1>2, <1>4 DEF Attended, CountLimit, Service!Busy
  <2>3. CountLimit' = CheckLimit
    BY <2>1, <2>2, LimitTerms DEF CountLimit, CheckLimit
  <2>4. unattended' <= CheckLimit
    BY <1>1, <2>2, LimitTerms DEF Attended
  <2>5. stall'[Watchdog] <= tickerAge' /\ Service!Busy(Watchdog)'
    BY <1>2, <2>1, <2>2, LimitTerms DEF Service!Busy
  <2> QED
    BY <1>1, <2>3, <2>4, <2>5 DEF Attended
<1>5. CASE app = "running" /\ ~Stale /\ UNCHANGED serviceVars
  <2>1. ~Overdue'
    BY <1>2, <1>5 DEF Stale, Overdue, Halt, Service!Halt
  <2>2. unattended' = 0
    BY <1>1, <2>1
  <2>3. CountLimit' = tickerAge /\ ~Service!Busy(Watchdog)'
    BY <1>2, <1>5 DEF CountLimit, Service!Busy, serviceVars
  <2>4. stall'[Watchdog] = 0
    BY <1>2, <1>5 DEF Attended
  <2> QED
    BY <1>1, <2>2, <2>3, <2>4, LimitTerms DEF Attended
<1> QED
  BY <1>3, <1>4, <1>5 DEF Check

\* What the watchdog does in the service: its write, and the end of its call.
LEMMA WatchdogKeepsAttended ==
  ASSUME WatchInv, ~Elapse, Counts, Tries \/ Finish(Watchdog)
  PROVE  Attended'
PROOF
<1> ParkInv /\ Attended
  BY DEF WatchInv
<1>1. unattended' \in Nat /\ (~Overdue' => unattended' = 0) /\ unattended' <= unattended
  BY CountStep
<1>2. CASE Tries
  <2>1. unattended' = 0
    BY <1>2, CountStep
  <2>2. call[Watchdog].step = "write" /\ call'[Watchdog].step \in {"commit", "fail"}
    BY <1>2, LimitTerms
    DEF Tries, WriteDatagram, WriteError, Service!Write, Service!WriteFails, ParkInv, DriveInv,
        Calls
  <2>3. UNCHANGED <<tick, tickerAge, stall, app>>
    BY <1>2 DEF Tries, WriteDatagram, WriteError
  <2>4. CountLimit' = stall[Watchdog] /\ Service!Busy(Watchdog)' /\ Service!Busy(Watchdog)
    BY <2>2, <2>3 DEF CountLimit, Service!Busy
  <2> QED
    BY <1>1, <2>1, <2>3, <2>4, LimitTerms DEF Attended
<1>3. CASE Finish(Watchdog)
  <2>1. /\ call[Watchdog].step \notin {"write", "idle"} /\ call'[Watchdog].step = "idle"
        /\ stall'[Watchdog] = 0
        /\ UNCHANGED <<tick, tickerAge, app>>
    BY <1>3, LimitTerms
    DEF Finish, Service!Return, Service!Commit, Service!SetMotorError,
        Service!SetInvalidCommand, Service!Idle, ParkInv, DriveInv
  <2>2. CASE app = "running"
    <3>1. unattended <= stall[Watchdog] /\ (~tick => stall[Watchdog] <= tickerAge)
      BY <2>1, <2>2 DEF Attended, CountLimit, Service!Busy
    <3>2. CountLimit' = (IF tick THEN CheckLimit ELSE tickerAge) /\ ~Service!Busy(Watchdog)'
      BY <2>1 DEF CountLimit, CheckLimit, Service!Busy
    <3>3. unattended' <= CountLimit'
      BY <1>1, <3>1, <3>2, LimitTerms DEF Attended
    <3> QED
      BY <1>1, <2>1, <3>2, <3>3 DEF Attended
  <2>3. CASE app # "running"
    BY <1>1, <2>1, <2>3 DEF Attended
  <2> QED
    BY <2>2, <2>3
<1> QED
  BY <1>2, <1>3

\* What the other callers do in the service.
LEMMA CallersKeepAttended ==
  ASSUME WatchInv, ~Elapse, Counts, NEW p \in Callers \ {Watchdog},
         \/ Handler(p) /\ p \in Conns
         \/ WriteDatagram(p) \/ WriteError(p) \/ Finish(p)
  PROVE  Attended'
PROOF
<1>1. UNCHANGED <<tick, tickerAge, app, stall[Watchdog]>>
  BY LimitTerms
  DEF Handler, Message, Connect, ReceiveControl, ReceiveStop, ReceiveEmergencyStop, Disconnect,
      serverVars, WriteDatagram, WriteError, Finish, WatchInv, ParkInv, DriveInv
<1>2. \/ UNCHANGED call
      \/ \E c : call' = [call EXCEPT ![p] = c]
  BY DEF Handler, Message, Connect, ReceiveControl, ReceiveStop, ReceiveEmergencyStop, Disconnect,
         WriteDatagram, WriteError, Finish, serviceVars, Service!Drive, Service!Stop,
         Service!Write, Service!WriteFails, Service!Return, Service!Commit,
         Service!SetMotorError, Service!SetInvalidCommand
<1>3. call'[Watchdog] = call[Watchdog]
  BY <1>2, LimitTerms DEF WatchInv, ParkInv, DriveInv
<1> QED
  BY <1>1, <1>3, OthersKeepAttended

THEOREM WatchStep == WatchInv /\ [ServerNext /\ Counts]_watchVars => WatchInv'
PROOF
<1> SUFFICES ASSUME WatchInv, [ServerNext /\ Counts]_watchVars PROVE WatchInv'
  OBVIOUS
<1>1. ParkInv'
  BY ParkStep DEF WatchInv, watchVars
<1> SUFFICES Attended'
  BY <1>1 DEF WatchInv
<1>2. CASE UNCHANGED watchVars
  BY <1>2
  DEF WatchInv, Attended, Overdue, CountLimit, CheckLimit, Service!Busy, Halt, Service!Halt,
      watchVars, vars, serviceVars, serverVars
<1>3. CASE Elapse /\ Counts
  BY <1>3, ElapseKeepsAttended
<1>4. CASE ServerNext /\ Counts /\ ~Elapse
  <2>1. ASSUME NEW k \in Conns, Handler(k)
        PROVE  Attended'
    BY <1>4, <2>1, CallersKeepAttended, ServerAssumption DEF Callers
  <2>2. CASE Check
    BY <1>4, <2>2, CheckKeepsAttended
  <2>3. ASSUME NEW p \in Callers, WriteDatagram(p) \/ WriteError(p) \/ Finish(p)
        PROVE  Attended'
    BY <1>4, <2>3, CallersKeepAttended, WatchdogKeepsAttended DEF Tries
  <2>4. ASSUME NEW r \in Reports, ReceiveTelemetry(r)
        PROVE  Attended'
    BY <1>4, <2>4, OthersKeepAttended
    DEF ReceiveTelemetry, Service!UpdateMotorTelemetry, serverVars
  <2>5. CASE Lifecycle
    <3>1. app' # "running"
      BY <2>5 DEF Lifecycle, Signal, Shutdown, Exit, Fail
    <3> QED
      BY <1>4, <3>1, CountStep DEF WatchInv, Attended
  <2> QED
    BY <1>4, <2>1, <2>2, <2>3, <2>4, <2>5 DEF ServerNext, RunningNext
<1> QED
  BY <1>2, <1>3, <1>4

\* While the backend runs, motion without a command within the timeout meets a stop of the
\* watchdog, and another one for as long as it lasts, each within a period or a call and
\* the call that writes it: for all timeouts, and any clients, reports and failures.
THEOREM OverdueMotionIsMetAlways == WatchSpec => []OverdueMotionIsMet
PROOF
<1>1. WatchInit => WatchInv
  <2> SUFFICES ASSUME WatchInit PROVE WatchInv
    OBVIOUS
  <2>1. ParkInv
    BY ParkInit DEF WatchInit
  <2>2. ~Service!Busy(Watchdog) /\ ~tick /\ tickerAge = 0 /\ stall[Watchdog] = 0
        /\ call[Watchdog].step # "write"
    BY <2>1, LimitTerms DEF WatchInit, ServerInit, Service!ServiceInit, Service!Idle, Service!Busy
  <2> QED
    BY <2>1, <2>2 DEF WatchInv, Attended, CountLimit, WatchInit
<1>2. WatchSpec => []WatchInv
  BY <1>1, WatchStep, PTL DEF WatchSpec
<1>3. WatchInv => OverdueMotionIsMet
  <2> SUFFICES ASSUME WatchInv, app = "running" PROVE unattended <= CheckLimit + MaxStall
    BY DEF OverdueMotionIsMet, TryLimit
  <2>1. ParkInv /\ unattended \in Nat /\ unattended <= CountLimit
    BY DEF WatchInv, Attended
  <2>2. CountLimit <= CheckLimit + MaxStall
    BY <2>1, LimitTerms DEF CountLimit
  <2> QED
    BY <2>1, <2>2, LimitTerms
<1> QED
  BY <1>2, <1>3, PTL
==============================================================================
