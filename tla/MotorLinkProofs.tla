---------------------------- MODULE MotorLinkProofs ----------------------------
(***************************************************************************)
(* For every timeout, any callers, commands and reports: the record        *)
(* follows the wire as long as the last write and the last record are one  *)
(* call's; what is sent goes through the port that motor.Client is; the    *)
(* link is shown only on a recent confirmation.                            *)
(*                                                                         *)
(* RecordFollowsWriter alone is not inductive: the commit step sets the    *)
(* record from the caller's own command, so the invariant also says that   *)
(* this command is what the caller's datagram put on the wire.             *)
(*                                                                         *)
(* ConnectedWasConfirmed is not inductive: how old the confirmation may be *)
(* depends on how long ago the monitor looked.  SinceLook is that time,    *)
(* and LinkInv bounds the age by it.                                       *)
(***************************************************************************)
EXTENDS MotorLink, TLAPS

------------------------------------------------------------------------------
(* The record.                                                             *)

RecordInv == RecordTypeOK /\ UnrecordedIsWriters /\ RecordFollowsWriter

LEMMA OlderStays ==
  ASSUME NEW horizon \in Nat, NEW age \in 0 .. horizon \cup {Never}
  PROVE  Older(age, horizon) \in 0 .. horizon \cup {Never}
PROOF BY DEF Older

LEMMA HaltIsInRange == Halt \in Speed \X Speed
PROOF BY DEF Halt, Speed, MaxSpeed

\* Every step keeps the types; what is sent has passed validateDriveCommand.
LEMMA RecordStepTypeOK ==
  ASSUME RecordTypeOK, [RecordNext]_recordVars
  PROVE  RecordTypeOK'
PROOF
<1>1. ASSUME NEW p \in Callers, CallerStep(p)
      PROVE  RecordTypeOK'
  <2>1. CASE Write(p) /\ writer' = p /\ UNCHANGED recorder
    BY <2>1 DEF Write, RecordTypeOK, ServiceTypeOK
  <2>2. CASE Commit(p) /\ recorder' = p /\ UNCHANGED writer
    BY <2>2, HaltIsInRange, ServiceAssumption DEF Commit, Idle, RecordTypeOK, ServiceTypeOK
  <2>3. ASSUME NEW cmd \in Commands, Drive(p, cmd), UNCHANGED historyVars
        PROVE  RecordTypeOK'
    <3>1. Valid(cmd) => cmd \in Speed \X Speed
      BY ServiceAssumption DEF Valid
    <3> QED
      BY <2>3, <3>1, HaltIsInRange DEF Drive, historyVars, RecordTypeOK, ServiceTypeOK
  <2>4. CASE Stop(p) /\ UNCHANGED historyVars
    BY <2>4, HaltIsInRange DEF Stop, historyVars, RecordTypeOK, ServiceTypeOK
  <2>5. CASE WriteFails(p) /\ UNCHANGED historyVars
    BY <2>5, HaltIsInRange DEF WriteFails, historyVars, RecordTypeOK, ServiceTypeOK
  <2>6. CASE SetMotorError(p) /\ UNCHANGED historyVars
    BY <2>6, HaltIsInRange DEF SetMotorError, Idle, historyVars, RecordTypeOK, ServiceTypeOK
  <2>7. CASE SetInvalidCommand(p) /\ UNCHANGED historyVars
    BY <2>7, HaltIsInRange
    DEF SetInvalidCommand, Idle, historyVars, RecordTypeOK, ServiceTypeOK
  <2> QED
    BY <1>1, <2>1, <2>2, <2>3, <2>4, <2>5, <2>6, <2>7 DEF CallerStep, Begin
<1>2. ASSUME NEW r \in Reports, RecordPacket(r)
      PROVE  RecordTypeOK'
  BY <1>2, ServiceAssumption
  DEF RecordPacket, UpdateMotorTelemetry, RecordTypeOK, ServiceTypeOK
<1>3. ASSUME NEW connected \in BOOLEAN, SetMotorConnected(connected), UNCHANGED historyVars
      PROVE  RecordTypeOK'
  BY <1>3 DEF SetMotorConnected, historyVars, RecordTypeOK, ServiceTypeOK
<1>4. CASE ElapseService /\ UNCHANGED historyVars
  BY <1>4, OlderStays, ServiceAssumption
  DEF ElapseService, historyVars, RecordTypeOK, ServiceTypeOK
<1>5. CASE UNCHANGED recordVars
  BY <1>5 DEF recordVars, historyVars, serviceVars, RecordTypeOK, ServiceTypeOK
<1> QED
  BY <1>1, <1>2, <1>3, <1>4, <1>5 DEF RecordNext

\* A caller's step that neither writes nor records sends no caller to the commit
\* step or away from it.
LEMMA QuietStepKeeps ==
  ASSUME RecordTypeOK, NEW p \in Callers,
         Begin(p) \/ WriteFails(p) \/ SetMotorError(p) \/ SetInvalidCommand(p)
  PROVE  /\ wire' = wire /\ drive' = drive
         /\ \A q \in Callers :
              /\ call'[q].step = "commit" <=> call[q].step = "commit"
              /\ call[q].step = "commit" => call'[q].drive = call[q].drive
PROOF
<1> USE DEF RecordTypeOK, ServiceTypeOK
<1>1. ASSUME NEW cmd \in Commands, Drive(p, cmd)
      PROVE  /\ wire' = wire /\ drive' = drive
             /\ \A q \in Callers :
                  /\ call'[q].step = "commit" <=> call[q].step = "commit"
                  /\ call[q].step = "commit" => call'[q].drive = call[q].drive
  BY <1>1 DEF Drive, Busy
<1>2. CASE Stop(p) \/ WriteFails(p) \/ SetMotorError(p) \/ SetInvalidCommand(p)
  BY <1>2 DEF Stop, WriteFails, SetMotorError, SetInvalidCommand, Busy, Idle
<1> QED
  BY <1>1, <1>2 DEF Begin

THEOREM RecordStepInv == RecordInv /\ [RecordNext]_recordVars => RecordInv'
PROOF
<1> SUFFICES ASSUME RecordInv, [RecordNext]_recordVars
             PROVE  RecordInv'
  OBVIOUS
<1>t. RecordTypeOK /\ RecordTypeOK'
  BY RecordStepTypeOK DEF RecordInv
<1>1. ASSUME NEW p \in Callers, Write(p), writer' = p, UNCHANGED recorder
      PROVE  UnrecordedIsWriters' /\ RecordFollowsWriter'
  BY <1>1, <1>t
  DEF Write, UnrecordedIsWriters, RecordFollowsWriter, RecordTypeOK, ServiceTypeOK
<1>2. ASSUME NEW p \in Callers, Commit(p), recorder' = p, UNCHANGED writer
      PROVE  UnrecordedIsWriters' /\ RecordFollowsWriter'
  <2>1. \A q \in Callers : call'[q].step = "commit" => q # p /\ call'[q] = call[q]
    BY <1>2, <1>t DEF Commit, Idle, RecordTypeOK, ServiceTypeOK
  <2>2. UnrecordedIsWriters'
    BY <1>2, <2>1 DEF Commit, RecordInv, UnrecordedIsWriters
  <2>3. writer = p => wire' = drive'
    BY <1>2 DEF Commit, RecordInv, UnrecordedIsWriters
  <2> QED
    BY <1>2, <2>2, <2>3 DEF RecordFollowsWriter
<1>3. ASSUME NEW p \in Callers, UNCHANGED historyVars,
             Begin(p) \/ WriteFails(p) \/ SetMotorError(p) \/ SetInvalidCommand(p)
      PROVE  UnrecordedIsWriters' /\ RecordFollowsWriter'
  <2>1. UnrecordedIsWriters'
    BY <1>3, <1>t, QuietStepKeeps DEF historyVars, RecordInv, UnrecordedIsWriters
  <2> QED
    BY <1>3, <1>t, <2>1, QuietStepKeeps DEF historyVars, RecordInv, RecordFollowsWriter
<1>4. ASSUME NEW r \in Reports, RecordPacket(r)
      PROVE  UnrecordedIsWriters' /\ RecordFollowsWriter'
  <2>1. writer # Listener
    BY <1>t, RecorderAssumption DEF RecordTypeOK
  <2> QED
    BY <1>4, <2>1
    DEF RecordPacket, UpdateMotorTelemetry, RecordInv, UnrecordedIsWriters,
        RecordFollowsWriter
<1>5. ASSUME \/ \E connected \in BOOLEAN : SetMotorConnected(connected)
             \/ ElapseService,
             UNCHANGED historyVars
      PROVE  UnrecordedIsWriters' /\ RecordFollowsWriter'
  <2>1. UNCHANGED <<drive, call, wire>>
    BY <1>5 DEF SetMotorConnected, ElapseService
  <2> QED
    BY <1>5, <2>1 DEF historyVars, RecordInv, UnrecordedIsWriters, RecordFollowsWriter
<1>6. CASE UNCHANGED recordVars
  BY <1>6, <1>t
  DEF recordVars, historyVars, serviceVars, RecordInv, UnrecordedIsWriters,
      RecordFollowsWriter
<1>7. ASSUME NEW p \in Callers, CallerStep(p)
      PROVE  UnrecordedIsWriters' /\ RecordFollowsWriter'
  BY <1>1, <1>2, <1>3, <1>7 DEF CallerStep
<1> QED
  BY <1>t, <1>4, <1>5, <1>6, <1>7 DEF RecordNext, RecordInv

THEOREM RecordInitInv == RecordInit => RecordInv
PROOF
<1> SUFFICES ASSUME RecordInit PROVE RecordInv
  OBVIOUS
<1>1. RecordTypeOK
  BY HaltIsInRange DEF RecordInit, ServiceInit, Idle, RecordTypeOK, ServiceTypeOK
<1> QED
  BY <1>1
  DEF RecordInit, ServiceInit, Idle, RecordInv, UnrecordedIsWriters, RecordFollowsWriter

\* Only overlapping calls, or telemetry, part the recorded speeds from the wire.
THEOREM RecordFollowsWriterAlways == RecordSpec => []RecordFollowsWriter
PROOF
<1>1. RecordSpec => []RecordInv
  BY RecordInitInv, RecordStepInv, PTL DEF RecordSpec
<1>2. RecordInv => RecordFollowsWriter
  BY DEF RecordInv
<1> QED
  BY <1>1, <1>2, PTL

\* No speed out of range leaves the backend.
THEOREM RecordTypeOKAlways == RecordSpec => []RecordTypeOK
PROOF
<1>1. RecordSpec => []RecordInv
  BY RecordInitInv, RecordStepInv, PTL DEF RecordSpec
<1>2. RecordInv => RecordTypeOK
  BY DEF RecordInv
<1> QED
  BY <1>1, <1>2, PTL

------------------------------------------------------------------------------
(* The port.  Every step of the service is a step of the port it sends     *)
(* through, or none.                                                       *)

\* Where the port sees a call.
PortAt(c) ==
  CASE c.step = "write" -> [step |-> "sending", drive |-> c.drive]
    [] c.step = "commit" -> [step |-> "sent"]
    [] c.step = "fail" -> [step |-> "failed"]
    [] OTHER -> [step |-> "idle"]

LEMMA PortAtSteps ==
  ASSUME NEW c
  PROVE  /\ c.step = "write" => PortAt(c) = [step |-> "sending", drive |-> c.drive]
         /\ c.step = "commit" => PortAt(c) = [step |-> "sent"]
         /\ c.step = "fail" => PortAt(c) = [step |-> "failed"]
         /\ c.step \in {"idle", "reject"} => PortAt(c) = [step |-> "idle"]
PROOF BY DEF PortAt

LEMMA IdleAtPort == PortAt(Idle) = [step |-> "idle"]
PROOF
<1>1. Idle.step = "idle"
  BY DEF Idle
<1> QED
  BY <1>1, PortAtSteps

LEMMA PortShows ==
  /\ portOfCall = [p \in Callers |-> PortAt(call[p])]
  /\ portOfCall' = [p \in Callers |-> PortAt(call'[p])]
PROOF BY DEF portOfCall, PortAt

\* One call goes on, and the port sees that one go on.
LEMMA CallMovesPort ==
  ASSUME RecordTypeOK, NEW p \in Callers, NEW c, call' = [call EXCEPT ![p] = c]
  PROVE  portOfCall' = [portOfCall EXCEPT ![p] = PortAt(c)]
PROOF
<1>1. \A q \in Callers : call'[q] = IF q = p THEN c ELSE call[q]
  BY DEF RecordTypeOK, ServiceTypeOK
<1> QED
  BY <1>1, PortShows

LEMMA HaltIsSendable == Halt \in Sendable
PROOF BY DEF Sendable

LEMMA CallerStepIsPortStep ==
  ASSUME RecordTypeOK, NEW p \in Callers, CallerStep(p)
  PROVE  [Port!PortNext]_(Port!portVars)
PROOF
<1> USE DEF Port!PortNext, Port!portVars
<1>1. portOfCall[p] = PortAt(call[p])
  BY PortShows
<1>2. ASSUME NEW cmd \in Commands, Drive(p, cmd)
      PROVE  (\E sent \in Sendable : Port!Submit(p, sent)) \/ UNCHANGED Port!portVars
  <2>1. portOfCall[p] = [step |-> "idle"] /\ wire' = wire
    BY <1>1, <1>2 DEF Drive, Busy, PortAt
  <2>2. CASE Valid(cmd)
    <3>1. cmd \in Sendable
      BY <2>2, ServiceAssumption DEF Valid, Sendable
    <3>2. portOfCall' = [portOfCall EXCEPT ![p] = PortAt([step |-> "write", drive |-> cmd])]
      BY <1>2, <2>2, CallMovesPort DEF Drive
    <3>3. Port!Submit(p, cmd)
      BY <2>1, <3>2 DEF Port!Submit, PortAt
    <3> QED
      BY <3>1, <3>3
  <2>3. CASE ~Valid(cmd)
    <3>1. portOfCall' = [portOfCall EXCEPT ![p] = PortAt([step |-> "reject", drive |-> Halt])]
      BY <1>2, <2>3, CallMovesPort DEF Drive
    <3>2. portOfCall' = portOfCall
      BY <2>1, <3>1 DEF PortAt, portOfCall
    <3> QED
      BY <2>1, <3>2
  <2> QED
    BY <2>2, <2>3
<1>3. ASSUME Stop(p)
      PROVE  Port!Submit(p, Halt)
  <2>1. portOfCall[p] = [step |-> "idle"]
    BY <1>1, <1>3 DEF Stop, Busy, PortAt
  <2>2. portOfCall' = [portOfCall EXCEPT ![p] = PortAt([step |-> "write", drive |-> Halt])]
    BY <1>3, CallMovesPort DEF Stop
  <2> QED
    BY <1>3, <2>1, <2>2 DEF Port!Submit, PortAt, Stop
<1>4. ASSUME Write(p)
      PROVE  Port!Deliver(p)
  <2>1. portOfCall[p] = [step |-> "sending", drive |-> call[p].drive]
    BY <1>1, <1>4 DEF Write, PortAt
  <2>2. call' = [call EXCEPT ![p] = [call[p] EXCEPT !.step = "commit"]]
    BY <1>4 DEF Write
  <2>3. [call[p] EXCEPT !.step = "commit"].step = "commit"
    BY DEF RecordTypeOK, ServiceTypeOK
  <2>4. portOfCall' = [portOfCall EXCEPT ![p] = [step |-> "sent"]]
    BY <2>2, <2>3, CallMovesPort, PortAtSteps
  <2> QED
    BY <1>4, <2>1, <2>4 DEF Port!Deliver, Write
<1>5. ASSUME WriteFails(p)
      PROVE  Port!Refuse(p)
  <2>1. portOfCall[p] = [step |-> "sending", drive |-> call[p].drive]
    BY <1>1, <1>5 DEF WriteFails, PortAt
  <2>2. portOfCall' = [portOfCall EXCEPT ![p] = [step |-> "failed"]]
    BY <1>5, CallMovesPort DEF WriteFails, PortAt
  <2> QED
    BY <1>5, <2>1, <2>2 DEF Port!Refuse, WriteFails
<1>6. ASSUME Commit(p) \/ SetMotorError(p)
      PROVE  Port!Return(p)
  <2>1. portOfCall[p].step \in {"sent", "failed"}
    BY <1>1, <1>6 DEF Commit, SetMotorError, PortAt
  <2>2. call' = [call EXCEPT ![p] = Idle]
    BY <1>6 DEF Commit, SetMotorError
  <2>3. portOfCall' = [portOfCall EXCEPT ![p] = [step |-> "idle"]]
    BY <2>2, CallMovesPort, IdleAtPort
  <2> QED
    BY <1>6, <2>1, <2>3 DEF Port!Return, Commit, SetMotorError
<1>7. ASSUME SetInvalidCommand(p)
      PROVE  UNCHANGED Port!portVars
  <2>1. portOfCall[p] = [step |-> "idle"]
    BY <1>1, <1>7 DEF SetInvalidCommand, PortAt
  <2>2. call' = [call EXCEPT ![p] = Idle]
    BY <1>7 DEF SetInvalidCommand
  <2>3. portOfCall' = [portOfCall EXCEPT ![p] = [step |-> "idle"]]
    BY <2>2, CallMovesPort, IdleAtPort
  <2>4. portOfCall' = portOfCall
    BY <2>1, <2>3 DEF portOfCall
  <2> QED
    BY <1>7, <2>4 DEF SetInvalidCommand
<1> QED
  BY <1>2, <1>3, <1>4, <1>5, <1>6, <1>7, HaltIsSendable DEF CallerStep, Begin

THEOREM RecordStepIsPortStep == RecordTypeOK /\ [RecordNext]_recordVars => [Port!PortNext]_(Port!portVars)
PROOF
<1> SUFFICES ASSUME RecordTypeOK, [RecordNext]_recordVars
             PROVE  [Port!PortNext]_(Port!portVars)
  OBVIOUS
<1>1. CASE \E p \in Callers : CallerStep(p)
  BY <1>1, CallerStepIsPortStep
<1>2. CASE ~\E p \in Callers : CallerStep(p)
  <2>1. UNCHANGED <<call, wire>>
    BY <1>2
    DEF RecordNext, RecordPacket, UpdateMotorTelemetry, SetMotorConnected, ElapseService,
        recordVars, serviceVars
  <2> QED
    BY <2>1 DEF Port!portVars, portOfCall
<1> QED
  BY <1>1, <1>2

\* Whoever calls Drive and Stop, the service is a user of the port that motor.Client is.
THEOREM RecordSendsThroughPort == RecordSpec => SendsThroughPort
PROOF
<1>1. RecordInit => Port!PortInit
  BY HaltIsSendable DEF RecordInit, ServiceInit, Idle, portOfCall, Port!PortInit
<1> QED
  BY <1>1, RecordTypeOKAlways, RecordStepIsPortStep, PTL
  DEF RecordSpec, SendsThroughPort, Port!PortSpec

------------------------------------------------------------------------------
(* The link.                                                               *)

\* How long ago the monitor has last settled the flag.
SinceLook == IF linkTick \/ monitor = "lost" THEN LinkPeriod ELSE linkTickerAge

LinkInv ==
  /\ LinkTypeOK
  /\ linkTick \/ monitor = "lost" => linkTickerAge = 0
  /\ motorConnected => \/ Within(telemetryAge, MotorTimeout + SinceLook)
                       \/ Within(commandAge, SinceLook)

LEMMA PeriodIsPositive ==
  /\ LinkPeriod \in Nat \ {0}
  /\ MotorTimeout \in Nat
  /\ TelemetryHorizon \in Nat /\ CommandHorizon \in Nat
PROOF BY LinkAssumption, ServiceAssumption DEF LinkPeriod

\* An age within a limit below the horizon is within the next limit afterwards.
LEMMA WithinGrows ==
  ASSUME NEW horizon \in Nat, NEW age \in 0 .. horizon \cup {Never},
         NEW limit \in Nat, limit < horizon, Within(age, limit)
  PROVE  Within(Older(age, horizon), limit + 1)
PROOF BY ServiceAssumption DEF Within, Older

\* Packets, the monitor, commands and time do what MotionRecord allows.
THEOREM LinkStepRecords == [LinkNext]_<<recordVars, linkVars>> => [RecordNext]_recordVars
PROOF
<1> SUFFICES ASSUME [LinkNext]_<<recordVars, linkVars>> PROVE [RecordNext]_recordVars
  OBVIOUS
<1>1. CASE \E r \in Reports : HandlePacket(r)
  BY <1>1 DEF HandlePacket, RecordNext
<1>2. CASE TakeTick
  BY <1>2 DEF TakeTick
<1>3. CASE DeclareLost
  <2>1. SetMotorConnected(FALSE) /\ UNCHANGED historyVars
    BY <1>3 DEF DeclareLost
  <2> QED
    BY <2>1 DEF RecordNext
<1>4. CASE \E p \in Callers : Command(p)
  BY <1>4 DEF Command, RecordNext
<1>5. CASE Elapse
  BY <1>5 DEF Elapse, RecordNext, historyVars
<1>6. CASE UNCHANGED <<recordVars, linkVars>>
  BY <1>6
<1> QED
  BY <1>1, <1>2, <1>3, <1>4, <1>5, <1>6 DEF LinkNext

LEMMA LinkInitInv == LinkInit => LinkInv
PROOF
<1> SUFFICES ASSUME LinkInit PROVE LinkInv
  OBVIOUS
<1>1. RecordTypeOK
  BY RecordInitInv DEF LinkInit, RecordInv
<1>2. ~motorConnected
  BY DEF LinkInit, RecordInit, ServiceInit
<1>3. linkTickerAge = 0 /\ linkTickerAge \in 0 .. LinkPeriod - 1
  BY PeriodIsPositive DEF LinkInit
<1> QED
  BY <1>1, <1>2, <1>3 DEF LinkInit, LinkInv, LinkTypeOK

\* The steps that leave the monitor and its ticker alone confirm the link or
\* leave the flag and the ages, or clear the flag.
LEMMA FlagStepKeepsLinkInv ==
  ASSUME LinkInv, RecordTypeOK', UNCHANGED linkVars,
         \/ telemetryAge' = 0
         \/ commandAge' = 0
         \/ motorConnected' = FALSE
         \/ UNCHANGED <<motorConnected, telemetryAge, commandAge>>
  PROVE  LinkInv'
PROOF
<1>1. LinkTypeOK'
  BY DEF LinkInv, LinkTypeOK, linkVars
<1>2. SinceLook' = SinceLook /\ SinceLook \in Nat
  BY PeriodIsPositive DEF SinceLook, linkVars, LinkInv, LinkTypeOK
<1>3. motorConnected' => \/ Within(telemetryAge', MotorTimeout + SinceLook)
                         \/ Within(commandAge', SinceLook)
  <2>1. MotorTimeout + SinceLook \in Nat
    BY <1>2, PeriodIsPositive
  <2>2. \A limit \in Nat : 0 <= limit /\ 0 # Never
    BY ServiceAssumption
  <2>3. telemetryAge' = 0 => Within(telemetryAge', MotorTimeout + SinceLook)
    BY <2>1, <2>2 DEF Within
  <2>4. commandAge' = 0 => Within(commandAge', SinceLook)
    BY <1>2, <2>2 DEF Within
  <2>5. UNCHANGED <<motorConnected, telemetryAge, commandAge>> /\ motorConnected'
          => \/ Within(telemetryAge', MotorTimeout + SinceLook)
             \/ Within(commandAge', SinceLook)
    BY DEF LinkInv, Within
  <2> QED
    BY <2>3, <2>4, <2>5
<1> QED
  BY <1>1, <1>2, <1>3 DEF LinkInv, linkVars, Within

LEMMA CommandKeepsLinkInv ==
  ASSUME LinkInv, RecordTypeOK', NEW p \in Callers, Command(p)
  PROVE  LinkInv'
PROOF
<1>1. \/ commandAge' = 0
      \/ motorConnected' = FALSE
      \/ UNCHANGED <<motorConnected, telemetryAge, commandAge>>
  BY DEF Command, CallerStep, Begin, Drive, Stop, Write, WriteFails, Commit, SetMotorError,
         SetInvalidCommand
<1> QED
  BY <1>1, FlagStepKeepsLinkInv DEF Command

LEMMA TakeTickKeepsLinkInv ==
  ASSUME LinkInv, TakeTick
  PROVE  LinkInv'
PROOF
<1>1. LinkTypeOK'
  BY DEF LinkInv, LinkTypeOK, RecordTypeOK, ServiceTypeOK, TakeTick, recordVars,
         historyVars, serviceVars
<1>2. linkTickerAge = 0 /\ SinceLook = LinkPeriod
  BY DEF LinkInv, TakeTick, SinceLook
<1>3. CASE Silent
  <2>1. SinceLook' = SinceLook
    BY <1>2, <1>3 DEF TakeTick, SinceLook
  <2> QED
    BY <1>1, <1>2, <2>1 DEF LinkInv, TakeTick, recordVars, serviceVars, Within
<1>4. CASE ~Silent
  <2>1. SinceLook' = 0
    BY <1>2, <1>4 DEF TakeTick, SinceLook
  <2>2. Within(telemetryAge', MotorTimeout)
    BY <1>4, PeriodIsPositive
    DEF Silent, Within, TakeTick, recordVars, serviceVars, LinkInv, LinkTypeOK,
        RecordTypeOK, ServiceTypeOK
  <2>3. MotorTimeout + 0 = MotorTimeout
    BY PeriodIsPositive
  <2> QED
    BY <1>1, <1>2, <2>1, <2>2, <2>3 DEF LinkInv, TakeTick
<1> QED
  BY <1>3, <1>4

LEMMA DeclareLostKeepsLinkInv ==
  ASSUME LinkInv, RecordTypeOK', DeclareLost
  PROVE  LinkInv'
PROOF
  BY DEF LinkInv, LinkTypeOK, DeclareLost, SetMotorConnected

LEMMA LinkElapseKeepsLinkInv ==
  ASSUME LinkInv, RecordTypeOK', Elapse
  PROVE  LinkInv'
PROOF
<1>1. /\ linkTickerAge \in 0 .. LinkPeriod - 1
      /\ SinceLook = linkTickerAge
      /\ monitor' = monitor /\ monitor = "waiting"
  BY DEF LinkInv, LinkTypeOK, Elapse, SinceLook
<1>2. /\ linkTickerAge' = (IF linkTickerAge + 1 = LinkPeriod THEN 0 ELSE linkTickerAge + 1)
      /\ linkTick' = (linkTickerAge' = 0)
  BY <1>1, PeriodIsPositive DEF Elapse
<1>3. SinceLook' = SinceLook + 1 /\ SinceLook \in Nat /\ SinceLook + 1 <= LinkPeriod
  <2>1. CASE linkTickerAge + 1 = LinkPeriod
    <3>1. linkTick'
      BY <1>2, <2>1
    <3>2. SinceLook' = LinkPeriod'
      BY <3>1 DEF SinceLook
    <3> QED
      BY <1>1, <2>1, <3>2, PeriodIsPositive DEF LinkPeriod
  <2>2. CASE linkTickerAge + 1 # LinkPeriod
    <3>1. linkTickerAge' = linkTickerAge + 1 /\ linkTickerAge' # 0
      BY <1>1, <1>2, <2>2, PeriodIsPositive
    <3>2. ~linkTick'
      BY <1>2, <3>1
    <3>3. SinceLook' = linkTickerAge'
      BY <1>1, <3>2 DEF SinceLook
    <3> QED
      BY <1>1, <2>2, <3>1, <3>3, PeriodIsPositive
  <2> QED
    BY <2>1, <2>2
<1>4. LinkTypeOK'
  BY <1>1, <1>2, PeriodIsPositive DEF LinkTypeOK
<1>5. ASSUME motorConnected'
      PROVE  \/ Within(telemetryAge', MotorTimeout + SinceLook')
             \/ Within(commandAge', SinceLook')
  <2>1. motorConnected
    BY <1>5 DEF Elapse, ElapseService
  <2>2. /\ telemetryAge \in 0 .. TelemetryHorizon \cup {Never}
        /\ commandAge \in 0 .. CommandHorizon \cup {Never}
        /\ telemetryAge' = Older(telemetryAge, TelemetryHorizon)
        /\ commandAge' = Older(commandAge, CommandHorizon)
    BY DEF LinkInv, LinkTypeOK, RecordTypeOK, ServiceTypeOK, Elapse, ElapseService
  <2>3. CASE Within(telemetryAge, MotorTimeout + SinceLook)
    <3>1. MotorTimeout + SinceLook \in Nat /\ MotorTimeout + SinceLook < TelemetryHorizon
      BY <1>3, PeriodIsPositive, LinkAssumption
    <3>2. Within(telemetryAge', MotorTimeout + SinceLook + 1)
      BY <2>2, <2>3, <3>1, WithinGrows, PeriodIsPositive
    <3> QED
      BY <1>3, <3>2, PeriodIsPositive
  <2>4. CASE Within(commandAge, SinceLook)
    <3>1. SinceLook < CommandHorizon
      BY <1>3, PeriodIsPositive, LinkAssumption
    <3> QED
      BY <1>3, <2>2, <2>4, <3>1, WithinGrows, PeriodIsPositive
  <2> QED
    BY <2>1, <2>3, <2>4 DEF LinkInv
<1> QED
  BY <1>1, <1>2, <1>4, <1>5 DEF LinkInv

THEOREM LinkStepInv == LinkInv /\ [LinkNext]_<<recordVars, linkVars>> => LinkInv'
PROOF
<1> SUFFICES ASSUME LinkInv, [LinkNext]_<<recordVars, linkVars>> PROVE LinkInv'
  OBVIOUS
<1>1. RecordTypeOK'
  BY LinkStepRecords, RecordStepTypeOK DEF LinkInv, LinkTypeOK
<1>2. ASSUME NEW r \in Reports, HandlePacket(r)
      PROVE  LinkInv'
  <2>1. telemetryAge' = 0 /\ UNCHANGED linkVars
    BY <1>2 DEF HandlePacket, RecordPacket, UpdateMotorTelemetry
  <2> QED
    BY <1>1, <2>1, FlagStepKeepsLinkInv
<1>3. CASE UNCHANGED <<recordVars, linkVars>>
  <2>1. UNCHANGED <<motorConnected, telemetryAge, commandAge>> /\ UNCHANGED linkVars
    BY <1>3 DEF recordVars, serviceVars
  <2> QED
    BY <1>1, <2>1, FlagStepKeepsLinkInv
<1> QED
  BY <1>1, <1>2, <1>3, CommandKeepsLinkInv, TakeTickKeepsLinkInv, DeclareLostKeepsLinkInv,
     LinkElapseKeepsLinkInv
  DEF LinkNext

LEMMA LinkInvAlways == LinkSpec => []LinkInv
PROOF BY LinkInitInv, LinkStepInv, PTL DEF LinkSpec

\* Every variable keeps its type, with any number of callers.
THEOREM LinkTypeOKAlways == LinkSpec => []LinkTypeOK
PROOF
<1>1. LinkInv => LinkTypeOK
  BY DEF LinkInv
<1> QED
  BY <1>1, LinkInvAlways, PTL

\* A motor shown as connected has been confirmed within the timeout and a period of
\* the monitor by telemetry, or within a period by a command, for every timeout.
THEOREM ConnectedWasConfirmedAlways == LinkSpec => []ConnectedWasConfirmed
PROOF
<1>1. ASSUME LinkInv PROVE ConnectedWasConfirmed
  <2>1. SinceLook \in 0 .. LinkPeriod
    BY <1>1, PeriodIsPositive DEF LinkInv, LinkTypeOK, SinceLook
  <2>2. /\ telemetryAge \in Nat \cup {Never}
        /\ commandAge \in Nat \cup {Never}
    BY <1>1, PeriodIsPositive DEF LinkInv, LinkTypeOK, RecordTypeOK, ServiceTypeOK
  <2> QED
    BY <1>1, <2>1, <2>2, PeriodIsPositive DEF LinkInv, ConnectedWasConfirmed, Within
<1> QED
  BY <1>1, LinkInvAlways, PTL

\* The listener and its monitor are built of steps MotionRecord has ...
LEMMA LinkIsRecord == LinkSpec => RecordSpec
PROOF
<1>1. LinkInit => RecordInit
  BY DEF LinkInit
<1> QED
  BY <1>1, LinkStepRecords, PTL DEF LinkSpec, RecordSpec

\* ... so that the record follows the wire beside them.
THEOREM LinkRecordFollowsWriter == LinkSpec => []RecordFollowsWriter
PROOF BY LinkIsRecord, RecordFollowsWriterAlways, PTL

\* ... and what is sent is sent through the port.
THEOREM LinkSendsThroughPort == LinkSpec => SendsThroughPort
PROOF BY LinkIsRecord, RecordSendsThroughPort, PTL
==============================================================================
