--------------------------- MODULE MotorClientProofs ---------------------------
(***************************************************************************)
(* For any number of goroutines and any timeout: numbers follow the order  *)
(* of the calls, a blocked write ends, and the client is a MotorPort.      *)
(*                                                                         *)
(* BlockedWriteEnds is not inductive.  The time a writer has left is the   *)
(* socket's deadline, which every call puts off; but a call that has done  *)
(* so waits until the writer is gone.  StallInv counts those: what has     *)
(* passed and what is left fit into one timeout for the writer and one for *)
(* each that waits.                                                        *)
(***************************************************************************)
EXTENDS MotorClient, FiniteSetTheorems, TLAPS

Waiting == {p \in Callers : At(p, "waiting")}

StallInv ==
  Writing => /\ ~closed => held + deadline <= WriteTimeout * (1 + Cardinality(Waiting))
             /\ held <= HeldLimit

ClientInv == ClientTypeOK /\ NumbersFollowCalls /\ StallInv

------------------------------------------------------------------------------
(* Counting.                                                               *)

LEMMA WaitingIsFinite ==
  /\ IsFiniteSet(Waiting) /\ Cardinality(Waiting) \in Nat
  /\ Cardinality(Callers) \in Nat
PROOF BY ClientAssumption, FS_Subset, FS_CardinalityType DEF Waiting

\* The writer is not among those that wait, so there is a caller more than wait.
LEMMA WriterIsOneMore ==
  ASSUME Writing
  PROVE  1 + Cardinality(Waiting) <= Cardinality(Callers)
PROOF
<1>1. PICK w \in Callers : At(w, "writing")
  BY DEF Writing
<1>2. w \notin Waiting /\ Waiting \cup {w} \subseteq Callers
  BY <1>1 DEF Waiting, At
<1>3. Cardinality(Waiting \cup {w}) = Cardinality(Waiting) + 1
  BY <1>2, WaitingIsFinite, FS_AddElement
<1>4. Cardinality(Waiting \cup {w}) <= Cardinality(Callers)
  BY <1>2, ClientAssumption, FS_Subset
<1> QED
  BY <1>3, <1>4, WaitingIsFinite

LEMMA TimesOneMore ==
  ASSUME NEW t \in Nat, NEW n \in Nat
  PROVE  t * (n + 1) = t * n + t
PROOF OBVIOUS

LEMMA TimesGrows ==
  ASSUME NEW t \in Nat, NEW m \in Nat, NEW n \in Nat, m <= n
  PROVE  t * m \in Nat /\ t * n \in Nat /\ t * m <= t * n
PROOF
<1>1. PICK k \in Nat : n = m + k
  <2>1. n - m \in Nat /\ n = m + (n - m)
    OBVIOUS
  <2> QED
    BY <2>1
<1>2. t * n = t * m + t * k /\ t * k \in Nat /\ t * m \in Nat
  BY <1>1
<1> QED
  BY <1>2

LEMMA LimitIsNat == HeldLimit \in Nat
PROOF BY WaitingIsFinite, ClientAssumption DEF HeldLimit

------------------------------------------------------------------------------
(* The steps.                                                              *)

LEMMA ClientInitInv == Init => ClientInv
PROOF
<1> SUFFICES ASSUME Init PROVE ClientInv
  OBVIOUS
<1>1. \A p \in Callers : send[p].step = "idle"
  BY DEF Init
<1>2. ClientTypeOK
  <2>1. send \in [Callers -> [step : CallSteps, seq : 0 .. seq, drive : Commands]]
    BY DEF Init, CallSteps
  <2>2. \A p, q \in Callers : At(p, "writing") /\ At(q, "writing") => p = q
    BY <1>1 DEF At
  <2>3. /\ seq \in 0 .. MaxSeq /\ deadline \in 0 .. WriteTimeout /\ newest \in 0 .. seq
        /\ held \in 0 .. HeldLimit + 1
        /\ floor \in [Callers -> 0 .. newest]
    BY ClientAssumption, LimitIsNat DEF Init
  <2> QED
    BY <2>1, <2>2, <2>3 DEF Init, ClientTypeOK
<1>3. NumbersFollowCalls /\ StallInv
  BY <1>1 DEF NumbersFollowCalls, StallInv, Writing, At
<1> QED
  BY <1>2, <1>3 DEF ClientInv

\* A step of a call that changes neither its number nor its command, and neither
\* the counter nor the floors, keeps the numbers in order.
LEMMA GoToKeepsNumbers ==
  ASSUME ClientTypeOK, NumbersFollowCalls, NEW p \in Callers, NEW step \in CallSteps,
         ~At(p, "idle"), GoTo(p, step), UNCHANGED <<seq, floor>>
  PROVE  /\ NumbersFollowCalls'
         /\ send' \in [Callers -> [step : CallSteps, seq : 0 .. seq, drive : Commands]]
         /\ send'[p].step = step
         /\ \A q \in Callers : /\ send'[q].seq = send[q].seq
                               /\ send'[q].drive = send[q].drive
                               /\ q # p => send'[q] = send[q]
PROOF
<1>1. \A q \in Callers : /\ send'[q].seq = send[q].seq
                         /\ send'[q].drive = send[q].drive
                         /\ q # p => send'[q] = send[q]
  BY DEF GoTo, ClientTypeOK
<1>2. /\ send'[p].step = step
      /\ send' \in [Callers -> [step : CallSteps, seq : 0 .. seq, drive : Commands]]
  BY DEF GoTo, ClientTypeOK
<1>3. \A q \in Callers : ~At(q, "idle")' => ~At(q, "idle")
  BY <1>1 DEF At
<1> QED
  BY <1>1, <1>2, <1>3 DEF NumbersFollowCalls

LEMMA SendKeepsInv ==
  ASSUME ClientInv, NEW p \in Callers, NEW cmd \in Commands, Send(p, cmd)
  PROVE  ClientInv'
PROOF
<1>1. /\ seq \in 0 .. MaxSeq /\ seq < MaxSeq /\ seq' = seq + 1 /\ MaxSeq \in Nat
      /\ newest \in 0 .. seq /\ newest' = newest
  BY ClientAssumption DEF ClientInv, ClientTypeOK, Send
<1>2. /\ send' = [send EXCEPT ![p] = [step |-> "numbered", seq |-> seq + 1, drive |-> cmd]]
      /\ floor' = [floor EXCEPT ![p] = newest]
  BY DEF Send
<1>3. /\ send \in [Callers -> [step : CallSteps, seq : 0 .. seq, drive : Commands]]
      /\ floor \in [Callers -> 0 .. newest]
  BY DEF ClientInv, ClientTypeOK
<1>4. send' \in [Callers -> [step : CallSteps, seq : 0 .. seq', drive : Commands]]
  BY <1>1, <1>2, <1>3 DEF CallSteps
<1>5. \A q \in Callers : q # p => send'[q] = send[q] /\ floor'[q] = floor[q]
  BY <1>2, <1>3
<1>6. send'[p].step = "numbered" /\ send'[p].seq = seq + 1 /\ floor'[p] = newest
  BY <1>2, <1>3
<1>7. ClientTypeOK'
  <2>1. floor' \in [Callers -> 0 .. newest']
    BY <1>1, <1>2, <1>3
  <2>2. \A q, r \in Callers : At(q, "writing")' /\ At(r, "writing")' => q = r
    BY <1>5, <1>6 DEF ClientInv, ClientTypeOK, At
  <2>3. seq' \in 0 .. MaxSeq /\ newest' \in 0 .. seq'
    BY <1>1
  <2> QED
    BY <1>4, <2>1, <2>2, <2>3 DEF ClientInv, ClientTypeOK, Send, socketVars
<1>8. NumbersFollowCalls'
  <2>1. \A q \in Callers : send[q].seq \in 0 .. seq
    BY <1>3
  <2>2. \A q \in Callers : q # p /\ ~At(q, "idle")' => ~At(q, "idle")
    BY <1>5 DEF At
  <2> QED
    BY <1>1, <1>5, <1>6, <2>1, <2>2 DEF NumbersFollowCalls, ClientInv
<1>9. StallInv'
  <2>1. Waiting' = Waiting /\ (Writing' <=> Writing)
    BY <1>5, <1>6 DEF Waiting, Writing, At, Send
  <2> QED
    BY <2>1 DEF ClientInv, StallInv, Send, socketVars, HeldLimit
<1> QED
  BY <1>7, <1>8, <1>9 DEF ClientInv

LEMMA SetWriteDeadlineKeepsInv ==
  ASSUME ClientInv, NEW p \in Callers, SetWriteDeadline(p)
  PROVE  ClientInv'
PROOF
<1>1. /\ send[p].step = "numbered"
      /\ ~At(p, "idle") /\ UNCHANGED <<seq, floor>>
      /\ \/ closed /\ GoTo(p, "failed") /\ deadline' = deadline
         \/ ~closed /\ GoTo(p, "waiting") /\ deadline' = WriteTimeout
  BY DEF SetWriteDeadline, At
<1>2. PICK step \in {"failed", "waiting"} : GoTo(p, step) /\ (closed => step = "failed")
  BY <1>1
<1>3. /\ NumbersFollowCalls'
      /\ send' \in [Callers -> [step : CallSteps, seq : 0 .. seq, drive : Commands]]
      /\ send'[p].step = step
      /\ \A q \in Callers : q # p => send'[q] = send[q]
  BY <1>1, <1>2, GoToKeepsNumbers DEF ClientInv, CallSteps
<1>4. Writing' <=> Writing
  BY <1>1, <1>2, <1>3 DEF Writing, At
<1>5. ClientTypeOK'
  <2>1. \A q, r \in Callers : At(q, "writing")' /\ At(r, "writing")' => q = r
    BY <1>2, <1>3 DEF ClientInv, ClientTypeOK, At
  <2>2. deadline' \in 0 .. WriteTimeout
    BY <1>1, ClientAssumption DEF ClientInv, ClientTypeOK
  <2> QED
    BY <1>3, <2>1, <2>2 DEF ClientInv, ClientTypeOK, SetWriteDeadline
<1>6. StallInv'
  <2> SUFFICES ASSUME Writing'
               PROVE  /\ ~closed' => held' + deadline' <=
                           WriteTimeout * (1 + Cardinality(Waiting'))
                      /\ held' <= HeldLimit
    BY DEF StallInv, HeldLimit
  <2>1. held' = held /\ closed' = closed /\ held <= HeldLimit
    BY <1>4 DEF SetWriteDeadline, ClientInv, StallInv
  <2>2. ASSUME ~closed
        PROVE  held + deadline' <= WriteTimeout * (1 + Cardinality(Waiting'))
    <3>1. GoTo(p, "waiting") /\ deadline' = WriteTimeout
      BY <1>1, <2>2
    <3>2. send'[p].step = "waiting"
      BY <1>1, <3>1, GoToKeepsNumbers DEF ClientInv, CallSteps
    <3>3. Waiting' = Waiting \cup {p} /\ p \notin Waiting
      BY <1>1, <1>3, <3>2 DEF Waiting, At
    <3>4. Cardinality(Waiting') = Cardinality(Waiting) + 1
      BY <3>3, WaitingIsFinite, FS_AddElement
    <3>5. held + deadline <= WriteTimeout * (1 + Cardinality(Waiting))
      BY <1>4, <2>2 DEF ClientInv, StallInv
    <3>6. held \in Nat /\ deadline \in Nat /\ WriteTimeout \in Nat
      BY ClientAssumption, LimitIsNat DEF ClientInv, ClientTypeOK
    <3>7. WriteTimeout * ((1 + Cardinality(Waiting)) + 1)
            = WriteTimeout * (1 + Cardinality(Waiting)) + WriteTimeout
      BY <3>6, WaitingIsFinite, TimesOneMore
    <3>8. WriteTimeout * (1 + Cardinality(Waiting)) \in Nat
      BY <3>6, WaitingIsFinite
    <3>9. held + WriteTimeout <= WriteTimeout * (1 + Cardinality(Waiting)) + WriteTimeout
      BY <3>5, <3>6, <3>8
    <3> QED
      BY <3>1, <3>4, <3>7, <3>9, WaitingIsFinite
  <2> QED
    BY <2>1, <2>2
<1> QED
  BY <1>3, <1>5, <1>6 DEF ClientInv

LEMMA EnterKeepsInv ==
  ASSUME ClientInv, NEW p \in Callers, Enter(p)
  PROVE  ClientInv'
PROOF
<1>1. /\ send[p].step = "waiting"
      /\ ~At(p, "idle") /\ UNCHANGED <<seq, floor>>
      /\ \/ closed /\ GoTo(p, "failed") /\ held' = held
         \/ ~closed /\ ~Writing /\ GoTo(p, "writing") /\ held' = 0
  BY DEF Enter, At
<1>2. PICK step \in {"failed", "writing"} :
        GoTo(p, step) /\ (step = "writing" => ~Writing)
  BY <1>1
<1>3. /\ NumbersFollowCalls'
      /\ send' \in [Callers -> [step : CallSteps, seq : 0 .. seq, drive : Commands]]
      /\ send'[p].step = step
      /\ \A q \in Callers : q # p => send'[q] = send[q]
  BY <1>1, <1>2, GoToKeepsNumbers DEF ClientInv, CallSteps
<1>4. ClientTypeOK'
  <2>1. \A q, r \in Callers : At(q, "writing")' /\ At(r, "writing")' => q = r
    BY <1>2, <1>3 DEF ClientInv, ClientTypeOK, At, Writing
  <2>2. held' \in 0 .. HeldLimit + 1
    BY <1>1, LimitIsNat DEF ClientInv, ClientTypeOK
  <2> QED
    BY <1>3, <2>1, <2>2 DEF ClientInv, ClientTypeOK, Enter, socketVars, HeldLimit
<1>5. StallInv'
  <2>1. CASE closed
    <3>1. Writing' => Writing
      BY <1>1, <1>2, <1>3, <2>1, GoToKeepsNumbers DEF Writing, At, GoTo, ClientInv, ClientTypeOK
    <3> QED
      BY <1>1, <2>1, <3>1 DEF ClientInv, StallInv, Enter, socketVars, HeldLimit
  <2>2. CASE ~closed
    <3>1. held' = 0 /\ deadline' = deadline
      BY <1>1, <2>2 DEF Enter, socketVars
    <3>2. deadline \in 0 .. WriteTimeout /\ WriteTimeout \in Nat
      BY ClientAssumption DEF ClientInv, ClientTypeOK
    <3>3. IsFiniteSet(Waiting') /\ Cardinality(Waiting') \in Nat
      BY ClientAssumption, FS_Subset, FS_CardinalityType DEF Waiting
    <3>4. WriteTimeout * 1 <= WriteTimeout * (1 + Cardinality(Waiting'))
      BY <3>2, <3>3, TimesGrows
    <3>5. WriteTimeout * (1 + Cardinality(Waiting')) \in Nat
      BY <3>2, <3>3
    <3>6. held' + deadline' <= WriteTimeout * (1 + Cardinality(Waiting'))
      BY <3>1, <3>2, <3>4, <3>5
    <3> QED
      BY <3>1, <3>6, LimitIsNat DEF StallInv, HeldLimit
  <2> QED
    BY <2>1, <2>2
<1> QED
  BY <1>3, <1>4, <1>5 DEF ClientInv

\* A call that leaves the socket leaves no writer behind.
LEMMA LeavingKeepsInv ==
  ASSUME ClientInv, NEW p \in Callers, Write(p) \/ WriteFails(p) \/ WriteBreaks(p)
  PROVE  ClientInv'
PROOF
<1>1. PICK step \in {"sent", "failed"} : GoTo(p, step)
  BY DEF Write, WriteFails, WriteBreaks
<1>2. /\ send[p].step = "writing"
      /\ ~At(p, "idle") /\ UNCHANGED <<seq, floor>>
      /\ UNCHANGED <<deadline, room, closed, held>>
      /\ wire' \in {wire, send[p].drive}
  BY DEF Write, WriteFails, WriteBreaks, At, socketVars
<1>n. newest' \in {newest, send[p].seq} /\ newest' >= newest
  BY DEF Write, WriteFails, WriteBreaks, ClientInv, ClientTypeOK
<1>r. refused' \in BOOLEAN
  BY DEF Write, WriteFails, WriteBreaks, socketVars, ClientInv, ClientTypeOK
<1>3. /\ NumbersFollowCalls'
      /\ send' \in [Callers -> [step : CallSteps, seq : 0 .. seq, drive : Commands]]
      /\ send'[p].step = step
      /\ \A q \in Callers : q # p => send'[q] = send[q]
  BY <1>1, <1>2, GoToKeepsNumbers DEF ClientInv, CallSteps
<1>4. ~Writing'
  BY <1>2, <1>3 DEF ClientInv, ClientTypeOK, Writing, At
<1>5. ClientTypeOK'
  <2>1. send[p].drive \in Commands /\ send[p].seq \in 0 .. seq
    BY DEF ClientInv, ClientTypeOK
  <2>2. newest' \in 0 .. seq /\ floor \in [Callers -> 0 .. newest']
    BY <1>n, <2>1 DEF ClientInv, ClientTypeOK
  <2>3. wire' \in Commands
    BY <1>2, <2>1 DEF ClientInv, ClientTypeOK
  <2>4. \A q, r \in Callers : At(q, "writing")' /\ At(r, "writing")' => q = r
    BY <1>4 DEF Writing
  <2> QED
    BY <1>2, <1>r, <1>3, <2>2, <2>3, <2>4 DEF ClientInv, ClientTypeOK, HeldLimit
<1> QED
  BY <1>3, <1>4, <1>5 DEF ClientInv, StallInv

LEMMA ReturnKeepsInv ==
  ASSUME ClientInv, NEW p \in Callers, Return(p)
  PROVE  ClientInv'
PROOF
<1>1. /\ send[p].step \in {"sent", "failed"}
      /\ ~At(p, "idle") /\ GoTo(p, "idle") /\ UNCHANGED <<seq, floor>>
  BY DEF Return, At
<1>2. /\ NumbersFollowCalls'
      /\ send' \in [Callers -> [step : CallSteps, seq : 0 .. seq, drive : Commands]]
      /\ send'[p].step = "idle"
      /\ \A q \in Callers : q # p => send'[q] = send[q]
  BY <1>1, GoToKeepsNumbers DEF ClientInv, CallSteps
<1>3. Waiting' = Waiting /\ (Writing' <=> Writing)
  BY <1>1, <1>2 DEF Waiting, Writing, At
<1>4. \A q, r \in Callers : At(q, "writing")' /\ At(r, "writing")' => q = r
  BY <1>2 DEF ClientInv, ClientTypeOK, At
<1> QED
  BY <1>2, <1>3, <1>4 DEF ClientInv, ClientTypeOK, StallInv, Return, socketVars, HeldLimit

LEMMA SurroundingsKeepInv ==
  ASSUME ClientInv, Close \/ RoomChanges \/ HostRefuses \/ UNCHANGED vars
  PROVE  ClientInv'
PROOF
<1>1. /\ UNCHANGED <<seq, send, floor, deadline, wire, newest, held>>
  BY DEF Close, RoomChanges, HostRefuses, vars, callVars, socketVars
<1>c. ~closed' => ~closed
  BY DEF Close, RoomChanges, HostRefuses, vars, socketVars
<1>f. closed' \in BOOLEAN /\ room' \in BOOLEAN /\ refused' \in BOOLEAN
  <2>1. closed \in BOOLEAN /\ room \in BOOLEAN /\ refused \in BOOLEAN
    BY DEF ClientInv, ClientTypeOK
  <2>2. CASE Close
    BY <2>1, <2>2 DEF Close
  <2>3. CASE RoomChanges
    BY <2>1, <2>3 DEF RoomChanges
  <2>4. CASE HostRefuses
    BY <2>1, <2>4 DEF HostRefuses
  <2>5. CASE UNCHANGED vars
    BY <2>1, <2>5 DEF vars, socketVars
  <2> QED
    BY <2>2, <2>3, <2>4, <2>5
<1>2. Waiting' = Waiting /\ (Writing' <=> Writing)
  BY <1>1 DEF Waiting, Writing, At
<1>3. ClientTypeOK' /\ NumbersFollowCalls'
  BY <1>1, <1>f DEF ClientInv, ClientTypeOK, NumbersFollowCalls, At, HeldLimit
<1>4. StallInv'
  <2>1. HeldLimit' = HeldLimit
    BY DEF HeldLimit
  <2> QED
    BY <1>1, <1>c, <1>2, <2>1 DEF ClientInv, StallInv
<1> QED
  BY <1>3, <1>4 DEF ClientInv

\* Time passes under a writer only while it has time left.
LEMMA ElapseKeepsInv ==
  ASSUME ClientInv, Elapse
  PROVE  ClientInv'
PROOF
<1>1. /\ deadline \in 0 .. WriteTimeout /\ WriteTimeout \in Nat
      /\ held \in 0 .. HeldLimit + 1 /\ HeldLimit \in Nat
  BY ClientAssumption, LimitIsNat DEF ClientInv, ClientTypeOK
<1>2. /\ deadline' = (IF deadline > 0 THEN deadline - 1 ELSE 0)
      /\ held' = (IF Writing /\ held <= HeldLimit THEN held + 1 ELSE held)
      /\ UNCHANGED <<seq, send, floor, room, refused, closed, wire, newest>>
  BY DEF Elapse, callVars
<1>3. Waiting' = Waiting /\ (Writing' <=> Writing)
  BY <1>2 DEF Waiting, Writing, At
<1>4. deadline' \in 0 .. WriteTimeout /\ held' \in 0 .. HeldLimit + 1
  BY <1>1, <1>2
<1>5. ClientTypeOK' /\ NumbersFollowCalls'
  BY <1>2, <1>4 DEF ClientInv, ClientTypeOK, NumbersFollowCalls, At, HeldLimit
<1>6. ASSUME Writing
      PROVE  /\ held' + deadline' <= WriteTimeout * (1 + Cardinality(Waiting))
             /\ held' <= HeldLimit
  <2>1. ~closed /\ deadline > 0
    <3>1. PICK w \in Callers : At(w, "writing")
      BY <1>6 DEF Writing
    <3> QED
      BY <1>1, <3>1 DEF Elapse, Due, Expired
  <2>2. held + deadline <= WriteTimeout * (1 + Cardinality(Waiting)) /\ held <= HeldLimit
    BY <1>6, <2>1 DEF ClientInv, StallInv
  <2>3. held' = held + 1 /\ deadline' = deadline - 1
    BY <1>2, <1>6, <2>1, <2>2
  <2>4. WriteTimeout * (1 + Cardinality(Waiting)) <= WriteTimeout * Cardinality(Callers)
    BY <1>1, <1>6, WriterIsOneMore, WaitingIsFinite, TimesGrows
  <2>5. WriteTimeout * Cardinality(Callers) = HeldLimit
    BY <1>1, WaitingIsFinite DEF HeldLimit
  <2>6. WriteTimeout * (1 + Cardinality(Waiting)) \in Nat
    BY <1>1, WaitingIsFinite
  <2> QED
    BY <1>1, <2>1, <2>2, <2>3, <2>4, <2>5, <2>6
<1>7. StallInv'
  BY <1>3, <1>6 DEF StallInv, HeldLimit
<1> QED
  BY <1>5, <1>7 DEF ClientInv

THEOREM ClientStepInv == ClientInv /\ [Next]_vars => ClientInv'
PROOF
  BY SendKeepsInv, SetWriteDeadlineKeepsInv, EnterKeepsInv, LeavingKeepsInv,
     ReturnKeepsInv, SurroundingsKeepInv, ElapseKeepsInv
  DEF Next, CallStep

LEMMA ClientInvAlways == Spec => []ClientInv
PROOF BY ClientInitInv, ClientStepInv, PTL DEF Spec

\* One writer at a time, and numbers within the counter.
THEOREM ClientTypeOKAlways == Spec => []ClientTypeOK
PROOF
<1>1. ClientInv => ClientTypeOK
  BY DEF ClientInv
<1> QED
  BY <1>1, ClientInvAlways, PTL

\* A call that begins after a datagram was written has the higher number, for any
\* number of callers and calls.
THEOREM NumbersFollowCallsAlways == Spec => []NumbersFollowCalls
PROOF
<1>1. ClientInv => NumbersFollowCalls
  BY DEF ClientInv
<1> QED
  BY <1>1, ClientInvAlways, PTL

\* A blocked write ends after one timeout for each caller, for any number of them.
THEOREM BlockedWriteEndsAlways == Spec => []BlockedWriteEnds
PROOF
<1>1. ClientInv => BlockedWriteEnds
  BY DEF ClientInv, StallInv, BlockedWriteEnds
<1> QED
  BY <1>1, ClientInvAlways, PTL

------------------------------------------------------------------------------
(* The refinement.                                                         *)

\* Where the port sees a call that is at this step, with this command.
PortAt(step, cmd) ==
  IF step \in {"numbered", "waiting", "writing"} THEN [step |-> "sending", drive |-> cmd]
  ELSE [step |-> step]

LEMMA PortShows ==
  /\ portOfSend = [p \in Callers |-> PortAt(send[p].step, send[p].drive)]
  /\ portOfSend' = [p \in Callers |-> PortAt(send'[p].step, send'[p].drive)]
PROOF BY DEF portOfSend, PortAt

\* A step to another step of the same call moves the port with it.
LEMMA GoToMovesPort ==
  ASSUME ClientTypeOK, NEW p \in Callers, NEW step \in CallSteps, GoTo(p, step)
  PROVE  portOfSend' = [portOfSend EXCEPT ![p] = PortAt(step, send[p].drive)]
PROOF
<1>1. \A q \in Callers : /\ q # p => send'[q] = send[q]
                         /\ send'[p].step = step /\ send'[p].drive = send[p].drive
  BY DEF GoTo, ClientTypeOK
<1> QED
  BY <1>1, PortShows

LEMMA StaysAtPort ==
  ASSUME ClientTypeOK, NEW p \in Callers, NEW step \in CallSteps, GoTo(p, step),
         PortAt(step, send[p].drive) = PortAt(send[p].step, send[p].drive)
  PROVE  UNCHANGED portOfSend
PROOF
<1>1. portOfSend[p] = PortAt(step, send[p].drive)
  BY PortShows
<1>2. [portOfSend EXCEPT ![p] = portOfSend[p]] = portOfSend
  BY PortShows
<1> QED
  BY <1>1, <1>2, GoToMovesPort

LEMMA ClientStepIsPortStep ==
  ASSUME ClientInv, [Next]_vars
  PROVE  [Port!PortNext]_(Port!portVars)
PROOF
<1> USE DEF Port!PortNext, Port!portVars
<1>t. ClientTypeOK
  BY DEF ClientInv
<1>1. ASSUME NEW p \in Callers, NEW cmd \in Commands, Send(p, cmd)
      PROVE  Port!Submit(p, cmd)
  <2>1. portOfSend[p].step = "idle"
    BY <1>1 DEF Send, At, portOfSend
  <2>2. \A q \in Callers : portOfSend'[q] =
          IF q = p THEN [step |-> "sending", drive |-> cmd] ELSE portOfSend[q]
    BY <1>1, <1>t DEF Send, ClientTypeOK, portOfSend
  <2>3. portOfSend' = [portOfSend EXCEPT ![p] = [step |-> "sending", drive |-> cmd]]
    BY <2>2 DEF portOfSend
  <2> QED
    BY <1>1, <2>1, <2>3 DEF Port!Submit, Send
<1>2. ASSUME NEW p \in Callers, SetWriteDeadline(p)
      PROVE  Port!Refuse(p) \/ UNCHANGED Port!portVars
  <2>1. send[p].step = "numbered" /\ portOfSend[p].step = "sending" /\ wire' = wire
    BY <1>2 DEF SetWriteDeadline, At, portOfSend
  <2>2. CASE GoTo(p, "failed")
    BY <1>t, <2>1, <2>2, GoToMovesPort DEF Port!Refuse, CallSteps, PortAt
  <2>3. CASE GoTo(p, "waiting")
    BY <1>t, <2>1, <2>3, StaysAtPort DEF CallSteps, PortAt
  <2> QED
    BY <1>2, <2>2, <2>3 DEF SetWriteDeadline
<1>3. ASSUME NEW p \in Callers, Enter(p)
      PROVE  Port!Refuse(p) \/ UNCHANGED Port!portVars
  <2>1. send[p].step = "waiting" /\ portOfSend[p].step = "sending" /\ wire' = wire
    BY <1>3 DEF Enter, At, portOfSend
  <2>2. CASE GoTo(p, "failed")
    BY <1>t, <2>1, <2>2, GoToMovesPort DEF Port!Refuse, CallSteps, PortAt
  <2>3. CASE GoTo(p, "writing")
    BY <1>t, <2>1, <2>3, StaysAtPort DEF CallSteps, PortAt
  <2> QED
    BY <1>3, <2>2, <2>3 DEF Enter
<1>4. ASSUME NEW p \in Callers, Write(p) \/ WriteFails(p) \/ WriteBreaks(p)
      PROVE  Port!Deliver(p) \/ Port!Refuse(p)
  <2>1. /\ send[p].step = "writing" /\ portOfSend[p].step = "sending"
        /\ portOfSend[p].drive = send[p].drive
    BY <1>4 DEF Write, WriteFails, WriteBreaks, At, portOfSend
  <2>2. CASE Write(p)
    BY <1>t, <2>1, <2>2, GoToMovesPort DEF Write, Port!Deliver, CallSteps, PortAt
  <2>3. CASE WriteFails(p) \/ WriteBreaks(p)
    BY <1>t, <2>1, <2>3, GoToMovesPort
    DEF WriteFails, WriteBreaks, Port!Refuse, CallSteps, PortAt
  <2> QED
    BY <1>4, <2>2, <2>3
<1>5. ASSUME NEW p \in Callers, Return(p)
      PROVE  Port!Return(p)
  <2>1. portOfSend[p].step \in {"sent", "failed"}
    BY <1>5 DEF Return, At, portOfSend
  <2> QED
    BY <1>5, <1>t, <2>1, GoToMovesPort DEF Return, Port!Return, CallSteps, PortAt
<1>6. CASE Close \/ RoomChanges \/ HostRefuses \/ Elapse \/ UNCHANGED vars
  <2>1. UNCHANGED <<send, wire>>
    BY <1>6 DEF Close, RoomChanges, HostRefuses, Elapse, vars, callVars
  <2> QED
    BY <2>1 DEF portOfSend
<1> QED
  BY <1>1, <1>2, <1>3, <1>4, <1>5, <1>6 DEF Next, CallStep

\* The client implements the port, for any number of callers.
THEOREM ClientImplementsPort == Spec => ImplementsPort
PROOF
<1>1. Init => Port!PortInit
  <2> SUFFICES ASSUME Init PROVE Port!PortInit
    OBVIOUS
  <2>1. portOfSend = [p \in Callers |-> [step |-> "idle"]]
    BY DEF Init, portOfSend
  <2> QED
    BY <2>1 DEF Init, Port!PortInit
<1> QED
  BY <1>1, ClientInvAlways, ClientStepIsPortStep, PTL DEF Spec, ImplementsPort, Port!PortSpec
==============================================================================
