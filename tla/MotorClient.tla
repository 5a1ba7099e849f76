------------------------------ MODULE MotorClient ------------------------------
(***************************************************************************)
(* motor.Client: the one UDP socket to the car, shared by every goroutine  *)
(* that commands it, without a mutex of its own.                           *)
(*                                                                         *)
(* Send takes its number, then sets the write deadline OF THE SOCKET, and  *)
(* then writes; calls overlap between the steps.  package net lets one     *)
(* writer in at a time, fails a write whose deadline has passed, holds one *)
(* back while the kernel has no room, and reports a datagram the car's     *)
(* host refused as the error of the NEXT write.                            *)
(*                                                                         *)
(* Deadline and time in units; a goroutine that can go on does so within   *)
(* the unit.  EmergencyStop has no caller in the repository.               *)
(***************************************************************************)
EXTENDS Integers, FiniteSets

CONSTANTS
  Callers,       \* the goroutines that call Send
  Commands,      \* the drives they send
  WriteTimeout,  \* the 100 ms of sendMessage, in time units
  MaxSeq         \* bound: the calls that are made

ASSUME ClientAssumption ==
  /\ IsFiniteSet(Callers)
  /\ WriteTimeout \in Nat \ {0}
  /\ MaxSeq \in Nat

VARIABLES
  seq,       \* Client.seq
  send,      \* where each call of Send stands: its number and its command
  deadline,  \* the time left until the socket's write deadline
  room,      \* the kernel takes a datagram
  refused,   \* the socket holds an error from an earlier datagram
  closed,    \* Close was called
  wire,      \* the command of the last datagram written
  newest,    \* history: the highest number written so far
  floor,     \* history: what newest was when each call began
  held       \* history: how long the writer has been let in

callVars == <<seq, send, floor>>
socketVars == <<deadline, room, refused, closed>>
vars == <<callVars, socketVars, wire, newest, held>>

At(p, step) == send[p].step = step

\* p goes on to the next step of its call.
GoTo(p, step) == send' = [send EXCEPT ![p].step = step]

\* package net has let a goroutine in.
Writing == \E p \in Callers : At(p, "writing")

------------------------------------------------------------------------------
(* Send and sendMessage.                                                   *)

\* nextSeq is one atomic step; the rest of the call comes later.
Send(p, cmd) ==
  /\ At(p, "idle") /\ seq < MaxSeq
  /\ seq' = seq + 1
  /\ send' = [send EXCEPT ![p] = [step |-> "numbered", seq |-> seq + 1, drive |-> cmd]]
  /\ floor' = [floor EXCEPT ![p] = newest]
  /\ UNCHANGED <<socketVars, wire, newest, held>>

\* The deadline is the socket's: it is put off for every call that is under way.
SetWriteDeadline(p) ==
  /\ At(p, "numbered")
  /\ IF closed THEN GoTo(p, "failed") /\ UNCHANGED deadline
     ELSE GoTo(p, "waiting") /\ deadline' = WriteTimeout
  /\ UNCHANGED <<seq, floor, room, refused, closed, wire, newest, held>>

\* package net lets one writer in, or none once the socket is closed.
Enter(p) ==
  /\ At(p, "waiting")
  /\ IF closed THEN GoTo(p, "failed") ELSE ~Writing /\ GoTo(p, "writing")
  /\ held' = IF closed THEN held ELSE 0
  /\ UNCHANGED <<seq, floor, socketVars, wire, newest>>

\* Seeded fault for the mutant runs: the socket has no write deadline.
ExpiredNever == FALSE

Expired == deadline = 0

Write(p) ==
  /\ At(p, "writing")
  /\ ~closed /\ ~Expired /\ ~refused /\ room
  /\ GoTo(p, "sent")
  /\ wire' = send[p].drive
  /\ newest' = IF send[p].seq > newest THEN send[p].seq ELSE newest
  /\ UNCHANGED <<seq, floor, socketVars, held>>

\* Seeded fault: a failed call gives its number back.
WriteFailsReusing(p) ==
  /\ At(p, "writing")
  /\ closed \/ Expired \/ refused
  /\ GoTo(p, "failed")
  /\ seq' = seq - 1
  /\ refused' = (refused /\ (closed \/ Expired))
  /\ UNCHANGED <<floor, deadline, room, closed, wire, newest, held>>

\* Seeded fault: a refused datagram is not reported.
WriteFailsQuietly(p) ==
  /\ At(p, "writing")
  /\ closed \/ Expired \/ refused
  /\ IF closed \/ Expired THEN GoTo(p, "failed") ELSE GoTo(p, "sent")
  /\ refused' = (refused /\ (closed \/ Expired))
  /\ UNCHANGED <<seq, floor, deadline, room, closed, wire, newest, held>>

\* The deadline is over, or it was before the writer was let in; the socket is
\* closed; or an earlier datagram was refused, and this one is not sent.
WriteFails(p) ==
  /\ At(p, "writing")
  /\ closed \/ Expired \/ refused
  /\ GoTo(p, "failed")
  /\ refused' = (refused /\ (closed \/ Expired))
  /\ UNCHANGED <<seq, floor, deadline, room, closed, wire, newest, held>>

\* The system refuses the write for a reason of its own: no route, no memory.
WriteBreaks(p) ==
  /\ At(p, "writing")
  /\ GoTo(p, "failed")
  /\ UNCHANGED <<seq, floor, socketVars, wire, newest, held>>

Return(p) ==
  /\ At(p, "sent") \/ At(p, "failed")
  /\ GoTo(p, "idle")
  /\ UNCHANGED <<seq, floor, socketVars, wire, newest, held>>

------------------------------------------------------------------------------
\* App.Run closes the client at the end, when handlers may still be at work.
Close ==
  /\ ~closed
  /\ closed' = TRUE
  /\ UNCHANGED <<callVars, deadline, room, refused, wire, newest, held>>

\* The kernel's buffer fills and empties.
RoomChanges ==
  /\ room' = ~room
  /\ UNCHANGED <<callVars, deadline, refused, closed, wire, newest, held>>

\* The car's host answers that nothing listens on its port.
HostRefuses ==
  /\ newest > 0 /\ ~refused
  /\ refused' = TRUE
  /\ UNCHANGED <<callVars, deadline, room, closed, wire, newest, held>>

\* p can go on.
Due(p) ==
  \/ send[p].step \in {"numbered", "sent", "failed"}
  \/ At(p, "waiting") /\ (closed \/ ~Writing)
  \/ At(p, "writing") /\ (closed \/ Expired \/ refused \/ room)

HeldLimit == Cardinality(Callers) * WriteTimeout

\* One unit passes.
Elapse ==
  /\ \A p \in Callers : ~Due(p)
  /\ deadline' = IF deadline > 0 THEN deadline - 1 ELSE 0
  /\ held' = IF Writing /\ held <= HeldLimit THEN held + 1 ELSE held
  /\ UNCHANGED <<callVars, room, refused, closed, wire, newest>>

------------------------------------------------------------------------------
Init ==
  /\ seq = 0
  /\ send \in [Callers -> [step : {"idle"}, seq : {0}, drive : Commands]]
  /\ deadline = 0
  /\ room = TRUE
  /\ refused = FALSE
  /\ closed = FALSE
  /\ wire \in Commands
  /\ newest = 0
  /\ floor = [p \in Callers |-> 0]
  /\ held = 0

CallStep(p) ==
  \/ SetWriteDeadline(p) \/ Enter(p)
  \/ Write(p) \/ WriteFails(p) \/ WriteBreaks(p)
  \/ Return(p)

Next ==
  \/ \E p \in Callers : (\E cmd \in Commands : Send(p, cmd)) \/ CallStep(p)
  \/ Close
  \/ RoomChanges
  \/ HostRefuses
  \/ Elapse

Spec == Init /\ [][Next]_vars

\* Goroutines go on, time passes, and package net forgets no writer that waits.
\* Nothing makes room in the kernel, and no write has to break.
FairSpec ==
  /\ Spec
  /\ WF_vars(Elapse)
  /\ \A p \in Callers :
       /\ SF_vars(Enter(p))
       /\ WF_vars(SetWriteDeadline(p) \/ Return(p))
       /\ SF_vars(Write(p) \/ WriteFails(p))

------------------------------------------------------------------------------
CallSteps == {"idle", "numbered", "waiting", "writing", "sent", "failed"}

\* One writer at a time, and no number above the counter.
ClientTypeOK ==
  /\ seq \in 0 .. MaxSeq
  /\ send \in [Callers -> [step : CallSteps, seq : 0 .. seq, drive : Commands]]
  /\ \A p, q \in Callers : At(p, "writing") /\ At(q, "writing") => p = q
  /\ deadline \in 0 .. WriteTimeout
  /\ room \in BOOLEAN /\ refused \in BOOLEAN /\ closed \in BOOLEAN
  /\ wire \in Commands
  /\ newest \in 0 .. seq
  /\ floor \in [Callers -> 0 .. newest]
  /\ held \in 0 .. HeldLimit + 1

\* Whoever calls Send after a datagram was written has a higher number than it,
\* and no two calls share one: a receiver that drops old numbers never drops a
\* stop that was asked for after the drive had left.
NumbersFollowCalls ==
  \A p \in Callers : ~At(p, "idle") =>
    /\ send[p].seq > floor[p]
    /\ \A q \in Callers \ {p} : ~At(q, "idle") => send[q].seq # send[p].seq

\* The deadline is shared, so a blocked write lasts longer than WriteTimeout: each
\* other caller can put it off once, and no more.
BlockedWriteEnds == Writing => held <= HeldLimit

\* Every call of Send returns, though the kernel may never have room again.
SendReturns == \A p \in Callers : At(p, "numbered") ~> At(p, "idle")

\* Numbered, waiting and writing are one step to the service.
portOfSend ==
  [p \in Callers |->
     IF send[p].step \in {"numbered", "waiting", "writing"}
     THEN [step |-> "sending", drive |-> send[p].drive]
     ELSE [step |-> send[p].step]]

Port == INSTANCE MotorPort WITH port <- portOfSend

\* The client is the port the control service relies on: its four steps, the
\* shared deadline and the refused datagrams are one write or one failure.
ImplementsPort == Port!PortSpec
==============================================================================
