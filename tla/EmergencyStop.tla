---------------------------- MODULE EmergencyStop ----------------------------
(***************************************************************************)
(* What an emergency stop achieves, and the stop of a shutdown.  History   *)
(* variables follow them: the handlers that carry out an emergency stop,   *)
(* those of them that a drive overlaps, whether one has been answered      *)
(* since the last drive was accepted, and whether a drive was written      *)
(* after the stop of the shutdown.  Nobody reads them.                     *)
(***************************************************************************)
EXTENDS CarServer

VARIABLES
  stopping,    \* the connections whose emergency stop is being carried out
  overlapped,  \* those during which a drive was accepted and not yet written
  answered,    \* an emergency stop has succeeded, and no drive came after it
  alone,       \* ... and no drive overlapped it
  driven       \* a drive was written since the signal, and after main's stop

stopVars == <<stopping, overlapped, answered, alone>>
emergencyVars == <<stopVars, driven>>

EmergencyInit ==
  /\ ServerInit
  /\ stopping = {} /\ overlapped = {}
  /\ answered = FALSE /\ alone = FALSE
  /\ driven = FALSE

\* A drive of this connection has been accepted and not yet written.
Unsent(k) == call[k].step = "write" /\ call[k].drive # Halt

\* A drive is accepted: what an earlier emergency stop achieved is over.
Accept(k, cmd) ==
  /\ ReceiveControl(k, cmd)
  /\ overlapped' = IF Unsent(k)' THEN stopping ELSE overlapped
  /\ answered' = (answered /\ ~Unsent(k)')
  /\ alone' = (alone /\ ~Unsent(k)')
  /\ UNCHANGED <<stopping, driven>>

Press(k) ==
  /\ ReceiveEmergencyStop(k)
  /\ stopping' = stopping \cup {k}
  /\ overlapped' = IF \E j \in Conns : Unsent(j) THEN overlapped \cup {k} ELSE overlapped
  /\ UNCHANGED <<answered, alone, driven>>

\* The service is about to record this emergency stop.
Succeeds(p) == p \in stopping /\ call[p].step = "commit"

\* The service has recorded the stop, or the write of it has failed.
Answer(p) ==
  /\ Finish(p)
  /\ stopping' = stopping \ {p}
  /\ overlapped' = overlapped \ {p}
  /\ answered' = (answered \/ Succeeds(p))
  /\ alone' = (alone \/ (Succeeds(p) /\ p \notin overlapped))
  /\ UNCHANGED driven

Datagram(p) ==
  /\ WriteDatagram(p)
  /\ driven' = (p # Main /\ (driven \/ call[p].drive # Halt))
  /\ UNCHANGED stopVars

Terminate == Signal /\ driven' = FALSE /\ UNCHANGED stopVars

EmergencyNext ==
  \/ \E k \in Conns :
       \/ \E cmd \in Commands : Accept(k, cmd)
       \/ Press(k)
       \/ (Connect(k) \/ ReceiveStop(k) \/ Disconnect(k)) /\ UNCHANGED emergencyVars
  \/ \E p \in Callers : Answer(p) \/ Datagram(p) \/ (WriteError(p) /\ UNCHANGED emergencyVars)
  \/ Terminate
  \/ /\ \/ Check \/ Elapse \/ Shutdown \/ Exit \/ Fail
        \/ \E r \in Reports : ReceiveTelemetry(r)
     /\ UNCHANGED emergencyVars

EmergencySpec == EmergencyInit /\ [][EmergencyNext]_<<vars, emergencyVars>>

------------------------------------------------------------------------------
\* Once an emergency stop is answered the car has been told to stand, until
\* somebody drives it again.
EmergencyStopHolds == answered => wire = Halt

\* The same of an emergency stop that no drive overlaps: neither one that was
\* accepted and not yet written when the stop came, nor one accepted before the
\* stop was answered.
LoneStopHolds == alone => wire = Halt

\* The backend exits on a signal with the car told to stand, unless the last write
\* failed or a handler wrote a drive after main had written its stop.
SignalParksUnlessDriven == app = "stopped" => wire = Halt \/ writeFailed \/ driven
==============================================================================
