----------------------------- MODULE RemoteDrive -----------------------------
(***************************************************************************)
(* One operator's page and the backend: WebClient and CarServer over the   *)
(* WebSocket connections between them.  The messages of a connection       *)
(* arrive in order, after any delay; those of an old connection, which the *)
(* page has given up, may be read after those of the new one.              *)
(*                                                                         *)
(* No time passes here: neither the watchdog nor the end of a lease helps. *)
(* What the stops of the watchdog and the lease do is CarServer.           *)
(***************************************************************************)
EXTENDS CarServer

CONSTANTS Inputs, Buttons, CommandOf, None, WayLimit  \* see WebClient

ASSUME DriveAssumption == CommandOf \in [Inputs -> Commands] /\ None \notin Inputs

VARIABLES held, active, socket, ready, used, way

clientVars == <<held, active, socket, ready, used, way>>
driveVars == <<vars, clientVars>>

Browser == INSTANCE WebClient WITH Sockets <- Conns

\* The handshake, at both ends.
OpenConnection(k) ==
  /\ Browser!SocketOpens(k)
  /\ Connect(k)

\* The handler reads the next message of its connection.
ReadMessage(k) ==
  /\ way[k] # <<>>
  /\ LET message == Head(way[k]) IN
       \/ message.kind = "drive" /\ ReceiveControl(k, message.command)
       \/ message.kind = "stop" /\ ReceiveStop(k)
       \/ /\ message.kind = "emergency_stop"
          /\ IF Client(k) # NoClient THEN ReceiveEmergencyStop(k)
             ELSE Reading(k) /\ UNCHANGED vars  \* refused: a stranger's
  /\ way' = [way EXCEPT ![k] = Tail(@)]
  /\ UNCHANGED <<held, active, socket, ready, used>>

\* The read fails: the page has closed the connection and everything is read, or the
\* connection broke, and the rest is lost.
LoseConnection(k) ==
  /\ Disconnect(k)
  /\ way' = [way EXCEPT ![k] = <<>>]
  /\ UNCHANGED <<held, active, socket, ready, used>>

\* What the backend does without reading from a connection, and without time.
BackendStep ==
  \/ \E p \in Callers : WriteDatagram(p) \/ WriteError(p) \/ Finish(p)
  \/ Lifecycle

DriveInit == ServerInit /\ Browser!ClientInit

DriveNext ==
  \/ Browser!PageStep /\ UNCHANGED vars
  \/ \E k \in Conns : OpenConnection(k) \/ ReadMessage(k) \/ LoseConnection(k)
  \/ BackendStep /\ UNCHANGED clientVars

DriveSpec == DriveInit /\ [][DriveNext]_driveVars

------------------------------------------------------------------------------
ActiveOnlyWhileHeld == Browser!ActiveOnlyWhileHeld

\* When the page drives no more, all it sent has been read or lost, and the handlers of
\* its old connections are gone, the car has been told to stand: however late the drives
\* of an old connection are read, and though its stop was lost with the connection.
ReleaseStopsCar ==
  /\ Alive
  /\ active = None
  /\ \A k \in open : way[k] = <<>>
  /\ open \subseteq {socket} /\ (open # {} => ready)
  /\ \A p \in Callers : ~Service!Busy(p)
  => wire = Halt \/ writeFailed
==============================================================================
