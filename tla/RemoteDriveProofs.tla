--------------------------- MODULE RemoteDriveProofs ---------------------------
(***************************************************************************)
(* The backend that serves one page does what CarServer allows: what is    *)
(* proved of CarServer for any clients holds of it.  For that the messages *)
(* under way must be ones the page can send, which RemoteInv says.         *)
(***************************************************************************)
EXTENDS RemoteDrive, CarServerProofs

Messages == {Browser!Drive(i) : i \in Inputs} \cup {Browser!Stop, Browser!EmergencyStop}

RemoteInv ==
  /\ active \in Inputs \cup {None}
  /\ ready => socket \in Conns
  /\ way \in [Conns -> Seq(Messages)]

\* A drive under way asks for speeds one of the inputs stands for.
LEMMA DrivesAreCommands ==
  ASSUME NEW message \in Messages, message.kind = "drive"
  PROVE  message.command \in Commands
PROOF
<1>1. PICK i \in Inputs : message = Browser!Drive(i)
  BY DEF Messages, Browser!Stop, Browser!EmergencyStop
<1> QED
  BY <1>1, DriveAssumption DEF Browser!Drive

LEMMA SendKeepsInv ==
  ASSUME RemoteInv, active' \in Inputs \cup {None},
         NEW messages \in Seq(Messages), Browser!Send(messages)
  PROVE  RemoteInv'
PROOF
<1>1. CASE ready
  <2>1. way[socket] \o messages \in Seq(Messages)
    BY <1>1 DEF RemoteInv
  <2> QED
    BY <1>1, <2>1 DEF Browser!Send, RemoteInv
<1>2. CASE ~ready
  BY <1>2 DEF Browser!Send, RemoteInv
<1> QED
  BY <1>1, <1>2

LEMMA PageStepKeepsInv ==
  ASSUME RemoteInv, Browser!PageStep
  PROVE  RemoteInv'
PROOF
<1>0. /\ <<>> \in Seq(Messages)
      /\ \A i \in Inputs : <<Browser!Drive(i)>> \in Seq(Messages)
      /\ <<Browser!Stop>> \in Seq(Messages)
      /\ <<Browser!Stop, Browser!EmergencyStop>> \in Seq(Messages)
  BY DEF Messages
<1>1. ASSUME NEW i \in Inputs, Browser!Press(i) PROVE RemoteInv'
  BY <1>0, <1>1, SendKeepsInv DEF Browser!Press
<1>2. ASSUME NEW i \in Inputs, Browser!Release(i) PROVE RemoteInv'
  BY <1>0, <1>2, SendKeepsInv DEF Browser!Release
<1>3. CASE Browser!Repeat
  BY <1>0, <1>3, SendKeepsInv DEF Browser!Repeat, RemoteInv
<1>4. CASE Browser!Blur
  BY <1>0, <1>4, SendKeepsInv DEF Browser!Blur
<1>5. CASE Browser!PressStop
  BY <1>0, <1>5, SendKeepsInv DEF Browser!PressStop
<1>6. CASE Browser!SocketCloses
  <2>1. CASE ready
    <3>1. PICK n \in 0 .. Len(way[socket]) :
            way' = [way EXCEPT ![socket] = SubSeq(@, 1, n)]
      BY <1>6, <2>1 DEF Browser!SocketCloses
    <3>2. SubSeq(way[socket], 1, n) \in Seq(Messages)
      BY <2>1 DEF RemoteInv
    <3> QED
      BY <1>6, <2>1, <3>1, <3>2 DEF Browser!SocketCloses, RemoteInv
  <2>2. CASE ~ready
    BY <1>6, <2>2 DEF Browser!SocketCloses, RemoteInv
  <2> QED
    BY <2>1, <2>2
<1> QED
  BY <1>1, <1>2, <1>3, <1>4, <1>5, <1>6 DEF Browser!PageStep

LEMMA RemoteStep == RemoteInv /\ [DriveNext]_driveVars => RemoteInv'
PROOF
<1> SUFFICES ASSUME RemoteInv, [DriveNext]_driveVars PROVE RemoteInv'
  OBVIOUS
<1>1. CASE Browser!PageStep
  BY <1>1, PageStepKeepsInv
<1>2. ASSUME NEW k \in Conns, OpenConnection(k) PROVE RemoteInv'
  BY <1>2 DEF OpenConnection, Browser!SocketOpens, RemoteInv
<1>3. ASSUME NEW k \in Conns, ReadMessage(k) PROVE RemoteInv'
  <2>1. Tail(way[k]) \in Seq(Messages)
    BY <1>3 DEF ReadMessage, RemoteInv
  <2> QED
    BY <1>3, <2>1 DEF ReadMessage, RemoteInv
<1>4. ASSUME NEW k \in Conns, LoseConnection(k) PROVE RemoteInv'
  BY <1>4 DEF LoseConnection, RemoteInv
<1>5. CASE UNCHANGED clientVars
  BY <1>5 DEF clientVars, RemoteInv
<1> QED
  BY <1>1, <1>2, <1>3, <1>4, <1>5 DEF DriveNext, driveVars

\* Every step of the composed system is one of the backend, or leaves it alone.
LEMMA DriveStepIsServerStep == RemoteInv /\ [DriveNext]_driveVars => [ServerNext]_vars
PROOF
<1> SUFFICES ASSUME RemoteInv, [DriveNext]_driveVars PROVE [ServerNext]_vars
  OBVIOUS
<1>1. ASSUME NEW k \in Conns, OpenConnection(k) PROVE ServerNext
  BY <1>1 DEF OpenConnection, Handler, ServerNext, RunningNext
<1>2. ASSUME NEW k \in Conns, ReadMessage(k) PROVE [ServerNext]_vars
  <2>1. Head(way[k]) \in Messages
    BY <1>2 DEF ReadMessage, RemoteInv
  <2>2. Message(k) \/ UNCHANGED vars
    BY <1>2, <2>1, DrivesAreCommands DEF ReadMessage, Message
  <2> QED
    BY <2>2 DEF Handler, ServerNext, RunningNext
<1>3. ASSUME NEW k \in Conns, LoseConnection(k) PROVE ServerNext
  BY <1>3 DEF LoseConnection, Handler, ServerNext, RunningNext
<1>4. CASE BackendStep
  BY <1>4 DEF BackendStep, ServerNext, RunningNext
<1>5. CASE UNCHANGED vars
  BY <1>5
<1> QED
  BY <1>1, <1>2, <1>3, <1>4, <1>5 DEF DriveNext, driveVars

LEMMA RemoteInit == DriveInit => RemoteInv
PROOF BY DEF DriveInit, Browser!ClientInit, RemoteInv

\* The backend behind the page is CarServer.
THEOREM DriveImplementsServer == DriveSpec => ServerSpec
PROOF
<1>1. DriveInit => ServerInit
  BY DEF DriveInit
<1> QED
  BY <1>1, RemoteInit, RemoteStep, DriveStepIsServerStep, PTL DEF DriveSpec, ServerSpec

\* An owner that has gone leaves the car standing, whatever its page was sending.
THEOREM PageOwnerParked == DriveSpec => []DepartedOwnerParked
PROOF BY DriveImplementsServer, DepartedOwnerParkedAlways, PTL

\* The page repeats a command only while its input is held down, for any inputs, any
\* connections and any loss.
THEOREM ActiveOnlyWhileHeldAlways == DriveSpec => []ActiveOnlyWhileHeld
PROOF
<1> USE DEF ActiveOnlyWhileHeld, Browser!ActiveOnlyWhileHeld
<1>1. DriveInit => ActiveOnlyWhileHeld
  BY DEF DriveInit, Browser!ClientInit
<1>2. ActiveOnlyWhileHeld /\ [DriveNext]_driveVars => ActiveOnlyWhileHeld'
  <2> SUFFICES ASSUME ActiveOnlyWhileHeld, [DriveNext]_driveVars
               PROVE  ActiveOnlyWhileHeld'
    OBVIOUS
  <2>1. ASSUME NEW i \in Inputs, Browser!Press(i) \/ Browser!Release(i)
        PROVE  ActiveOnlyWhileHeld'
    BY <2>1 DEF Browser!Press, Browser!Release
  <2>2. CASE Browser!Repeat \/ Browser!Blur \/ Browser!PressStop \/ Browser!SocketCloses
    BY <2>2 DEF Browser!Repeat, Browser!Blur, Browser!PressStop, Browser!SocketCloses
  <2>3. ASSUME NEW k \in Conns, OpenConnection(k) \/ ReadMessage(k) \/ LoseConnection(k)
        PROVE  ActiveOnlyWhileHeld'
    BY <2>3 DEF OpenConnection, Browser!SocketOpens, ReadMessage, LoseConnection
  <2>4. CASE UNCHANGED clientVars
    BY <2>4 DEF clientVars
  <2> QED
    BY <2>1, <2>2, <2>3, <2>4 DEF DriveNext, driveVars, Browser!PageStep
<1> QED
  BY <1>1, <1>2, PTL DEF DriveSpec

------------------------------------------------------------------------------
(* Letting go stops the car.  While the car moves, its halt is about to be *)
(* written, or a connection of the owner is open that has still something  *)
(* to say: the page drives on it, or a message is under way whose last is  *)
(* a stop, or its handler has yet to find that the page has given it up.   *)

\* The page has an open socket and drives no more.
Quiet == ready /\ active = None

\* There is nothing more to come from this connection.
Settled(k) == Quiet /\ k = socket /\ way[k] = <<>>

\* No time passes, so no lease ends and no tick comes.
Timeless == lastCommand \in {0, Never} /\ ~tick

FreshUnused ==
  /\ ready => socket \in used
  /\ \A k \in Conns \ used : way[k] = <<>> /\ k \notin open

LastIsStop == Quiet /\ way[socket] # <<>> => way[socket][Len(way[socket])].kind # "drive"

\* A drive in the handler is followed by a message the handler has not read.
StopFollows == Quiet /\ Driving(socket) => way[socket] # <<>>

MotionWatched ==
  Alive /\ wire # Halt /\ ~writeFailed =>
    /\ owner # NoClient
    /\ \/ \E p \in Callers : HaltPending(p)
       \/ \E k \in open : Client(k) = owner /\ ~Settled(k)

StopInv == Timeless /\ FreshUnused /\ LastIsStop /\ StopFollows /\ MotionWatched

\* What the steps of the backend and those of the page may assume.
DriveContext == ParkInv /\ RemoteInv /\ StopInv

LEMMA StopInit == DriveInit => StopInv
PROOF
<1> SUFFICES ASSUME DriveInit PROVE StopInv
  OBVIOUS
<1>1. wire = Halt /\ open = {} /\ lastCommand = Never /\ tick = FALSE /\ ready = FALSE
  BY DEF DriveInit, ServerInit, Access!AccessInit, Service!ServiceInit, Halt, Browser!ClientInit
<1>2. way = [k \in Conns |-> <<>>]
  BY DEF DriveInit, Browser!ClientInit
<1> QED
  BY <1>1, <1>2 DEF StopInv, Timeless, FreshUnused, LastIsStop, StopFollows, MotionWatched, Quiet

\* The client of a connection is constant.
LEMMA SameClient == \A k \in Conns : Client(k)' = Client(k)
PROOF BY DEF Client, Access!ResolveClient, Access!operatorsByIP, Access!EntriesFor

LEMMA LeaseRuns ==
  ASSUME Timeless
  PROVE  ~Access!Expired /\ Access!LiveOwner = owner
PROOF
<1>1. ~(0 > ControlTimeout)
  BY ServerAssumption
<1> QED
  BY <1>1 DEF Timeless, Access!Expired, Access!LiveOwner

LEMMA TimelessStep ==
  ASSUME Timeless, [DriveNext]_driveVars
  PROVE  Timeless'
PROOF
<1>0. ~Access!Expired
  BY LeaseRuns
<1>1. CASE UNCHANGED <<accessVars, tick>>
  BY <1>1 DEF Timeless, accessVars
<1>2. ASSUME NEW k \in Conns, ReadMessage(k) \/ LoseConnection(k) PROVE Timeless'
  <2>1. UNCHANGED tick
    BY <1>2 DEF ReadMessage, LoseConnection, ReceiveControl, ReceiveStop, ReceiveEmergencyStop,
                Disconnect, serverVars, vars
  <2>2. lastCommand' \in {lastCommand, 0}
    BY <1>0, <1>2
    DEF ReadMessage, LoseConnection, ReceiveControl, ReceiveStop, ReceiveEmergencyStop,
        Disconnect, Access!CanControlGranted, Access!CanControlDenied,
        Access!AllowEmergencyStop, Access!IsOwner, Access!ReleaseExpired, Access!accessVars,
        accessVars, vars
  <2> QED
    BY <2>1, <2>2 DEF Timeless
<1>3. ASSUME NEW k \in Conns, OpenConnection(k) PROVE UNCHANGED <<accessVars, tick>>
  BY <1>3 DEF OpenConnection, Connect
<1>4. CASE BackendStep
  BY <1>1, <1>4
  DEF BackendStep, Lifecycle, Signal, Shutdown, Exit, Fail, WriteDatagram, WriteError, Finish
<1>5. CASE UNCHANGED vars
  BY <1>1, <1>5 DEF vars, serverVars
<1> QED
  BY <1>1, <1>2, <1>3, <1>4, <1>5 DEF DriveNext, driveVars

LEMMA FreshUnusedStep ==
  ASSUME RemoteInv, FreshUnused, [DriveNext]_driveVars
  PROVE  FreshUnused'
PROOF
<1>1. CASE Browser!PageStep /\ UNCHANGED vars
  <2>1. /\ UNCHANGED <<open, used, socket>> /\ ready' \in {ready, FALSE}
        /\ ~ready => way' = way
        /\ \A k \in Conns : k # socket => way'[k] = way[k]
    BY <1>1
    DEF Browser!PageStep, Browser!Press, Browser!Release, Browser!Repeat, Browser!Blur,
        Browser!PressStop, Browser!SocketCloses, Browser!Send, vars, serverVars, RemoteInv
  <2>2. ASSUME NEW k \in Conns \ used PROVE way'[k] = <<>> /\ k \notin open
    <3>1. ready => k # socket
      BY <2>2 DEF FreshUnused
    <3> QED
      BY <2>1, <2>2, <3>1 DEF FreshUnused
  <2>3. ready' => socket' \in used'
    BY <2>1 DEF FreshUnused
  <2> QED
    BY <2>1, <2>2, <2>3 DEF FreshUnused
<1>2. ASSUME NEW k \in Conns, OpenConnection(k) PROVE FreshUnused'
  BY <1>2 DEF OpenConnection, Connect, Browser!SocketOpens, FreshUnused
<1>3. ASSUME NEW k \in Conns, ReadMessage(k) PROVE FreshUnused'
  BY <1>3
  DEF ReadMessage, ReceiveControl, ReceiveStop, ReceiveEmergencyStop, serverVars, vars,
      FreshUnused, RemoteInv
<1>4. ASSUME NEW k \in Conns, LoseConnection(k) PROVE FreshUnused'
  BY <1>4 DEF LoseConnection, Disconnect, FreshUnused, RemoteInv
<1>5. CASE BackendStep /\ UNCHANGED clientVars
  BY <1>5
  DEF BackendStep, Lifecycle, Signal, Shutdown, Exit, Fail, WriteDatagram, WriteError, Finish,
      clientVars, FreshUnused
<1>6. CASE UNCHANGED driveVars
  BY <1>6 DEF driveVars, vars, serverVars, clientVars, FreshUnused
<1> QED
  BY <1>1, <1>2, <1>3, <1>4, <1>5, <1>6 DEF DriveNext

\* The last of a sequence that grows is the last it grows by; reading leaves it the last.
LEMMA LastStays ==
  ASSUME NEW S, NEW s \in Seq(S)
  PROVE  /\ \A m \in Seq(S) : m # <<>> => s \o m # <<>> /\ (s \o m)[Len(s \o m)] = m[Len(m)]
         /\ s # <<>> /\ Tail(s) # <<>> => Tail(s)[Len(Tail(s))] = s[Len(s)]
         /\ s # <<>> /\ Tail(s) = <<>> => Head(s) = s[Len(s)]
PROOF
<1>1. ASSUME NEW m \in Seq(S), m # <<>>
      PROVE  s \o m # <<>> /\ (s \o m)[Len(s \o m)] = m[Len(m)]
  <2>1. Len(s) \in Nat /\ Len(m) \in Nat \ {0} /\ Len(s \o m) = Len(s) + Len(m)
    BY <1>1
  <2>2. s \o m # <<>>
    BY <2>1
  <2> QED
    BY <2>1, <2>2
<1>2. ASSUME s # <<>>
      PROVE  Len(Tail(s)) = Len(s) - 1 /\ Len(s) \in Nat \ {0} /\ Tail(s) \in Seq(S)
  BY <1>2
<1>3. ASSUME s # <<>>, Tail(s) # <<>>
      PROVE  Tail(s)[Len(Tail(s))] = s[Len(s)]
  <2>1. Len(Tail(s)) \in 1 .. Len(s) - 1
    BY <1>2, <1>3
  <2> QED
    BY <1>2, <1>3, <2>1
<1>4. ASSUME s # <<>>, Tail(s) = <<>>
      PROVE  Head(s) = s[Len(s)]
  <2>1. Len(Tail(s)) = 0
    <3>1. \A t \in Seq(S) : t = <<>> => Len(t) = 0
      OBVIOUS
    <3> QED
      BY <1>2, <1>4, <3>1
  <2>2. Len(s) = 1
    BY <1>2, <1>4, <2>1
  <2> QED
    BY <1>4, <2>2
<1> QED
  BY <1>1, <1>3, <1>4

\* When the page falls quiet on an open socket, a stop is the last it has said.
LEMMA StopIsLast ==
  ASSUME RemoteInv, NEW messages \in {<<Browser!Stop>>, <<Browser!Stop, Browser!EmergencyStop>>},
         Browser!Send(messages), ready
  PROVE  /\ ready' /\ socket' = socket /\ way'[socket] # <<>>
         /\ way'[socket][Len(way'[socket])].kind # "drive"
PROOF
<1>1. messages \in Seq(Messages) /\ messages # <<>> /\ messages[Len(messages)].kind # "drive"
  BY DEF Messages, Browser!Stop, Browser!EmergencyStop
<1>2. way' = [way EXCEPT ![socket] = @ \o messages] /\ socket \in Conns /\ way[socket] \in Seq(Messages)
  BY DEF Browser!Send, RemoteInv
<1>3. way'[socket] = way[socket] \o messages
  BY <1>2 DEF RemoteInv
<1> QED
  BY <1>1, <1>2, <1>3, LastStays DEF Browser!Send

\* A step of the page leaves it driving, or without a socket, or with a stop under way;
\* or it changes nothing of this.
LEMMA PageStepTells ==
  ASSUME RemoteInv, Browser!PageStep
  PROVE  \/ ~Quiet'
         \/ /\ socket' = socket /\ way'[socket] # <<>>
            /\ way'[socket][Len(way'[socket])].kind # "drive"
PROOF
<1>1. ASSUME NEW i \in Inputs, Browser!Press(i) PROVE ~Quiet'
  BY <1>1, DriveAssumption DEF Browser!Press, Quiet
<1>2. CASE Browser!Repeat
  BY <1>2 DEF Browser!Repeat, Quiet
<1>3. CASE Browser!SocketCloses
  BY <1>3 DEF Browser!SocketCloses, Quiet
<1>4. ASSUME NEW messages \in {<<Browser!Stop>>, <<Browser!Stop, Browser!EmergencyStop>>},
             Browser!Send(messages), ready'
      PROVE  /\ socket' = socket /\ way'[socket] # <<>>
             /\ way'[socket][Len(way'[socket])].kind # "drive"
  <2>1. ready
    BY <1>4 DEF Browser!Send
  <2> QED
    BY <1>4, <2>1, StopIsLast
<1>5. ASSUME NEW i \in Inputs, Browser!Release(i) PROVE Browser!Send(<<Browser!Stop>>)
  BY <1>5 DEF Browser!Release
<1>6. CASE Browser!Blur
  BY <1>4, <1>6 DEF Browser!Blur, Quiet
<1>7. CASE Browser!PressStop
  BY <1>4, <1>7 DEF Browser!PressStop, Quiet
<1> QED
  BY <1>1, <1>2, <1>3, <1>4, <1>5, <1>6, <1>7 DEF Browser!PageStep, Quiet

\* The handler reads a message of its connection, and only there is less to come.
LEMMA ReadShortens ==
  ASSUME RemoteInv, LastIsStop, NEW k \in Conns, ReadMessage(k)
  PROVE  /\ way'[k] = Tail(way[k]) /\ \A j \in Conns \ {k} : way'[j] = way[j]
         /\ UNCHANGED <<active, socket, ready, used>>
         /\ Quiet /\ k = socket /\ way'[k] # <<>> => way'[k][Len(way'[k])].kind # "drive"
         /\ Quiet /\ k = socket /\ Head(way[k]).kind = "drive" => way'[k] # <<>>
PROOF
<1>1. /\ way[k] \in Seq(Messages) /\ way[k] # <<>>
      /\ way' = [way EXCEPT ![k] = Tail(@)] /\ UNCHANGED <<active, socket, ready, used>>
  BY DEF ReadMessage, RemoteInv
<1>2. way'[k] = Tail(way[k]) /\ \A j \in Conns \ {k} : way'[j] = way[j]
  BY <1>1 DEF RemoteInv
<1> QED
  BY <1>1, <1>2, LastStays DEF LastIsStop

LEMMA LastIsStopStep ==
  ASSUME RemoteInv, FreshUnused, LastIsStop, [DriveNext]_driveVars
  PROVE  LastIsStop'
PROOF
<1>1. CASE Browser!PageStep
  BY <1>1, PageStepTells DEF LastIsStop
<1>2. ASSUME NEW k \in Conns, OpenConnection(k) PROVE LastIsStop'
  BY <1>2 DEF OpenConnection, Browser!SocketOpens, FreshUnused, LastIsStop
<1>3. ASSUME NEW k \in Conns, ReadMessage(k) PROVE LastIsStop'
  <2>1. ready => socket \in Conns
    BY DEF RemoteInv
  <2>2. (Quiet' <=> Quiet) /\ socket' = socket
    BY <1>3, ReadShortens DEF Quiet
  <2>3. CASE Quiet /\ k = socket
    BY <1>3, <2>2, <2>3, ReadShortens DEF LastIsStop
  <2>4. CASE Quiet /\ k # socket
    <3>1. way'[socket] = way[socket]
      BY <1>3, <2>1, <2>4, ReadShortens DEF Quiet
    <3> QED
      BY <2>2, <3>1 DEF LastIsStop
  <2>5. CASE ~Quiet
    BY <2>2, <2>5 DEF LastIsStop
  <2> QED
    BY <2>3, <2>4, <2>5
<1>4. ASSUME NEW k \in Conns, LoseConnection(k) PROVE LastIsStop'
  BY <1>4 DEF LoseConnection, LastIsStop, Quiet, RemoteInv
<1>5. CASE UNCHANGED clientVars
  BY <1>5 DEF clientVars, LastIsStop, Quiet
<1> QED
  BY <1>1, <1>2, <1>3, <1>4, <1>5 DEF DriveNext, driveVars

\* The backend's steps begin no drive.
LEMMA BackendBeginsNoDrive ==
  ASSUME ParkInv, BackendStep
  PROVE  NoDriveBegins
PROOF
<1>1. ASSUME NEW p \in Callers, WriteDatagram(p) \/ WriteError(p) \/ Finish(p)
      PROVE  NoDriveBegins
  BY <1>1, WriteBeginsNoDrive, EndBeginsNoDrive DEF ParkInv, WriteDatagram, WriteError, Finish
<1>2. CASE Signal
  <2>1. Main \in Callers
    BY DEF Callers
  <2> QED
    BY <1>2, <2>1, StopBeginsNoDrive DEF ParkInv, Signal
<1>3. CASE Shutdown \/ Exit \/ Fail
  BY <1>3, UnchangedBeginsNoDrive DEF ParkInv, Shutdown, Exit, Fail, serviceVars
<1> QED
  BY <1>1, <1>2, <1>3 DEF BackendStep, Lifecycle

\* A handler that has returned to its read has no drive on its way, and whatever it
\* reads but a drive gives it none; the other handlers are left alone.
LEMMA ReadingDrives ==
  ASSUME ParkInv, NEW k \in Conns,
         Reading(k),
         \/ \E cmd \in Commands : Service!Drive(k, cmd)
         \/ Service!Stop(k)
         \/ UNCHANGED serviceVars
  PROVE  /\ \A j \in Conns \ {k} : Driving(j)' => Driving(j)
         /\ Service!Stop(k) \/ UNCHANGED serviceVars => ~Driving(k)'
         /\ \A p \in Callers : HaltPending(p) => HaltPending(p)'
         /\ Service!Stop(k) => HaltPending(k)'
         /\ wire' = wire
PROOF
<1>1. /\ call \in [Callers -> Calls] /\ k \in Callers /\ call[k].step = "idle"
      /\ \A j \in Conns : j \in Callers
  BY DEF ParkInv, DriveInv, Reading, Service!Busy, Callers
<1>2. wire' = wire /\ \A p \in Callers \ {k} : call'[p] = call[p]
  BY <1>1 DEF Service!Drive, Service!Stop, serviceVars
<1>3. Service!Stop(k) => call'[k] = [step |-> "write", drive |-> Halt]
  BY <1>1 DEF Service!Stop, Halt
<1>4. Service!Stop(k) \/ UNCHANGED serviceVars => ~Driving(k)'
  BY <1>1, <1>3 DEF Driving, serviceVars
<1> QED
  BY <1>1, <1>2, <1>3, <1>4 DEF Driving, HaltPending

\* What a handler does for a message, and what for the end of its connection.
LEMMA ReadCases ==
  ASSUME RemoteInv, NEW k \in Conns, ReadMessage(k)
  PROVE  /\ Reading(k) /\ UNCHANGED serverVars
         /\ \/ /\ Head(way[k]).kind = "drive"
               /\ \/ \E cmd \in Commands : Service!Drive(k, cmd)
                  \/ UNCHANGED serviceVars
            \/ Head(way[k]).kind # "drive" /\ (Service!Stop(k) \/ UNCHANGED serviceVars)
PROOF
<1>1. Head(way[k]) \in Messages
  BY DEF ReadMessage, RemoteInv
<1>2. CASE Head(way[k]).kind = "drive"
  BY <1>1, <1>2, DrivesAreCommands DEF ReadMessage, ReceiveControl
<1>3. CASE Head(way[k]).kind # "drive"
  BY <1>3 DEF ReadMessage, ReceiveStop, ReceiveEmergencyStop, vars
<1> QED
  BY <1>2, <1>3

LEMMA StopFollowsStep ==
  ASSUME DriveContext, [DriveNext]_driveVars
  PROVE  StopFollows'
PROOF
<1> USE DEF DriveContext, StopInv
<1>1. CASE Browser!PageStep /\ UNCHANGED vars
  BY <1>1, PageStepTells DEF StopFollows
<1>2. ASSUME NEW k \in Conns, OpenConnection(k) PROVE StopFollows'
  <2>1. k \in Callers /\ k \notin open /\ call' = call /\ socket' = k
    BY <1>2 DEF OpenConnection, Connect, Browser!SocketOpens, serviceVars, Callers
  <2>2. ~Driving(k)'
    BY <2>1 DEF ParkInv, HandlersDrive, Driving
  <2> QED
    BY <2>1, <2>2 DEF StopFollows
<1>3. ASSUME NEW k \in Conns, ReadMessage(k), Quiet', Driving(socket)'
      PROVE  way'[socket] # <<>>
  <2>1. Quiet /\ socket' = socket /\ socket \in Conns
    BY <1>3, ReadShortens DEF Quiet, RemoteInv
  <2>2. CASE k = socket
    <3>1. Head(way[k]).kind = "drive"
      BY <1>3, <2>1, <2>2, ReadCases, ReadingDrives DEF Driving
    <3> QED
      BY <1>3, <2>1, <2>2, <3>1, ReadShortens
  <2>3. CASE k # socket
    <3>1. Driving(socket) /\ way'[socket] = way[socket]
      BY <1>3, <2>1, <2>3, ReadCases, ReadingDrives, ReadShortens
    <3> QED
      BY <2>1, <3>1 DEF StopFollows
  <2> QED
    BY <2>2, <2>3
<1>4. ASSUME NEW k \in Conns, LoseConnection(k), Quiet', Driving(socket)'
      PROVE  way'[socket] # <<>>
  <2>1. Quiet /\ socket' = socket /\ socket \in Conns
    BY <1>4 DEF LoseConnection, Quiet, RemoteInv
  <2>2. Reading(k) /\ (Service!Stop(k) \/ UNCHANGED serviceVars)
    BY <1>4 DEF LoseConnection, Disconnect
  <2>3. CASE k = socket
    BY <1>4, <2>1, <2>2, <2>3, ReadingDrives DEF Driving
  <2>4. CASE k # socket
    <3>1. Driving(socket) /\ way'[socket] = way[socket]
      BY <1>4, <2>1, <2>2, <2>4, ReadingDrives DEF LoseConnection, RemoteInv
    <3> QED
      BY <2>1, <3>1 DEF StopFollows
  <2> QED
    BY <2>3, <2>4
<1>5. ASSUME BackendStep \/ UNCHANGED call, UNCHANGED clientVars PROVE StopFollows'
  <2>1. NoDriveBegins
    BY <1>5, BackendBeginsNoDrive, UnchangedBeginsNoDrive DEF ParkInv
  <2>2. Quiet' => Quiet /\ socket \in Conns
    BY <1>5 DEF clientVars, Quiet, RemoteInv
  <2> QED
    BY <1>5, <2>1, <2>2 DEF clientVars, StopFollows, NoDriveBegins
<1> QED
  BY <1>1, <1>2, <1>3, <1>4, <1>5, ReadShortens DEF DriveNext, driveVars, vars, serviceVars, StopFollows, LoseConnection

\* A step that takes away no halt and settles no connection of the owner, unless it
\* begins a halt, leaves the moving car watched.
LEMMA WatchKept ==
  ASSUME ParkInv, MotionWatched, Alive' => Alive, UNCHANGED <<wire, writeFailed>>,
         owner # NoClient => owner' = owner,
         \A p \in Callers : HaltPending(p) => HaltPending(p)',
         \A k \in open : owner # NoClient /\ Client(k) = owner /\ ~Settled(k) =>
           \/ k \in open' /\ ~Settled(k)'
           \/ \E p \in Callers : HaltPending(p)'
  PROVE  MotionWatched'
PROOF
<1> SUFFICES ASSUME Alive', wire' # Halt, ~writeFailed'
             PROVE  /\ owner' # NoClient
                    /\ \/ \E p \in Callers : HaltPending(p)'
                       \/ \E k \in open' : Client(k)' = owner' /\ ~Settled(k)'
  BY DEF MotionWatched, Halt, Service!Halt
<1>1. /\ owner' = owner /\ owner # NoClient
      /\ \/ \E p \in Callers : HaltPending(p)
         \/ \E k \in open : Client(k) = owner /\ ~Settled(k)
  BY DEF MotionWatched
<1>2. \A k \in open : Client(k)' = Client(k)
  BY SameClient DEF ParkInv, ServerTypeOK
<1> QED
  BY <1>1, <1>2

LEMMA ReadKeepsWatched ==
  ASSUME DriveContext, NEW k \in Conns, ReadMessage(k)
  PROVE  MotionWatched'
PROOF
<1> USE DEF DriveContext, StopInv
<1>0. k \in Callers /\ ~Access!Expired /\ Access!LiveOwner = owner
  BY LeaseRuns DEF Callers
<1>1. /\ UNCHANGED <<wire, writeFailed, open, app>>
      /\ \A p \in Callers : HaltPending(p) => HaltPending(p)'
      /\ Service!Stop(k) => HaltPending(k)'
  BY ReadCases, ReadingDrives DEF serverVars
<1>2. \A j \in Conns \ {k} : Settled(j)' => Settled(j)
  BY ReadShortens DEF Settled, Quiet
<1>3. owner # NoClient => owner' = owner
  BY <1>0
  DEF ReadMessage, ReceiveControl, ReceiveStop, ReceiveEmergencyStop, vars, accessVars,
      Access!CanControlGranted, Access!Grants, Access!CanControlDenied,
      Access!AllowEmergencyStop, Access!accessVars
<1>4. CASE Head(way[k]).kind = "drive"
  <2>1. Settled(k)' => Settled(k)
    BY <1>4, ReadShortens DEF Settled, Quiet
  <2> QED
    BY <1>1, <1>2, <1>3, <2>1, WatchKept DEF Alive, ParkInv, ServerTypeOK
<1>5. CASE Head(way[k]).kind # "drive"
  <2>1. owner # NoClient /\ Client(k) = owner => Service!Stop(k)
    BY <1>0, <1>5
    DEF ReadMessage, ReceiveStop, ReceiveEmergencyStop, Access!CanControlDenied, Access!Grants,
        Client
  <2> QED
    BY <1>0, <1>1, <1>2, <1>3, <2>1, WatchKept DEF Alive, ParkInv, ServerTypeOK
<1> QED
  BY <1>4, <1>5

LEMMA LossKeepsWatched ==
  ASSUME DriveContext, NEW k \in Conns, LoseConnection(k)
  PROVE  MotionWatched'
PROOF
<1> USE DEF DriveContext, StopInv
<1>0. k \in Callers /\ ~Access!Expired /\ Access!LiveOwner = owner
  BY LeaseRuns DEF Callers
<1>1. Reading(k) /\ (Service!Stop(k) \/ UNCHANGED serviceVars)
  BY DEF LoseConnection, Disconnect
<1>2. /\ UNCHANGED <<wire, writeFailed, app>> /\ open' = open \ {k}
      /\ \A p \in Callers : HaltPending(p) => HaltPending(p)'
      /\ Service!Stop(k) => HaltPending(k)'
  BY <1>1, ReadingDrives DEF LoseConnection, Disconnect
<1>3. \A j \in Conns \ {k} : Settled(j)' => Settled(j)
  BY DEF LoseConnection, Settled, Quiet, RemoteInv
<1>4. owner' = owner
  BY <1>0 DEF LoseConnection, Disconnect, Access!IsOwner, Access!ReleaseExpired, Access!accessVars
<1>5. owner # NoClient /\ Client(k) = owner => Service!Stop(k)
  BY <1>0 DEF LoseConnection, Disconnect, Access!Owns, Client
<1> QED
  BY <1>0, <1>2, <1>3, <1>4, <1>5, WatchKept DEF Alive, ParkInv, ServerTypeOK

LEMMA BackendKeepsWatched ==
  ASSUME DriveContext, BackendStep, UNCHANGED clientVars
  PROVE  MotionWatched'
PROOF
<1> USE DEF DriveContext, StopInv
<1>0. /\ \A k \in open : k \in Conns
      /\ \A k : Settled(k)' => Settled(k)
      /\ call \in [Callers -> Calls]
  BY DEF ParkInv, ServerTypeOK, clientVars, Settled, Quiet, DriveInv
<1>1. ASSUME NEW p \in Callers, WriteDatagram(p), wire' # Halt
      PROVE  MotionWatched'
  <2>1. /\ wire' = call[p].drive /\ call[p].step = "write"
        /\ UNCHANGED <<accessVars, open>>
    BY <1>1 DEF WriteDatagram, Service!Write
  <2>2. p \in open /\ p \in Conns /\ Driving(p)
    BY <1>0, <1>1, <2>1 DEF ParkInv, HandlersDrive, Driving, Halt, Service!Halt
  <2>3. Client(p) # NoClient /\ owner = Client(p)
    BY <2>2 DEF ParkInv, DriveInv, GrantedDriverOwns
  <2>4. ~Settled(p)
    BY <2>2 DEF Settled, StopFollows
  <2> QED
    BY <1>0, <2>1, <2>2, <2>3, <2>4, SameClient DEF MotionWatched, accessVars
<1>2. ASSUME NEW p \in Callers, WriteDatagram(p), wire' = Halt
      PROVE  MotionWatched'
  BY <1>2 DEF MotionWatched, Halt, Service!Halt
<1>3. ASSUME NEW p \in Callers, WriteError(p)
      PROVE  MotionWatched'
  BY <1>3 DEF WriteError, MotionWatched
<1>4. ASSUME NEW p \in Callers, Finish(p)
      PROVE  MotionWatched'
  <2>1. /\ UNCHANGED <<wire, writeFailed, accessVars, open, app>>
        /\ call[p].step # "write" /\ \A q \in Callers \ {p} : call'[q] = call[q]
    BY <1>0, <1>4
    DEF Finish, Service!Return, Service!Commit, Service!SetMotorError, Service!SetInvalidCommand
  <2>2. \A q \in Callers : HaltPending(q) => HaltPending(q)'
    BY <2>1 DEF HaltPending, Halt, Service!Halt
  <2> QED
    BY <1>0, <2>1, <2>2, WatchKept DEF Alive, accessVars
<1>5. CASE Signal
  <2>1. Main \in Callers
    BY DEF Callers
  <2>2. HaltPending(Main)' /\ \A q \in Callers : HaltPending(q) => HaltPending(q)'
    BY <1>5, <2>1, StopKeepsHandlers DEF Signal
  <2>3. UNCHANGED <<wire, writeFailed, accessVars, open>> /\ Alive
    BY <1>5 DEF Signal, Service!Stop, Alive
  <2> QED
    BY <1>0, <2>2, <2>3, WatchKept DEF accessVars
<1>6. CASE Shutdown \/ Exit \/ Fail
  <2>1. UNCHANGED <<wire, writeFailed, accessVars, open, call>> /\ Alive
    BY <1>6 DEF Shutdown, Exit, Fail, serviceVars, Alive
  <2> QED
    BY <1>0, <2>1, WatchKept DEF accessVars, HaltPending, Halt, Service!Halt
<1> QED
  BY <1>1, <1>2, <1>3, <1>4, <1>5, <1>6 DEF BackendStep, Lifecycle

LEMMA MotionWatchedStep ==
  ASSUME DriveContext, [DriveNext]_driveVars
  PROVE  MotionWatched'
PROOF
<1> USE DEF DriveContext, StopInv
<1>1. ASSUME Browser!PageStep \/ UNCHANGED clientVars, UNCHANGED vars
      PROVE  MotionWatched'
  <2>1. \A k : Settled(k)' => Settled(k)
    BY <1>1, PageStepTells DEF Settled, clientVars, Quiet
  <2>2. UNCHANGED <<wire, writeFailed, owner, open, call, app>>
    BY <1>1 DEF vars, accessVars, serviceVars, serverVars
  <2> QED
    BY <2>1, <2>2, WatchKept DEF Alive, HaltPending, Halt, Service!Halt
<1>2. ASSUME NEW k \in Conns, OpenConnection(k) PROVE MotionWatched'
  <2>1. /\ UNCHANGED <<wire, writeFailed, owner, call, app>>
        /\ k \notin open /\ open' = open \cup {k} /\ socket' = k
    BY <1>2 DEF OpenConnection, Connect, Browser!SocketOpens, serviceVars, accessVars
  <2>2. \A j \in open : ~Settled(j)'
    BY <2>1 DEF Settled
  <2> QED
    BY <2>1, <2>2, WatchKept DEF Alive, HaltPending, Halt, Service!Halt
<1> QED
  BY <1>1, <1>2, ReadKeepsWatched, LossKeepsWatched, BackendKeepsWatched DEF DriveNext, driveVars

LEMMA StopStep == DriveContext /\ [DriveNext]_driveVars => StopInv'
PROOF
  BY TimelessStep, FreshUnusedStep, LastIsStopStep, StopFollowsStep, MotionWatchedStep
  DEF DriveContext, StopInv

\* When the page drives no more, and all it said is read or lost, the car has been told
\* to stand: for any inputs, any number of connections from any addresses, any number of
\* messages under way, and any loss.
THEOREM ReleaseStopsCarAlways == DriveSpec => []ReleaseStopsCar
PROOF
<1>1. DriveSpec => []ParkInv
  BY DriveImplementsServer, ParkInit, ParkStep, PTL DEF ServerSpec
<1>2. DriveSpec => []RemoteInv
  BY RemoteInit, RemoteStep, PTL DEF DriveSpec
<1>3. DriveSpec => []StopInv
  BY <1>1, <1>2, StopInit, StopStep, PTL DEF DriveSpec, DriveContext
<1>4. ParkInv /\ StopInv => ReleaseStopsCar
  BY DEF ParkInv, ServerTypeOK, StopInv, MotionWatched, ReleaseStopsCar, Settled, Quiet,
         HaltPending, Service!Busy
<1> QED
  BY <1>1, <1>3, <1>4, PTL
==============================================================================
