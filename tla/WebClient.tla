------------------------------ MODULE WebClient ------------------------------
(***************************************************************************)
(* The page web/app.js: what the operator holds down, the active command   *)
(* and its repetition, and the WebSocket with its reconnection.            *)
(*                                                                         *)
(* Event handlers of the page run one at a time, so each is one action.    *)
(* The interval of startDrive and the second before a reconnection are not *)
(* timed.  A message sent on an open socket joins those under way; nothing *)
(* tells the page whether it arrives.                                      *)
(***************************************************************************)
EXTENDS Integers, Sequences

CONSTANTS
  Inputs,      \* the hold buttons and the keys
  Buttons,     \* the hold buttons among them
  CommandOf,   \* the speeds each of them stands for
  Sockets,     \* the connections the page may open, one after the other
  None,        \* no input, no socket
  WayLimit     \* bound: with so many messages under way the page sends no more

VARIABLES
  held,     \* the inputs held down, as far as the page has seen; isPressed of a button
  active,   \* the input whose command is activeCommand, repeated while it is set
  socket,   \* the connection of the page's socket
  ready,    \* its readyState is OPEN
  used,     \* history: the connections opened so far
  way       \* the messages under way on each connection

pageVars == <<held, active, socket, ready>>
clientVars == <<pageVars, used, way>>

Drive(i) == [kind |-> "drive", command |-> CommandOf[i]]
Stop == [kind |-> "stop", command |-> None]
EmergencyStop == [kind |-> "emergency_stop", command |-> None]

\* sendMessage: a message is dropped unless the socket is open.
Send(messages) ==
  /\ ready => Len(way[socket]) < WayLimit
  /\ way' = IF ready THEN [way EXCEPT ![socket] = @ \o messages] ELSE way
  /\ UNCHANGED <<socket, ready, used>>

\* pointerdown on a hold button, keydown of a key that is not repeating: startDrive.
\* A key may go up while another window has the focus, and come down again here.
Press(i) ==
  /\ i \in Buttons => i \notin held
  /\ held' = held \cup {i}
  /\ active' = i
  /\ Send(<<Drive(i)>>)

\* Seeded fault for the mutant runs: the car goes on while another input is held.
ReleaseLast(i) ==
  /\ i \in Buttons => i \in held
  /\ held' = held \ {i}
  /\ IF held \subseteq {i} THEN active' = None /\ Send(<<Stop>>)
     ELSE UNCHANGED <<active, socket, ready, used, way>>

\* Seeded fault: the page falls silent and leaves the stop to the watchdog.
ReleaseSilently(i) ==
  /\ i \in Buttons => i \in held
  /\ held' = held \ {i}
  /\ active' = None
  /\ Send(<<>>)

\* pointerup, pointercancel, pointerleave, keyup: stopDrive, whatever else is held.
Release(i) ==
  /\ i \in Buttons => i \in held
  /\ held' = held \ {i}
  /\ active' = None
  /\ Send(<<Stop>>)

\* The interval of startDrive.
Repeat ==
  /\ active # None
  /\ Send(<<Drive(active)>>)
  /\ UNCHANGED <<held, active>>

\* The window loses the focus or is hidden: stopDrive, though the input is still held.
Blur ==
  /\ active' = None
  /\ Send(<<Stop>>)
  /\ UNCHANGED held

\* The stop button and the space key.
PressStop ==
  /\ active' = None
  /\ Send(<<Stop, EmergencyStop>>)
  /\ UNCHANGED held

\* onclose, after a connection or after an attempt that failed: stopDrive without a
\* message.  Of what was under way only a beginning is still delivered.
SocketCloses ==
  /\ ready' = FALSE
  /\ active' = None
  /\ IF ready THEN \E n \in 0 .. Len(way[socket]) : way' = [way EXCEPT ![socket] = SubSeq(@, 1, n)]
     ELSE UNCHANGED way
  /\ UNCHANGED <<held, socket, used>>

\* connectWebSocket, at first and by the timer of onclose, and onopen.
SocketOpens(k) ==
  /\ ~ready /\ k \notin used
  /\ socket' = k
  /\ ready' = TRUE
  /\ used' = used \cup {k}
  /\ UNCHANGED <<held, active, way>>

\* The page is loaded.
ClientInit ==
  /\ held = {}
  /\ active = None
  /\ socket = None
  /\ ready = FALSE
  /\ used = {}
  /\ way = [k \in Sockets |-> <<>>]

\* What the operator and the page do without the backend.
PageStep ==
  \/ \E i \in Inputs : Press(i) \/ Release(i)
  \/ Repeat
  \/ Blur
  \/ PressStop
  \/ SocketCloses

------------------------------------------------------------------------------
\* The page repeats a command only while the very input that gave it is held down: with
\* two inputs, lost sockets and windows out of focus, in any order.
ActiveOnlyWhileHeld == active # None => active \in held
==============================================================================
