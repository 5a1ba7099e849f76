---------------------------- MODULE TelemetryRelay ----------------------------
(***************************************************************************)
(* cmd/telemetry-relay on the Raspberry Pi: it forwards the telemetry of   *)
(* the car to the backend, one packet at a time.                           *)
(*                                                                         *)
(* One goroutine reads with a deadline of a second.  It looks at its       *)
(* context only when a read has run into that deadline, and any packet,    *)
(* rejected ones included, starts the next read with a new one.  A packet  *)
(* forwarded to a backend that does not listen succeeds; the refusal that  *)
(* comes back is the error of the next packet, and ends the relay, as any  *)
(* other error of its two sockets does.                                    *)
(***************************************************************************)
EXTENDS Integers, Sequences

CONSTANT QueueLimit  \* the packets the kernel keeps for the socket

ASSUME RelayAssumption == QueueLimit \in Nat \ {0}

VARIABLES
  relay,      \* where run stands, or how the process ended
  expired,    \* the read deadline has passed
  queue,      \* the senders of the packets that wait in the socket
  refused,    \* the forwarding socket holds a refusal
  signalled   \* the context is done

relayVars == <<relay, expired, queue, refused, signalled>>

Sources == {"car", "other"}

\* The process is past ListenUDP.
Listening == relay \in {"arming", "reading", "forwarding"}
RelayEnded == relay \in {"ok", "error", "killed"}

\* SetReadDeadline, at the head of the loop.
Arm ==
  /\ relay = "arming"
  /\ relay' = "reading"
  /\ expired' = FALSE
  /\ UNCHANGED <<queue, refused, signalled>>

\* ReadFromUDP: the packets of other senders are dropped.
Receive ==
  /\ relay = "reading" /\ queue # <<>> /\ ~expired
  /\ relay' = IF Head(queue) = "car" THEN "forwarding" ELSE "arming"
  /\ queue' = Tail(queue)
  /\ UNCHANGED <<expired, refused, signalled>>

\* Seeded fault for the mutant runs: a read that ran into the deadline is repeated.
TimeOutGoesOn ==
  /\ relay = "reading" /\ expired
  /\ relay' = "arming"
  /\ UNCHANGED <<expired, queue, refused, signalled>>

\* The deadline: only now the context is looked at.
TimeOut ==
  /\ relay = "reading" /\ expired
  /\ relay' = IF signalled THEN "ok" ELSE "arming"
  /\ queue' = IF signalled THEN <<>> ELSE queue
  /\ UNCHANGED <<expired, refused, signalled>>

\* forwarder.Write to a backend that listens, or not: it succeeds all the same, and
\* the refusal may come back or be lost.
Forward(target) ==
  /\ relay = "forwarding"
  /\ ~refused
  /\ relay' = "arming"
  /\ refused' \in {FALSE, ~target}
  /\ UNCHANGED <<expired, queue, signalled>>

\* forwarder.Write fails with what an earlier packet met.
ForwardFails ==
  /\ relay = "forwarding"
  /\ refused
  /\ relay' = "error"
  /\ queue' = <<>>
  /\ UNCHANGED <<expired, refused, signalled>>

\* SetReadDeadline, the read or the write fails for a reason of its own: the link is
\* down, the host has no route or no memory.  Each ends the relay.
RelayFails ==
  /\ Listening
  /\ relay' = "error"
  /\ queue' = <<>>
  /\ UNCHANGED <<expired, refused, signalled>>

\* run up to the loop; a bad address or a port in use, which end it, are left out.
StartRelay ==
  /\ relay = "starting"
  /\ relay' = "arming"
  /\ UNCHANGED <<expired, queue, refused, signalled>>

\* SIGTERM, which kills the process until NotifyContext has been called.
SignalRelay ==
  /\ ~RelayEnded /\ ~signalled
  /\ signalled' = TRUE
  /\ relay' = IF relay = "starting" THEN "killed" ELSE relay
  /\ UNCHANGED <<expired, queue, refused>>

\* A packet reaches the socket.
Arrive(source) ==
  /\ Listening /\ Len(queue) < QueueLimit
  /\ queue' = Append(queue, source)
  /\ UNCHANGED <<relay, expired, refused, signalled>>

\* The second is over, whatever the relay is doing.
Expire ==
  /\ Listening /\ ~expired
  /\ expired' = TRUE
  /\ UNCHANGED <<relay, queue, refused, signalled>>

RelayInit ==
  /\ relay = "starting"
  /\ expired = FALSE
  /\ queue = <<>>
  /\ refused = FALSE
  /\ signalled = FALSE
==============================================================================
