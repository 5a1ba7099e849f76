------------------------------ MODULE MotorPort ------------------------------
(***************************************************************************)
(* What control.Service relies on: a call of Send puts its command on the  *)
(* wire once, between the call and its return, and returns without an      *)
(* error; or it never does, and returns an error.  Nothing is promised     *)
(* about the order of two calls that overlap.                              *)
(*                                                                         *)
(* MotorClient implements it, and ControlService uses it: both are shown   *)
(* to be this port, each with the steps it adds.                           *)
(***************************************************************************)
CONSTANTS
  Callers,   \* the goroutines that call Send
  Commands   \* what they send

VARIABLES
  port,  \* where the call of each stands, and its command until it is over
  wire   \* the command of the last datagram written, or those before the first

portVars == <<port, wire>>

PortInit ==
  /\ port = [p \in Callers |-> [step |-> "idle"]]
  /\ wire \in Commands

Submit(p, cmd) ==
  /\ port[p].step = "idle"
  /\ port' = [port EXCEPT ![p] = [step |-> "sending", drive |-> cmd]]
  /\ UNCHANGED wire

Deliver(p) ==
  /\ port[p].step = "sending"
  /\ port' = [port EXCEPT ![p] = [step |-> "sent"]]
  /\ wire' = port[p].drive

Refuse(p) ==
  /\ port[p].step = "sending"
  /\ port' = [port EXCEPT ![p] = [step |-> "failed"]]
  /\ UNCHANGED wire

Return(p) ==
  /\ port[p].step \in {"sent", "failed"}
  /\ port' = [port EXCEPT ![p] = [step |-> "idle"]]
  /\ UNCHANGED wire

PortNext ==
  \E p \in Callers :
    \/ \E cmd \in Commands : Submit(p, cmd)
    \/ Deliver(p) \/ Refuse(p) \/ Return(p)

PortSpec == PortInit /\ [][PortNext]_portVars
==============================================================================
