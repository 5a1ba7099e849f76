----------------------------- MODULE ControlLease -----------------------------
(***************************************************************************)
(* What the access manager promises, without saying how: control is a      *)
(* lease of Term time units.  A client is granted control only when every  *)
(* other client was last granted it more than Term units ago, or has given *)
(* it up since.                                                            *)
(***************************************************************************)
EXTENDS Integers

CONSTANTS
  Clients,  \* who may ask
  Term      \* how long a grant keeps the others out, a natural number

\* The age of each client's last grant; Term + 1 when it has run out, was given
\* up, or never happened.
VARIABLE sinceGrant

Lapsed == Term + 1

LeaseInit == sinceGrant = [c \in Clients |-> Lapsed]

Grant(c) ==
  /\ \A d \in Clients \ {c} : sinceGrant[d] = Lapsed
  /\ sinceGrant' = [sinceGrant EXCEPT ![c] = 0]

Relinquish(c) == sinceGrant' = [sinceGrant EXCEPT ![c] = Lapsed]

Elapse ==
  sinceGrant' = [c \in Clients |->
                   IF sinceGrant[c] < Lapsed THEN sinceGrant[c] + 1 ELSE Lapsed]

LeaseNext ==
  \/ \E c \in Clients : Grant(c) \/ Relinquish(c)
  \/ Elapse

LeaseSpec == LeaseInit /\ [][LeaseNext]_sinceGrant
==============================================================================
