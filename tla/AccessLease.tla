------------------------------ MODULE AccessLease ------------------------------
(***************************************************************************)
(* The access manager implements ControlLease.  The history variable       *)
(* sinceGrant records when each client was last told by CanControl that it *)
(* may drive; no action of the manager reads it.                           *)
(***************************************************************************)
EXTENDS AccessManager

CONSTANT Challenger  \* an address that keeps asking, for the liveness property

VARIABLE sinceGrant

leaseVars == <<owner, lastCommand, sinceGrant>>

Lease == INSTANCE ControlLease WITH Term <- ControlTimeout

LeasedInit == AccessInit /\ Lease!LeaseInit

TakeControl(addr) ==
  /\ CanControlGranted(addr)
  /\ sinceGrant' = [sinceGrant EXCEPT ![ResolveClient(addr)] = 0]

GiveUp(addr) ==
  /\ ReleaseIfOwner(addr)
  /\ Lease!Relinquish(ResolveClient(addr))

\* The calls that grant nothing.
Ask(addr) ==
  /\ \/ CanControlDenied(addr)
     \/ AllowEmergencyStop(addr)
     \/ IsOwner(addr)
     \/ StateFor(addr)
  /\ UNCHANGED sinceGrant

Elapse == ElapseLease /\ Lease!Elapse

LeasedNext ==
  \/ \E addr \in Addrs : TakeControl(addr) \/ GiveUp(addr) \/ Ask(addr)
  \/ Elapse

LeasedSpec == LeasedInit /\ [][LeasedNext]_leaseVars

------------------------------------------------------------------------------
LeasedTypeOK ==
  /\ AccessTypeOK
  /\ sinceGrant \in [Clients -> 0 .. Lease!Lapsed]

\* A client that was granted control within the timeout still owns it, however
\* often others pressed the emergency stop or asked for control since: the
\* manager never tells a client it may drive and then forgets about it early.
RecentGrantOwns ==
  \A c \in Clients : sinceGrant[c] <= ControlTimeout =>
    /\ owner = c
    /\ lastCommand \in 0 .. sinceGrant[c]

\* Two operators are never both told within one timeout that they may drive,
\* two addresses of the same operator included: CanControl's check and its
\* update are one critical section.
AtMostOneGranted ==
  \A c, d \in Clients :
    c # d => Lease!Lapsed \in {sinceGrant[c], sinceGrant[d]}

\* The manager, with its lazy expiry and its emergency stops that refresh the
\* owner's lease, is a lease in the sense of ControlLease.
ImplementsLease == Lease!LeaseSpec

\* While its last command is not too old an owner loses control only by giving
\* it up: no other client's drive, stop, emergency stop or disconnect takes it.
LiveOwnerKeepsControl ==
  [][owner # NoClient /\ ~Expired =>
       \/ owner' = owner
       \/ \E addr \in Addrs : ResolveClient(addr) = owner /\ GiveUp(addr)]_leaseVars

\* Somebody other than the challenger drives, or anybody presses the emergency
\* stop: the calls that keep another owner's lease alive.
OwnerKeptAlive ==
  \/ \E addr \in Addrs \ {Challenger} : TakeControl(addr)
  \/ \E addr \in Addrs : AllowEmergencyStop(addr) /\ UNCHANGED sinceGrant

\* An owner that went silent does not block the car for good: a client that
\* keeps asking owns control again and again, unless other commands keep coming.
\* Its own emergency stops count among those, for AllowEmergencyStop refreshes
\* the lease of whoever owns control.
SilentOwnerYields ==
  \/ []<>(owner = ResolveClient(Challenger))
  \/ []<><<OwnerKeptAlive>>_leaseVars
==============================================================================
