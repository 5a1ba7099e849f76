---------------------------- MODULE AccessManager ----------------------------
(***************************************************************************)
(* access.Manager: which operator may drive the car.                       *)
(*                                                                         *)
(* The manager keeps one owner and the time of the owner's last command;   *)
(* an owner that stays silent for longer than the timeout is dropped by    *)
(* the next call that looks (releaseExpiredLocked), never by a timer.      *)
(* Every method takes the mutex once around all it reads and writes, so    *)
(* one method call is one action.  ResolveClient takes the same mutex on   *)
(* its own, but the table it reads never changes after NewManager.         *)
(*                                                                         *)
(* The code compares now - lastCommandMono with the timeout and nothing    *)
(* else, so lastCommand holds that difference: the age of the last         *)
(* command in time units, which stops growing once it exceeds the timeout. *)
(* lastCommandAt and lastCommandMono are always assigned together and are  *)
(* one variable here.                                                      *)
(***************************************************************************)
EXTENDS Integers, Sequences

CONSTANTS
  Addrs,           \* client addresses, in the form normalizeIP gives them
  Operators,       \* access.operators: a sequence of [name, ips], the ips as written
  Normal(_),       \* normalizeIP of what is written there; in Addrs only if it parses
  ControlTimeout,  \* access.control_timeout_ms, in time units
  NoClient,        \* the nil *Client
  Never            \* the zero time.Time

Names == {Operators[i].name : i \in DOMAIN Operators}
Texts == UNION {Operators[i].ips : i \in DOMAIN Operators}

ASSUME AccessAssumption ==
  /\ Operators \in Seq([name : Names, ips : SUBSET Texts])
  /\ ControlTimeout \in Nat \ {0}
  /\ NoClient \notin [name : Names, ip : Addrs]
  /\ Never \notin 0 .. ControlTimeout + 1

VARIABLES
  owner,        \* Manager.owner
  lastCommand   \* the age of Manager.lastCommandMono, or Never

accessVars == <<owner, lastCommand>>

------------------------------------------------------------------------------
(* The table of operators and the clients it knows.                        *)

\* Seeded fault for the mutant runs: the table keeps what is written.
EntriesAsWritten(ip) == {i \in DOMAIN Operators : ip \in Operators[i].ips}

\* The entries of the configuration that list this address, in any form.
EntriesFor(ip) == {i \in DOMAIN Operators : \E text \in Operators[i].ips : Normal(text) = ip}

\* NewManager fills operatorsByIP in the order of the configuration: the last
\* operator that lists an address is the one the address belongs to.  A text that
\* is no address is kept as it is, or skipped if empty, and never looked up.
operatorsByIP == [ip \in {a \in Addrs : EntriesFor(a) # {}} |->
  Operators[CHOOSE i \in EntriesFor(ip) : \A j \in EntriesFor(ip) : j <= i].name]

\* ResolveClient: nil for an address nobody was given.
ResolveClient(addr) ==
  IF addr \in DOMAIN operatorsByIP
  THEN [name |-> operatorsByIP[addr], ip |-> addr]
  ELSE NoClient

Clients == {ResolveClient(a) : a \in Addrs} \ {NoClient}

------------------------------------------------------------------------------
(* The lease.                                                              *)

\* Seeded fault: the comparison with the timeout is dropped.
ExpiredAtOnce == owner # NoClient /\ lastCommand # Never

\* Seeded fault: an expired owner is never noticed.
ExpiredNever == FALSE

\* releaseExpiredLocked would drop the owner.
Expired ==
  /\ owner # NoClient
  /\ lastCommand # Never
  /\ lastCommand > ControlTimeout

\* The owner a method works with, after it has called releaseExpiredLocked.
LiveOwner == IF Expired THEN NoClient ELSE owner

\* Seeded fault: the owner is dropped and the time of its command is not.
ReleaseKeepsTime ==
  /\ owner' = LiveOwner
  /\ lastCommand' = lastCommand

\* releaseExpiredLocked.
ReleaseExpired ==
  /\ owner' = LiveOwner
  /\ lastCommand' = IF Expired THEN Never ELSE lastCommand

\* Seeded fault: sameClient compares the names only.
GrantsSameName(addr) ==
  /\ ResolveClient(addr) # NoClient
  /\ LiveOwner \in {NoClient} \cup {c \in Clients : c.name = ResolveClient(addr).name}

\* CanControl decides Allowed: nobody owns control, or this client does
\* (sameClient compares the name and the address).
Grants(addr) ==
  /\ ResolveClient(addr) # NoClient
  /\ LiveOwner \in {NoClient, ResolveClient(addr)}

\* CanControl, "owner_acquired" and "owner".
CanControlGranted(addr) ==
  /\ Grants(addr)
  /\ owner' = ResolveClient(addr)
  /\ lastCommand' = 0

\* CanControl, "control_busy": the owner is live, so there was nothing to
\* release; and "unknown_client", which returns before the lock.
CanControlDenied(addr) ==
  /\ ~Grants(addr)
  /\ UNCHANGED accessVars

\* Seeded fault: an emergency stop hands control to whoever asks for it.
EmergencyStopSteals(addr) ==
  /\ ResolveClient(addr) # NoClient
  /\ owner' = ResolveClient(addr)
  /\ lastCommand' = 0

\* AllowEmergencyStop: every known client may, takes control only when nobody
\* has it, and refreshes the time of the last command whoever owns control.
AllowEmergencyStop(addr) ==
  /\ ResolveClient(addr) # NoClient
  /\ owner' = IF LiveOwner = NoClient THEN ResolveClient(addr) ELSE LiveOwner
  /\ lastCommand' = 0

\* IsOwner's answer.
Owns(addr) ==
  /\ ResolveClient(addr) # NoClient
  /\ LiveOwner = ResolveClient(addr)

\* IsOwner: an unknown client returns before the lock.
IsOwner(addr) ==
  IF ResolveClient(addr) = NoClient THEN UNCHANGED accessVars ELSE ReleaseExpired

\* StateFor: releases an expired owner for every caller, known or not.
StateFor(addr) == ReleaseExpired

\* ReleaseIfOwner: does not look at the age.
ReleaseIfOwner(addr) ==
  /\ ResolveClient(addr) # NoClient
  /\ owner = ResolveClient(addr)
  /\ owner' = NoClient
  /\ lastCommand' = Never

\* The age one time unit later; it stops growing at the horizon.
OlderThan(age, horizon) ==
  IF age = Never THEN Never ELSE IF age < horizon THEN age + 1 ELSE horizon

\* One time unit passes.
ElapseLease ==
  /\ lastCommand' = OlderThan(lastCommand, ControlTimeout + 1)
  /\ owner' = owner

------------------------------------------------------------------------------
AccessInit ==
  /\ owner = NoClient
  /\ lastCommand = Never

AccessNext ==
  \/ \E addr \in Addrs :
       \/ CanControlGranted(addr)
       \/ CanControlDenied(addr)
       \/ AllowEmergencyStop(addr)
       \/ IsOwner(addr)
       \/ StateFor(addr)
       \/ ReleaseIfOwner(addr)
  \/ ElapseLease

AccessSpec == AccessInit /\ [][AccessNext]_accessVars

\* An owner always carries the time of its last command: without it the lease
\* would never run out.
AccessTypeOK ==
  /\ (owner = NoClient) = (lastCommand = Never)
  /\ owner \in Clients \cup {NoClient}
  /\ lastCommand \in 0 .. ControlTimeout + 1 \cup {Never}
==============================================================================
