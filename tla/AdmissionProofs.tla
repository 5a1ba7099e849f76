--------------------------- MODULE AdmissionProofs ----------------------------
(***************************************************************************)
(* For every table of operators and every timeout: the access manager is a *)
(* lease.  The inductive invariant is LeasedTypeOK with RecentGrantOwns: a *)
(* grant younger than the timeout still shows in the manager's own state,  *)
(* which is what forbids granting control to anybody else.                 *)
(*                                                                         *)
(* Behind the proxies every request still asks for an address the manager  *)
(* can be asked about, so what holds of the lease holds there.             *)
(***************************************************************************)
EXTENDS Admission, WellFoundedInduction, TLAPS

LeaseInv == LeasedTypeOK /\ RecentGrantOwns

\* A resolved address is a client.
LEMMA ResolvedIsClient ==
  ASSUME NEW addr \in Addrs, ResolveClient(addr) # NoClient
  PROVE  ResolveClient(addr) \in Clients
PROOF BY DEF Clients

\* An age stays within its bounds, and never falls below a bound it was above.
LEMMA AgeGrows ==
  ASSUME NEW age \in 0 .. ControlTimeout + 1 \cup {Never}
  PROVE  /\ OlderThan(age, ControlTimeout + 1) \in 0 .. ControlTimeout + 1 \cup {Never}
         /\ age # Never => OlderThan(age, ControlTimeout + 1) \in 0 .. age + 1
         /\ OlderThan(age, ControlTimeout + 1) = Never <=> age = Never
PROOF BY AccessAssumption DEF OlderThan

\* The age of a command given now is an age, and is not the zero time.
LEMMA ZeroIsAnAge == 0 \in 0 .. ControlTimeout + 1 /\ 0 # Never
PROOF BY AccessAssumption

THEOREM LeasedInitInv == LeasedInit => LeaseInv
PROOF
  BY AccessAssumption DEF LeasedInit, AccessInit, Lease!LeaseInit, Lease!Lapsed,
     LeaseInv, LeasedTypeOK, AccessTypeOK, RecentGrantOwns

\* Nobody else holds a young grant when CanControl says yes.
LEMMA GrantedAlone ==
  ASSUME LeaseInv, NEW addr \in Addrs, Grants(addr)
  PROVE  \A d \in Clients \ {ResolveClient(addr)} : sinceGrant[d] = Lease!Lapsed
PROOF
<1> SUFFICES ASSUME NEW d \in Clients, d # ResolveClient(addr),
                    sinceGrant[d] <= ControlTimeout
             PROVE  FALSE
  BY AccessAssumption DEF LeaseInv, LeasedTypeOK, Lease!Lapsed
<1>1. owner = d /\ lastCommand \in 0 .. sinceGrant[d]
  BY DEF LeaseInv, RecentGrantOwns
<1>2. ~(lastCommand > ControlTimeout)
  BY <1>1, AccessAssumption DEF LeaseInv, LeasedTypeOK, Lease!Lapsed
<1>3. LiveOwner = d
  BY <1>1, <1>2 DEF LiveOwner, Expired
<1>4. d # NoClient
  BY DEF Clients
<1> QED
  BY <1>3, <1>4 DEF Grants

\* Dropping an expired owner takes control from nobody with a young grant.
LEMMA ReleaseKeepsInv ==
  ASSUME LeaseInv, ReleaseExpired, UNCHANGED sinceGrant
  PROVE  LeaseInv'
PROOF
<1>1. CASE Expired
  <2>1. \A c \in Clients : ~(sinceGrant[c] <= ControlTimeout)
    <3> SUFFICES ASSUME NEW c \in Clients, sinceGrant[c] <= ControlTimeout
                 PROVE  FALSE
      OBVIOUS
    <3>1. lastCommand \in 0 .. sinceGrant[c]
      BY DEF LeaseInv, RecentGrantOwns
    <3> QED
      BY <1>1, <3>1, AccessAssumption DEF Expired, LeaseInv, LeasedTypeOK, Lease!Lapsed
  <2> QED
    BY <1>1, <2>1
    DEF ReleaseExpired, LiveOwner, LeaseInv, LeasedTypeOK, AccessTypeOK, RecentGrantOwns
<1>2. CASE ~Expired
  BY <1>2
  DEF ReleaseExpired, LiveOwner, LeaseInv, LeasedTypeOK, AccessTypeOK, RecentGrantOwns
<1> QED
  BY <1>1, <1>2

LEMMA EmergencyStopKeepsInv ==
  ASSUME LeaseInv, NEW addr \in Addrs, AllowEmergencyStop(addr), UNCHANGED sinceGrant
  PROVE  LeaseInv'
PROOF
<1>1. owner' \in Clients /\ owner' # NoClient /\ lastCommand' = 0
  BY ResolvedIsClient
  DEF AllowEmergencyStop, LiveOwner, LeaseInv, LeasedTypeOK, AccessTypeOK
<1>2. LeasedTypeOK'
  BY <1>1, ZeroIsAnAge DEF LeaseInv, LeasedTypeOK, AccessTypeOK
<1>3. ASSUME NEW c \in Clients, sinceGrant[c] <= ControlTimeout
      PROVE  owner' = c /\ 0 \in 0 .. sinceGrant[c]
  <2>1. owner = c /\ lastCommand \in 0 .. sinceGrant[c] /\ c # NoClient
    BY <1>3 DEF LeaseInv, RecentGrantOwns, Clients
  <2>2. sinceGrant[c] \in 0 .. ControlTimeout + 1
    BY DEF LeaseInv, LeasedTypeOK, Lease!Lapsed
  <2>3. ~Expired
    BY <1>3, <2>1, <2>2, AccessAssumption DEF Expired
  <2> QED
    BY <2>1, <2>2, <2>3, AccessAssumption DEF AllowEmergencyStop, LiveOwner
<1> QED
  BY <1>1, <1>2, <1>3 DEF LeaseInv, RecentGrantOwns

THEOREM LeasedStepInv == LeaseInv /\ [LeasedNext]_leaseVars => LeaseInv'
PROOF
<1> SUFFICES ASSUME LeaseInv, [LeasedNext]_leaseVars
             PROVE  LeaseInv'
  OBVIOUS
<1>1. ASSUME NEW addr \in Addrs, TakeControl(addr)
      PROVE  LeaseInv'
  <2>1. /\ ResolveClient(addr) \in Clients
        /\ ResolveClient(addr) # NoClient
        /\ Grants(addr)
    BY <1>1, ResolvedIsClient DEF TakeControl, CanControlGranted, Grants
  <2>2. LeasedTypeOK'
    BY <1>1, <2>1, ZeroIsAnAge, AccessAssumption
    DEF TakeControl, CanControlGranted, LeaseInv, LeasedTypeOK, AccessTypeOK, Lease!Lapsed
  <2>3. RecentGrantOwns'
    BY <1>1, <2>1, GrantedAlone, AccessAssumption
    DEF TakeControl, CanControlGranted, RecentGrantOwns, LeaseInv, LeasedTypeOK, Lease!Lapsed
  <2> QED
    BY <2>2, <2>3 DEF LeaseInv
<1>2. ASSUME NEW addr \in Addrs, GiveUp(addr)
      PROVE  LeaseInv'
  <2>1. ResolveClient(addr) \in Clients /\ owner = ResolveClient(addr)
    BY <1>2, ResolvedIsClient DEF GiveUp, ReleaseIfOwner
  <2>2. LeasedTypeOK'
    BY <1>2, <2>1, AccessAssumption
    DEF GiveUp, ReleaseIfOwner, Lease!Relinquish, Lease!Lapsed,
        LeaseInv, LeasedTypeOK, AccessTypeOK
  <2>3. ASSUME NEW c \in Clients
        PROVE  ~(sinceGrant'[c] <= ControlTimeout)
    BY <1>2, <2>1, AccessAssumption
    DEF GiveUp, Lease!Relinquish, Lease!Lapsed, LeaseInv, LeasedTypeOK, RecentGrantOwns
  <2> QED
    BY <2>2, <2>3 DEF LeaseInv, RecentGrantOwns
<1>3. ASSUME NEW addr \in Addrs, Ask(addr)
      PROVE  LeaseInv'
  <2>1. CASE UNCHANGED accessVars
    BY <1>3, <2>1
    DEF Ask, accessVars, LeaseInv, LeasedTypeOK, AccessTypeOK, RecentGrantOwns
  <2>2. CASE ReleaseExpired
    BY <1>3, <2>2, ReleaseKeepsInv DEF Ask
  <2>3. CASE AllowEmergencyStop(addr)
    BY <1>3, <2>3, EmergencyStopKeepsInv DEF Ask
  <2> QED
    BY <1>3, <2>1, <2>2, <2>3 DEF Ask, CanControlDenied, IsOwner, StateFor
<1>4. CASE Elapse
  <2>1. LeasedTypeOK'
    BY <1>4, AgeGrows, AccessAssumption
    DEF Elapse, ElapseLease, Lease!Elapse, Lease!Lapsed, LeaseInv, LeasedTypeOK, AccessTypeOK
  <2>2. ASSUME NEW c \in Clients, sinceGrant'[c] <= ControlTimeout
        PROVE  owner' = c /\ lastCommand' \in 0 .. sinceGrant'[c]
    <3>1. /\ sinceGrant[c] \in 0 .. ControlTimeout
          /\ sinceGrant'[c] = sinceGrant[c] + 1
      BY <1>4, <2>2, AccessAssumption
      DEF Elapse, Lease!Elapse, Lease!Lapsed, LeaseInv, LeasedTypeOK
    <3>2. owner = c /\ lastCommand \in 0 .. sinceGrant[c]
      BY <3>1 DEF LeaseInv, RecentGrantOwns
    <3>3. lastCommand # Never /\ lastCommand \in 0 .. ControlTimeout
      BY <3>1, <3>2, AccessAssumption
    <3>4. lastCommand' = lastCommand + 1 /\ owner' = owner
      BY <1>4, <3>3, AccessAssumption DEF Elapse, ElapseLease, OlderThan
    <3>5. lastCommand + 1 \in 0 .. sinceGrant[c] + 1
      BY <3>1, <3>2
    <3> QED
      BY <3>1, <3>2, <3>4, <3>5
  <2> QED
    BY <2>1, <2>2 DEF LeaseInv, RecentGrantOwns
<1>5. CASE UNCHANGED leaseVars
  BY <1>5 DEF leaseVars, LeaseInv, LeasedTypeOK, AccessTypeOK, RecentGrantOwns
<1> QED
  BY <1>1, <1>2, <1>3, <1>4, <1>5 DEF LeasedNext

LEMMA LeaseInvAlways == LeasedSpec => []LeaseInv
PROOF BY LeasedInitInv, LeasedStepInv, PTL DEF LeasedSpec

------------------------------------------------------------------------------
(* The addresses behind the proxies.                                       *)

\* IPv4 and IPv6 addresses differ in length.
LEMMA TwoFamilies == V4Addresses \cap V6Addresses = {}
PROOF
<1>1. V6Bits \in 1 .. V6Bits /\ V6Bits \notin 1 .. V4Bits
  BY AddressAssumption
<1> QED
  BY <1>1 DEF V4Addresses, V6Addresses

\* The two kinds of addresses: one that stands for an IPv4 address has that one's bits
\* behind the mapped block, and any other differs from the block.
LEMMA WrittenInV6 ==
  ASSUME NEW addr \in Addresses
  PROVE  \/ /\ Unmap(addr) \in V4Addresses
            /\ \A i \in 1 .. MapBits : AsV6(addr)[i] = MappedBlock[i]
            /\ \A i \in 1 .. V4Bits : AsV6(addr)[MapBits + i] = Unmap(addr)[i]
         \/ /\ Unmap(addr) = addr /\ addr \in V6Addresses /\ AsV6(addr) = addr
            /\ \E i \in 1 .. MapBits : addr[i] # MappedBlock[i]
PROOF
<1> USE AddressAssumption DEF MapBits
<1>1. CASE addr \in V4Addresses
  <2>1. addr \notin V6Addresses
    BY <1>1, TwoFamilies
  <2>2. \A i \in 1 .. MapBits : i \in 1 .. V6Bits /\ i <= MapBits
    OBVIOUS
  <2>3. \A i \in 1 .. V4Bits :
          MapBits + i \in 1 .. V6Bits /\ ~(MapBits + i <= MapBits) /\ MapBits + i - MapBits = i
    OBVIOUS
  <2> QED
    BY <1>1, <2>1, <2>2, <2>3 DEF Unmap, Is4In6, AsV6
<1>2. CASE addr \in V6Addresses /\ Is4In6(addr)
  <2>1. \A i \in 1 .. V4Bits : MapBits + i \in 1 .. V6Bits
    OBVIOUS
  <2>2. Unmap(addr) = [i \in 1 .. V4Bits |-> addr[MapBits + i]] /\ AsV6(addr) = addr
    BY <1>2 DEF Unmap, AsV6
  <2>3. Unmap(addr) \in V4Addresses
    BY <1>2, <2>1, <2>2 DEF V4Addresses, V6Addresses
  <2> QED
    BY <1>2, <2>2, <2>3 DEF Is4In6
<1>3. CASE addr \in V6Addresses /\ ~Is4In6(addr)
  BY <1>3 DEF Unmap, Is4In6, AsV6
<1> QED
  BY <1>1, <1>2, <1>3 DEF Addresses

LEMMA UnmappedStays ==
  ASSUME NEW addr \in Addresses
  PROVE  Unmap(addr) \in Addrs /\ Unmap(Unmap(addr)) = Unmap(addr)
PROOF
<1>1. Unmap(addr) \in Addrs
  BY AdmissionAssumption
<1>2. CASE Unmap(addr) \in V4Addresses
  <2>1. ~Is4In6(Unmap(addr))
    BY <1>2, TwoFamilies DEF Is4In6
  <2> QED
    BY <1>1, <2>1 DEF Unmap
<1>3. CASE Unmap(addr) = addr
  BY <1>1, <1>3
<1> QED
  BY <1>1, <1>2, <1>3, WrittenInV6

LEMMA ForwardedIsAddress ==
  ASSUME NEW entries \in Seq(Addresses \cup {None}), Forwarded(entries) # None
  PROVE  Forwarded(entries) \in Addresses
PROOF BY DEF Forwarded

\* Every request asks for an address of Addrs.
LEMMA AddrOfIsAddr ==
  ASSUME NEW peer \in Addresses, NEW header \in Headers
  PROVE  AddrOf(peer, header) \in Addrs
PROOF
<1>1. Get(header) \in Seq(Addresses \cup {None})
  BY AdmissionAssumption DEF Get
<1> QED
  BY <1>1, UnmappedStays, ForwardedIsAddress DEF AddrOf, normalizeIP, Resolve

LEMMA AdmissionIsLease == AdmissionSpec => LeasedSpec
PROOF
<1>1. AdmissionInit => LeasedInit
  BY DEF AdmissionInit
<1>2. [AdmissionNext]_admissionVars => [LeasedNext]_leaseVars
  <2> SUFFICES ASSUME [AdmissionNext]_admissionVars PROVE [LeasedNext]_leaseVars
    OBVIOUS
  <2>1. CASE \E peer \in Addresses, header \in Headers : Request(AddrOf(peer, header))
    BY <2>1, AddrOfIsAddr DEF Request, LeasedNext
  <2>2. CASE Elapse
    BY <2>2 DEF LeasedNext
  <2>3. CASE UNCHANGED admissionVars
    BY <2>3 DEF admissionVars
  <2> QED
    BY <2>1, <2>2, <2>3 DEF AdmissionNext
<1> QED
  BY <1>1, <1>2, PTL DEF AdmissionSpec, LeasedSpec

\* The manager's owner and ages, and the ages of the grants, stay in their ranges.
THEOREM LeasedTypeOKAlways == AdmissionSpec => []LeasedTypeOK
PROOF
<1>1. LeaseInv => LeasedTypeOK
  BY DEF LeaseInv
<1> QED
  BY <1>1, AdmissionIsLease, LeaseInvAlways, PTL

\* A client that was granted control within the timeout still owns it, for
\* every table of operators, every timeout and all proxies.
THEOREM RecentGrantOwnsAlways == AdmissionSpec => []RecentGrantOwns
PROOF
<1>1. LeaseInv => RecentGrantOwns
  BY DEF LeaseInv
<1> QED
  BY <1>1, AdmissionIsLease, LeaseInvAlways, PTL

\* Two operators are never both told within one timeout that they may drive.
THEOREM ControlIsExclusive == AdmissionSpec => []AtMostOneGranted
PROOF
<1>1. AdmissionSpec => []LeaseInv
  BY AdmissionIsLease, LeaseInvAlways, PTL
<1>2. LeaseInv => AtMostOneGranted
  BY AccessAssumption
  DEF LeaseInv, LeasedTypeOK, RecentGrantOwns, AtMostOneGranted, Lease!Lapsed
<1> QED
  BY <1>1, <1>2, PTL

\* The access manager implements the abstract lease.
THEOREM ManagerImplementsLease == AdmissionSpec => ImplementsLease
PROOF
<1>1. AdmissionSpec => LeasedSpec /\ []LeaseInv
  BY AdmissionIsLease, LeaseInvAlways, PTL
<1>2. LeasedInit => Lease!LeaseInit
  BY DEF LeasedInit
<1>3. LeaseInv /\ [LeasedNext]_leaseVars => [Lease!LeaseNext]_sinceGrant
  <2> SUFFICES ASSUME LeaseInv, [LeasedNext]_leaseVars
               PROVE  [Lease!LeaseNext]_sinceGrant
    OBVIOUS
  <2>1. ASSUME NEW addr \in Addrs, TakeControl(addr)
        PROVE  Lease!Grant(ResolveClient(addr)) /\ ResolveClient(addr) \in Clients
    <3>1. Grants(addr) /\ ResolveClient(addr) # NoClient
      BY <2>1 DEF TakeControl, CanControlGranted, Grants
    <3> QED
      BY <2>1, <3>1, GrantedAlone, ResolvedIsClient DEF TakeControl, Lease!Grant
  <2>2. ASSUME NEW addr \in Addrs, GiveUp(addr)
        PROVE  Lease!Relinquish(ResolveClient(addr)) /\ ResolveClient(addr) \in Clients
    BY <2>2, ResolvedIsClient DEF GiveUp, ReleaseIfOwner
  <2>3. ASSUME NEW addr \in Addrs, Ask(addr)
        PROVE  UNCHANGED sinceGrant
    BY <2>3 DEF Ask
  <2>4. CASE Elapse
    BY <2>4 DEF Elapse, Lease!LeaseNext
  <2>5. CASE UNCHANGED leaseVars
    BY <2>5 DEF leaseVars
  <2> QED
    BY <2>1, <2>2, <2>3, <2>4, <2>5 DEF LeasedNext, Lease!LeaseNext
<1> QED
  BY <1>1, <1>2, <1>3, PTL DEF LeasedSpec, ImplementsLease, Lease!LeaseSpec

\* While its command is not too old an owner loses control only by giving it up.
THEOREM LiveOwnerKeepsControlAlways == AdmissionSpec => LiveOwnerKeepsControl
PROOF
<1> DEFINE Keeps ==
      owner # NoClient /\ ~Expired =>
        \/ owner' = owner
        \/ \E addr \in Addrs : ResolveClient(addr) = owner /\ GiveUp(addr)
<1>1. [LeasedNext]_leaseVars => [Keeps]_leaseVars
  <2> SUFFICES ASSUME LeasedNext, owner # NoClient, ~Expired, owner' # owner
               PROVE  \E addr \in Addrs : ResolveClient(addr) = owner /\ GiveUp(addr)
    OBVIOUS
  <2>1. LiveOwner = owner
    BY DEF LiveOwner
  <2>2. ASSUME NEW addr \in Addrs, TakeControl(addr) PROVE FALSE
    BY <2>1, <2>2 DEF TakeControl, CanControlGranted, Grants
  <2>3. ASSUME NEW addr \in Addrs, Ask(addr) PROVE FALSE
    BY <2>1, <2>3 DEF Ask, CanControlDenied, AllowEmergencyStop, IsOwner, StateFor,
                      ReleaseExpired, accessVars
  <2>4. ASSUME NEW addr \in Addrs, GiveUp(addr) PROVE ResolveClient(addr) = owner
    BY <2>1, <2>4 DEF GiveUp, ReleaseIfOwner, Owns
  <2>5. CASE Elapse
    BY <2>5 DEF Elapse, ElapseLease
  <2> QED
    BY <2>2, <2>3, <2>4, <2>5 DEF LeasedNext
<1> QED
  BY <1>1, AdmissionIsLease, PTL DEF LeasedSpec, LiveOwnerKeepsControl

------------------------------------------------------------------------------
(* The table of operators.                                                 *)

\* Among finitely many entries there is a last one: n - k is least for it.
LEMMA LastEntry ==
  ASSUME NEW n \in Nat, NEW listed \in SUBSET (1 .. n), listed # {}
  PROVE  \E i \in listed : \A j \in listed : j <= i
PROOF
<1> DEFINE After == {k \in Nat : n - k \in listed}
<1>1. PICK j \in listed : TRUE
  OBVIOUS
<1>2. After \subseteq Nat /\ n - j \in After
  BY <1>1
<1>3. PICK k \in After : \A l \in After : <<l, k>> \notin OpToRel(<, Nat)
  <2> HIDE DEF After
  <2> QED
    BY <1>2, NatLessThanWellFounded, WFMin
<1>4. \A l \in After : ~(l < k)
  BY <1>2, <1>3 DEF OpToRel
<1>5. n - k \in listed /\ \A i \in listed : n - i \in After
  BY <1>2
<1> QED
  BY <1>4, <1>5

\* What an address is resolved to: the operator of the last entry that lists it.
LEMMA ResolvedByLastEntry ==
  ASSUME NEW ip \in Addrs
  PROVE  \/ EntriesFor(ip) = {} /\ ResolveClient(ip) = NoClient
         \/ \E i \in EntriesFor(ip) :
              /\ \A j \in EntriesFor(ip) : j <= i
              /\ ResolveClient(ip) = [name |-> Operators[i].name, ip |-> ip]
PROOF
<1>1. CASE EntriesFor(ip) = {}
  BY <1>1 DEF ResolveClient, operatorsByIP
<1>2. CASE EntriesFor(ip) # {}
  <2>1. EntriesFor(ip) \in SUBSET (1 .. Len(Operators)) /\ Len(Operators) \in Nat
    BY AccessAssumption DEF EntriesFor
  <2>2. \E i \in EntriesFor(ip) : \A j \in EntriesFor(ip) : j <= i
    BY <1>2, <2>1, LastEntry
  <2> DEFINE last == CHOOSE i \in EntriesFor(ip) : \A j \in EntriesFor(ip) : j <= i
  <2>3. last \in EntriesFor(ip) /\ \A j \in EntriesFor(ip) : j <= last
    BY <2>2
  <2>4. ip \in DOMAIN operatorsByIP /\ operatorsByIP[ip] = Operators[last].name
    BY <1>2 DEF operatorsByIP
  <2> QED
    BY <2>3, <2>4 DEF ResolveClient
<1> QED
  BY <1>1, <1>2

------------------------------------------------------------------------------
(* Whose request it is.                                                    *)

\* One entry is the forwarded address.
LEMMA OneEntry ==
  ASSUME NEW addr \in Addresses
  PROVE  Forwarded(<<addr>>) = addr
PROOF
<1>1. addr # None
  BY AddressAssumption
<1> QED
  BY <1>1 DEF Forwarded

LEMMA NoEntry == Forwarded(<<>>) = None
PROOF BY DEF Forwarded

\* The entry the nearest proxy has appended is the forwarded one.
LEMMA AppendedEntry ==
  ASSUME NEW entries \in Seq(Addresses \cup {None}), NEW addr \in Addresses
  PROVE  Forwarded(Append(entries, addr)) = addr
PROOF
<1> DEFINE longer == Append(entries, addr)
           n == Len(entries) + 1
<1>1. addr # None
  BY AddressAssumption
<1>2. /\ n \in DOMAIN longer /\ longer[n] = addr
      /\ \A j \in DOMAIN longer : j <= n
      /\ DOMAIN longer = 1 .. n /\ n \in Nat
  OBVIOUS
<1>3. \A i \in {i \in DOMAIN longer : longer[i] # None} :
        (\A j \in {j \in DOMAIN longer : longer[j] # None} : j <= i) <=> i = n
  BY <1>1, <1>2
<1> HIDE DEF longer, n
<1> QED
  BY <1>1, <1>2, <1>3 DEF Forwarded, longer

\* An address is listed by the entries that list it in any of its forms.
LEMMA ListedInAnyForm ==
  ASSUME NEW addr \in V4Addresses
  PROVE  EntriesFor(addr) =
           {i \in DOMAIN Operators : Operators[i].ips \cap {a \in Addresses : Unmap(a) = addr} # {}}
PROOF
<1>1. ASSUME NEW text \in Texts
      PROVE  Normal(text) = addr <=> text \in Addresses /\ Unmap(text) = addr
  <2>1. Normal(text) = Unmap(text)
    BY AdmissionAssumption DEF normalizeIP
  <2>2. text \notin Addresses => Unmap(text) = text
    BY DEF Unmap, Is4In6, Addresses
  <2> QED
    BY <2>1, <2>2 DEF Addresses
<1>2. \A i \in DOMAIN Operators : Operators[i].ips \subseteq Texts
  BY DEF Texts
<1> QED
  BY <1>1, <1>2 DEF EntriesFor

\* An operator is one client by any route, for any table, prefixes and headers.
THEOREM SameClientByAnyRouteAlways == AdmissionSpec => []SameClientByAnyRoute
PROOF
<1>1. ASSUME NEW addr \in V4Addresses, NEW a \in Addresses, Unmap(a) = addr
      PROVE  /\ AddrOf(a, <<>>) = addr
             /\ \A p \in Addresses :
                  isTrusted(trustedProxies, Unmap(p)) => AddrOf(p, << <<a>> >>) = addr
  BY <1>1, OneEntry, NoEntry, UnmappedStays, AddressAssumption
  DEF AddrOf, Get, normalizeIP, Resolve
<1>2. SameClientByAnyRoute
  <2> SUFFICES ASSUME NEW addr \in V4Addresses, NEW a \in {b \in Addresses : Unmap(b) = addr},
                      NEW ip \in {AddrOf(a, <<>>)} \cup
                        {AddrOf(p, << <<a>> >>) :
                           p \in {q \in Addresses : isTrusted(trustedProxies, Unmap(q))}}
               PROVE
                 LET written == {b \in Addresses : Unmap(b) = addr}
                     listing == {i \in DOMAIN Operators : Operators[i].ips \cap written # {}}
                 IN  \/ listing = {} /\ ResolveClient(ip) = NoClient
                     \/ \E i \in listing :
                          /\ \A j \in listing : j <= i
                          /\ ResolveClient(ip) = [name |-> Operators[i].name, ip |-> addr]
    BY DEF SameClientByAnyRoute
  <2>1. ip = addr
    BY <1>1
  <2>2. addr \in Addrs
    BY UnmappedStays, TwoFamilies DEF Addresses, Unmap, Is4In6
  <2> QED
    BY <2>1, <2>2, ListedInAnyForm, ResolvedByLastEntry
<1> QED
  BY <1>2, PTL

\* The prefix the resolver keeps for a value that parses has the value's address and
\* its length, both counted in the family of the unmapped address.
LEMMA KeptPrefix ==
  ASSUME NEW value \in Values, IsPrefix(value) \/ IsAddr(value)
  PROVE  /\ PrefixBits(value) \in 0 .. V6Bits
         /\ Unmap(value.addr) \in V4Addresses =>
              TrustedPrefix(value) = MaskedPrefix(Unmap(value.addr), PrefixBits(value) - MapBits)
         /\ Unmap(value.addr) \in V6Addresses =>
              TrustedPrefix(value) = MaskedPrefix(value.addr, PrefixBits(value))
PROOF
<1> USE AddressAssumption DEF MapBits
<1>1. value.addr \in Addresses /\ value.bits \in 0 .. V6Bits \cup {None}
  BY DEF Values
<1>2. CASE value.bits = None
  <2>1. /\ PrefixBits(value) = V6Bits
        /\ TrustedPrefix(value) = MaskedPrefix(Unmap(value.addr), BitLen(Unmap(value.addr)))
    BY <1>2 DEF PrefixBits, TrustedPrefix
  <2>2. CASE Unmap(value.addr) \in V4Addresses
    <3>1. Unmap(value.addr) \notin V6Addresses
      BY <2>2, TwoFamilies
    <3> QED
      BY <2>1, <3>1 DEF BitLen
  <2>3. CASE Unmap(value.addr) \notin V4Addresses
    <3>1. Unmap(value.addr) = value.addr /\ value.addr \in V6Addresses
      BY <1>1, <2>3, WrittenInV6
    <3> QED
      BY <2>1, <2>3, <3>1 DEF BitLen
  <2> QED
    BY <2>2, <2>3
<1>3. CASE value.bits # None
  <2>1. value.bits \in 0 .. V6Bits /\ value.bits <= BitLen(value.addr)
    BY <1>1, <1>3 DEF IsPrefix, IsAddr
  <2>2. TrustedPrefix(value) = normalizePrefix(value.addr, value.bits)
    BY <1>3 DEF TrustedPrefix
  <2>3. CASE value.addr \in V4Addresses
    <3>1. value.addr \notin V6Addresses /\ ~Is4In6(value.addr) /\ Unmap(value.addr) = value.addr
      BY <2>3, TwoFamilies DEF Is4In6, Unmap
    <3>2. PrefixBits(value) = value.bits + MapBits /\ value.bits <= V4Bits
      BY <1>3, <2>1, <3>1 DEF PrefixBits, BitLen
    <3>3. PrefixBits(value) \in 0 .. V6Bits /\ PrefixBits(value) - MapBits = value.bits
      BY <2>1, <3>2
    <3> QED
      BY <2>2, <3>1, <3>3 DEF normalizePrefix
  <2>4. CASE value.addr \in V6Addresses
    <3>1. PrefixBits(value) = value.bits
      BY <1>3, <2>1, <2>4 DEF PrefixBits
    <3>2. CASE Is4In6(value.addr)
      <4>1. Unmap(value.addr) \in V4Addresses /\ Unmap(value.addr) \notin V6Addresses
        BY <1>1, <2>4, <3>2, WrittenInV6, TwoFamilies DEF Is4In6
      <4> QED
        BY <2>1, <2>2, <3>1, <3>2, <4>1 DEF normalizePrefix
    <3>3. CASE ~Is4In6(value.addr)
      <4>1. Unmap(value.addr) = value.addr /\ value.addr \notin V4Addresses
        BY <2>4, <3>3, TwoFamilies DEF Unmap
      <4> QED
        BY <2>1, <2>2, <3>1, <3>3, <4>1 DEF normalizePrefix
    <3> QED
      BY <3>2, <3>3
  <2> QED
    BY <1>1, <2>3, <2>4 DEF Addresses
<1> QED
  BY <1>2, <1>3

\* A value and the prefix kept for it mean the same addresses, unless the value is short
\* enough to cover both families: then the prefix means fewer.
LEMMA KeptPrefixCovers ==
  ASSUME NEW value \in Values, IsPrefix(value) \/ IsAddr(value), NEW peer \in Addresses
  PROVE  /\ Unmap(peer) \in TrustedPrefix(value) => Covers(value, peer)
         /\ OneFamily(value) /\ Covers(value, peer) => Unmap(peer) \in TrustedPrefix(value)
PROOF
<1> USE AddressAssumption DEF MapBits
<1> DEFINE n == PrefixBits(value)
           held == value.addr
<1>1. held \in Addresses /\ n \in 0 .. V6Bits
  BY KeptPrefix DEF Values
<1>2. CASE Unmap(held) \in V4Addresses /\ Unmap(peer) \in V4Addresses
  <2>1. /\ \A i \in 1 .. MapBits : AsV6(peer)[i] = AsV6(held)[i]
        /\ \A i \in 1 .. V4Bits : /\ AsV6(held)[MapBits + i] = Unmap(held)[i]
                                 /\ AsV6(peer)[MapBits + i] = Unmap(peer)[i]
    BY <1>1, <1>2, WrittenInV6, TwoFamilies
  <2>2. BitLen(Unmap(held)) = V4Bits /\ Unmap(held) \notin V6Addresses
    BY <1>2, TwoFamilies DEF BitLen
  <2>3. Unmap(peer) \in TrustedPrefix(value) <=>
          /\ n - MapBits \in 0 .. V4Bits
          /\ \A i \in 1 .. n - MapBits : Unmap(peer)[i] = Unmap(held)[i]
    BY <1>2, <2>2, KeptPrefix DEF MaskedPrefix
  <2>4. ASSUME n - MapBits \in 0 .. V4Bits
        PROVE  (\A i \in 1 .. n - MapBits : Unmap(peer)[i] = Unmap(held)[i]) <=>
                 \A i \in 1 .. n : AsV6(peer)[i] = AsV6(held)[i]
    <3>1. ASSUME \A i \in 1 .. n - MapBits : Unmap(peer)[i] = Unmap(held)[i], NEW i \in 1 .. n
          PROVE  AsV6(peer)[i] = AsV6(held)[i]
      <4>1. CASE i <= MapBits
        BY <1>1, <2>1, <4>1
      <4>2. CASE i > MapBits
        <5>1. i - MapBits \in 1 .. n - MapBits /\ i - MapBits \in 1 .. V4Bits
              /\ MapBits + (i - MapBits) = i
          BY <1>1, <4>2
        <5> QED
          BY <2>1, <3>1, <5>1
      <4> QED
        BY <1>1, <4>1, <4>2
    <3>2. ASSUME \A i \in 1 .. n : AsV6(peer)[i] = AsV6(held)[i], NEW i \in 1 .. n - MapBits
          PROVE  Unmap(peer)[i] = Unmap(held)[i]
      <4>1. MapBits + i \in 1 .. n /\ i \in 1 .. V4Bits
        BY <1>1, <2>4
      <4> QED
        BY <2>1, <3>2, <4>1
    <3> QED
      BY <3>1, <3>2
  <2>5. OneFamily(value) => n - MapBits \in 0 .. V4Bits
    BY <1>1 DEF OneFamily
  <2> QED
    BY <2>3, <2>4, <2>5 DEF Covers
<1>3. CASE Unmap(held) \notin V4Addresses /\ Unmap(peer) \notin V4Addresses
  <2>1. /\ Unmap(held) = held /\ held \in V6Addresses /\ AsV6(held) = held
        /\ Unmap(peer) = peer /\ peer \in V6Addresses /\ AsV6(peer) = peer
    BY <1>1, <1>3, WrittenInV6
  <2>2. Unmap(peer) \in TrustedPrefix(value) <=> \A i \in 1 .. n : peer[i] = held[i]
    BY <1>1, <2>1, KeptPrefix DEF MaskedPrefix, BitLen
  <2> QED
    BY <2>1, <2>2 DEF Covers
<1>4. ASSUME (Unmap(held) \in V4Addresses) # (Unmap(peer) \in V4Addresses)
      PROVE  Unmap(peer) \notin TrustedPrefix(value) /\ ~(OneFamily(value) /\ Covers(value, peer))
  <2>1. Unmap(peer) \notin TrustedPrefix(value)
    BY <1>1, <1>4, KeptPrefix, WrittenInV6, TwoFamilies DEF MaskedPrefix
  <2>2. \E i \in 1 .. MapBits : AsV6(peer)[i] # AsV6(held)[i]
    <3>1. CASE Unmap(held) \in V4Addresses
      <4>1. \A i \in 1 .. MapBits : AsV6(held)[i] = MappedBlock[i]
        BY <1>1, <3>1, WrittenInV6, TwoFamilies
      <4>2. \E i \in 1 .. MapBits : AsV6(peer)[i] # MappedBlock[i]
        BY <1>4, <3>1, WrittenInV6
      <4> QED
        BY <4>1, <4>2
    <3>2. CASE Unmap(peer) \in V4Addresses
      <4>1. \A i \in 1 .. MapBits : AsV6(peer)[i] = MappedBlock[i]
        BY <3>2, WrittenInV6, TwoFamilies
      <4>2. \E i \in 1 .. MapBits : AsV6(held)[i] # MappedBlock[i]
        BY <1>1, <1>4, <3>2, WrittenInV6
      <4> QED
        BY <4>1, <4>2
    <3> QED
      BY <1>4, <3>1, <3>2
  <2> QED
    BY <1>1, <2>1, <2>2 DEF OneFamily, Covers
<1> QED
  BY <1>2, <1>3, <1>4

\* The configuration the program runs with stays one that Validate accepts.
LEMMA ValidatedAlways ==
  AdmissionSpec => [](configured \in Configurations /\ Validate(configured))
PROOF
<1> DEFINE Valid == configured \in Configurations /\ Validate(configured)
<1>1. AdmissionInit => Valid
  BY DEF AdmissionInit
<1>2. Valid /\ [AdmissionNext]_admissionVars => Valid'
  BY DEF AdmissionNext, Request, admissionVars
<1> QED
  BY <1>1, <1>2, PTL DEF AdmissionSpec

\* What Validate accepts the resolver trusts, as it is written.
LEMMA ValidatedIsTrusted ==
  ASSUME configured \in Configurations, Validate(configured)
  PROVE  TrustAsConfigured
PROOF
<1>1. \A i \in DOMAIN configured : configured[i] \in Values
  BY AdmissionAssumption
<1> DEFINE trimmed == [i \in DOMAIN configured |-> [configured[i] EXCEPT !.padded = FALSE]]
<1>2. ASSUME NEW i \in DOMAIN configured
      PROVE  /\ trimmed[i] = configured[i]
             /\ IsPrefix(configured[i]) \/ IsAddr(configured[i])
  <2>1. IsPrefix(configured[i]) \/ IsAddr(configured[i])
    BY DEF Validate
  <2>2. configured[i].padded = FALSE
    BY <1>1, <2>1 DEF IsPrefix, IsAddr, Values
  <2> QED
    BY <1>1, <2>1, <2>2 DEF Values
<1>3. NewClientIPResolver(configured).parsed
  BY <1>2 DEF NewClientIPResolver
<1>4. trustedProxies = {TrustedPrefix(configured[i]) : i \in DOMAIN configured}
  BY <1>2 DEF trustedProxies, NewClientIPResolver
<1>5. ASSUME NEW peer \in Addresses
      PROVE  isTrusted(trustedProxies, Unmap(peer)) <=>
               \E i \in DOMAIN configured : Unmap(peer) \in TrustedPrefix(configured[i])
  BY <1>4, UnmappedStays DEF isTrusted
<1> QED
  BY <1>1, <1>2, <1>3, <1>5, KeptPrefixCovers DEF TrustAsConfigured

\* The resolver trusts exactly the peers the configuration covers: for addresses of any
\* width, prefixes of any length, and any mapped block.
THEOREM TrustAsConfiguredAlways == AdmissionSpec => []TrustAsConfigured
PROOF
<1>1. configured \in Configurations /\ Validate(configured) => TrustAsConfigured
  BY ValidatedIsTrusted
<1> QED
  BY <1>1, ValidatedAlways, PTL

LEMMA NearestProxyFollowsTrust == TrustAsConfigured => NearestProxyDecides
PROOF
<1> SUFFICES ASSUME TrustAsConfigured, NEW peer \in Addresses, NEW header \in Headers
             PROVE
               LET trusted == \E i \in DOMAIN configured :
                                OneFamily(configured[i]) /\ Covers(configured[i], peer)
               IN  /\ trusted =>
                        \A last \in Addresses :
                          AddrOf(peer, Appended(header, last)) = AddrOf(peer, << <<last>> >>)
                   /\ (\A i \in DOMAIN configured : ~Covers(configured[i], peer)) =>
                        AddrOf(peer, header) = AddrOf(peer, <<>>)
  BY DEF NearestProxyDecides
<1>1. header \in Seq(Seq(Addresses \cup {None}))
  BY AdmissionAssumption
<1>2. ASSUME NEW last \in Addresses
      PROVE  Forwarded(Get(Appended(header, last))) = last
  <2>1. CASE header = <<>>
    BY <2>1, OneEntry DEF Appended, Get
  <2>2. CASE header # <<>>
    <3>1. /\ header[1] \in Seq(Addresses \cup {None})
          /\ Appended(header, last) # <<>>
          /\ Appended(header, last)[1] = Append(header[1], last)
      BY <1>1, <2>2 DEF Appended
    <3> QED
      BY <3>1, AppendedEntry DEF Get
  <2> QED
    BY <2>1, <2>2
<1>4. \A last \in Addresses : Forwarded(Get(<< <<last>> >>)) = last
  BY OneEntry DEF Get
<1>3. ASSUME \A i \in DOMAIN configured : ~Covers(configured[i], peer)
      PROVE  AddrOf(peer, header) = AddrOf(peer, <<>>)
  <2>1. ~isTrusted(trustedProxies, Unmap(peer))
    BY <1>3 DEF TrustAsConfigured
  <2> QED
    BY <2>1 DEF AddrOf, Resolve
<1> QED
  BY <1>2, <1>3, <1>4 DEF AddrOf, Resolve

\* Only the nearest proxy decides whose request it is, if it appends to the first line:
\* for all prefixes and peers, and headers of any number of lines of any length.
THEOREM NearestProxyDecidesAlways == AdmissionSpec => []NearestProxyDecides
PROOF BY TrustAsConfiguredAlways, NearestProxyFollowsTrust, PTL

------------------------------------------------------------------------------
\* Whoever owns control is an operator of the configuration, at an address that it
\* gives to this operator and to none listed after it: NewManager overwrites the
\* earlier entries for an address, and ResolveClient invents no operator.
OwnerIsConfigured ==
  owner # NoClient =>
    \E i \in EntriesFor(owner.ip) :
      /\ Operators[i].name = owner.name
      /\ \A j \in EntriesFor(owner.ip) : j <= i

\* What a client is resolved to stands in the configuration.
LEMMA ClientIsConfigured ==
  ASSUME NEW client \in Clients
  PROVE  \E i \in EntriesFor(client.ip) :
           /\ Operators[i].name = client.name
           /\ \A j \in EntriesFor(client.ip) : j <= i
PROOF
<1>1. PICK addr \in Addrs : client = ResolveClient(addr) /\ client # NoClient
  BY DEF Clients
<1> QED
  BY <1>1, ResolvedByLastEntry

\* Nobody outside the configuration ever owns control, whichever proxies and headers
\* the requests come through.
THEOREM OwnerIsConfiguredAlways == AdmissionSpec => []OwnerIsConfigured
PROOF
<1>1. LeasedTypeOK => OwnerIsConfigured
  BY ClientIsConfigured DEF LeasedTypeOK, AccessTypeOK, OwnerIsConfigured
<1> QED
  BY <1>1, LeasedTypeOKAlways, PTL
==============================================================================
