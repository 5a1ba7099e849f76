------------------------------ MODULE Admission ------------------------------
(***************************************************************************)
(* The access manager behind the reverse proxy: every call is made for the *)
(* address that the handshake of the caller's WebSocket was resolved to,   *)
(* under the trusted proxies of one configuration.                         *)
(***************************************************************************)
EXTENDS AccessLease, ClientAddress

CONSTANTS
  Configurations, \* the values server.trusted_proxies may have: sequences of Values
  Headers         \* the X-Forwarded-For headers: the lines of one request, each a
                  \* sequence of addresses and None

ASSUME AdmissionAssumption ==
  /\ Configurations \subseteq Seq(Values)
  /\ Headers \subseteq Seq(Seq(Addresses \cup {None}))
  /\ {Unmap(a) : a \in Addresses} = Addrs
  /\ \A text \in Texts : Normal(text) = normalizeIP(text)

VARIABLE configured  \* server.trusted_proxies

admissionVars == <<leaseVars, configured>>

trustedProxies == NewClientIPResolver(configured).trustedProxies

\* r.Header.Get: the first line of that name, and nothing of those behind it.
Get(header) == IF header = <<>> THEN <<>> ELSE header[1]

\* ServeHTTP and ResolveClient: the address the manager looks up.
AddrOf(peer, header) == normalizeIP(Resolve(trustedProxies, peer, Get(header)))

\* The program starts with a configuration that Validate accepts.
AdmissionInit ==
  /\ LeasedInit
  /\ configured \in {values \in Configurations : Validate(values)}

\* What the handler asks the manager for the client of a request.
Request(addr) ==
  /\ TakeControl(addr) \/ GiveUp(addr) \/ Ask(addr)
  /\ UNCHANGED configured

AdmissionNext ==
  \/ \E peer \in Addresses, header \in Headers : Request(AddrOf(peer, header))
  \/ Elapse /\ UNCHANGED configured

AdmissionSpec ==
  /\ AdmissionInit /\ [][AdmissionNext]_admissionVars
  /\ WF_leaseVars(Elapse)
  /\ WF_leaseVars(TakeControl(Challenger))

------------------------------------------------------------------------------
\* A peer is trusted if a configured value covers it, however the value and the peer
\* write an IPv4 address, and never otherwise; a configuration that Validate accepts is
\* one the resolver can be made from.  Left out on purpose is a prefix short enough to
\* cover IPv4 and other addresses at once: it trusts fewer peers than it covers.
TrustAsConfigured ==
  /\ NewClientIPResolver(configured).parsed
  /\ \A peer \in Addresses :
       /\ isTrusted(trustedProxies, Unmap(peer)) =>
            \E i \in DOMAIN configured : Covers(configured[i], peer)
       /\ (\E i \in DOMAIN configured : OneFamily(configured[i]) /\ Covers(configured[i], peer)) =>
            isTrusted(trustedProxies, Unmap(peer))

\* What a proxy that writes one line makes of a header: its peer ends the first line.
Appended(header, last) ==
  IF header = <<>> THEN << <<last>> >> ELSE [header EXCEPT ![1] = Append(@, last)]

\* Behind a trusted proxy that appends to the first line of the header the address it
\* appended decides, and nothing the request brought along, in that line or in others;
\* what an untrusted peer sends changes nothing at all.  A proxy that adds a line of its
\* own behind the request's is not covered: Get does not see that line.
NearestProxyDecides ==
  \A peer \in Addresses, header \in Headers :
    LET trusted == \E i \in DOMAIN configured : OneFamily(configured[i]) /\ Covers(configured[i], peer)
    IN  /\ trusted =>
             \A last \in Addresses :
               AddrOf(peer, Appended(header, last)) = AddrOf(peer, << <<last>> >>)
        /\ (\A i \in DOMAIN configured : ~Covers(configured[i], peer)) =>
             AddrOf(peer, header) = AddrOf(peer, <<>>)

\* An operator is one client, with one lease, whether the request comes straight from
\* the address, from its mapped form, or through a proxy that forwards either, and
\* whichever form the configuration lists: the operator of the last entry that lists
\* the address, or nobody if none does.
SameClientByAnyRoute ==
  \A addr \in V4Addresses :
    LET written == {a \in Addresses : Unmap(a) = addr}
        listing == {i \in DOMAIN Operators : Operators[i].ips \cap written # {}}
        trusted == {p \in Addresses : isTrusted(trustedProxies, Unmap(p))}
        asked(a) == {AddrOf(a, <<>>)} \cup {AddrOf(p, << <<a>> >>) : p \in trusted}
    IN  \A a \in written : \A ip \in asked(a) :
          \/ listing = {} /\ ResolveClient(ip) = NoClient
          \/ \E i \in listing :
               /\ \A j \in listing : j <= i
               /\ ResolveClient(ip) = [name |-> Operators[i].name, ip |-> addr]
==============================================================================
