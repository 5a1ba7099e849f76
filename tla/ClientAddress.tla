---------------------------- MODULE ClientAddress ----------------------------
(***************************************************************************)
(* Whose request it is: the proxies of server.trusted_proxies, and the     *)
(* address ClientIPResolver.Resolve takes for the client's.                *)
(*                                                                         *)
(* An address is the sequence of its bits, V4Bits or V6Bits of them for 32 *)
(* and 128; the IPv6 addresses that begin with the MapBits bits of         *)
(* MappedBlock (::ffff:0:0/96 in the program) stand for the IPv4 ones.  A  *)
(* text is what it parses to: an address, or None; a configured value may  *)
(* have blanks around it.                                                  *)
(***************************************************************************)
EXTENDS Integers, Sequences

CONSTANTS
  V4Bits, V6Bits,
  MappedBlock,
  None            \* the zero netip.Addr, and a value without a prefix length

MapBits == V6Bits - V4Bits
V4Addresses == [1 .. V4Bits -> {0, 1}]
V6Addresses == [1 .. V6Bits -> {0, 1}]
Addresses == V4Addresses \cup V6Addresses

ASSUME AddressAssumption ==
  /\ V4Bits \in Nat \ {0} /\ V6Bits \in Nat /\ V4Bits < V6Bits
  /\ MappedBlock \in [1 .. MapBits -> {0, 1}]
  /\ None \notin Addresses /\ None \notin 0 .. V6Bits

------------------------------------------------------------------------------
(* Package net/netip.                                                      *)

BitLen(addr) == IF addr \in V6Addresses THEN V6Bits ELSE V4Bits
Is4In6(addr) == addr \in V6Addresses /\ \A i \in 1 .. MapBits : addr[i] = MappedBlock[i]
Unmap(addr) == IF Is4In6(addr) THEN [i \in 1 .. V4Bits |-> addr[MapBits + i]] ELSE addr

\* PrefixFrom(addr, bits).Masked(), as the set of the addresses it contains: those of
\* its family with the same first bits; none if there are not that many bits.
MaskedPrefix(addr, bits) ==
  {a \in IF addr \in V6Addresses THEN V6Addresses ELSE V4Addresses :
     bits \in 0 .. BitLen(addr) /\ \A i \in 1 .. bits : a[i] = addr[i]}

\* The text of a value, and whether ParsePrefix and ParseAddr accept it.
Values == [addr : Addresses, bits : 0 .. V6Bits \cup {None}, padded : BOOLEAN]
IsPrefix(value) == ~value.padded /\ value.bits # None /\ value.bits <= BitLen(value.addr)
IsAddr(value) == ~value.padded /\ value.bits = None

------------------------------------------------------------------------------
(* The trusted proxies.                                                    *)

\* Config.Validate: its parseIPOrPrefix does not trim the value.
Validate(values) == \A i \in DOMAIN values : IsPrefix(values[i]) \/ IsAddr(values[i])

\* Seeded fault for the mutant runs: the bits of a mapped prefix are taken as they are.
normalizePrefixKeepsBits(addr, bits) == MaskedPrefix(Unmap(addr), bits)

\* A prefix of mapped addresses becomes one of IPv4 addresses.  With less than MapBits
\* bits its length is negative, and it contains nothing.
normalizePrefix(addr, bits) ==
  MaskedPrefix(Unmap(addr), IF Is4In6(addr) THEN bits - MapBits ELSE bits)

\* parseIPOrPrefix of package access.
TrustedPrefix(value) ==
  IF value.bits # None THEN normalizePrefix(value.addr, value.bits)
  ELSE MaskedPrefix(Unmap(value.addr), BitLen(Unmap(value.addr)))

\* NewClientIPResolver, which trims each value: whether all of them parse, and the
\* prefixes they are then.
NewClientIPResolver(values) ==
  LET trimmed == [i \in DOMAIN values |-> [values[i] EXCEPT !.padded = FALSE]]
  IN  [parsed |-> \A i \in DOMAIN values : IsPrefix(trimmed[i]) \/ IsAddr(trimmed[i]),
       trustedProxies |-> {TrustedPrefix(trimmed[i]) : i \in DOMAIN values}]

------------------------------------------------------------------------------
(* A request: its peer and the entries of its X-Forwarded-For header.      *)

isTrusted(trustedProxies, addr) ==
  \E prefix \in trustedProxies : Unmap(addr) \in prefix

\* Seeded fault: the entries are read from the left.
ForwardedLeft(entries) ==
  LET valid == {i \in DOMAIN entries : entries[i] # None}
      first == {i \in valid : \A j \in valid : i <= j}
  IN  IF first = {} THEN None ELSE entries[CHOOSE i \in first : TRUE]

\* The right-most entry that is an address.
Forwarded(entries) ==
  LET valid == {i \in DOMAIN entries : entries[i] # None}
      last == {i \in valid : \A j \in valid : j <= i}
  IN  IF last = {} THEN None ELSE entries[CHOOSE i \in last : TRUE]

\* Resolve: the peer itself, unless it is trusted and forwards an address.  parseAddr
\* unmaps the peer and the entries, not the peer's own address when that is returned.
Resolve(trustedProxies, peer, entries) ==
  IF isTrusted(trustedProxies, Unmap(peer)) /\ Forwarded(entries) # None
  THEN Unmap(Forwarded(entries))
  ELSE peer

\* Seeded fault: the manager compares the addresses as they are written.
normalizeIPNot(addr) == addr

\* normalizeIP of the manager, by which a mapped address is written like the IPv4 one; what
\* is no address stays as it is.
normalizeIP(addr) == Unmap(addr)

------------------------------------------------------------------------------
(* What a configured value says, in bits of IPv6 addresses alone.          *)

AsV6(addr) ==
  IF addr \in V6Addresses THEN addr
  ELSE [i \in 1 .. V6Bits |-> IF i <= MapBits THEN MappedBlock[i] ELSE addr[i - MapBits]]

PrefixBits(value) ==
  IF value.bits = None THEN V6Bits
  ELSE value.bits + (IF value.addr \in V6Addresses THEN 0 ELSE MapBits)

Covers(value, addr) ==
  \A i \in 1 .. PrefixBits(value) : AsV6(addr)[i] = AsV6(value.addr)[i]

\* The value cannot mean IPv4 and other addresses at once.
OneFamily(value) == PrefixBits(value) >= MapBits
==============================================================================
