----------------------------- MODULE MCAdmission -----------------------------
(***************************************************************************)
(* IPv4 addresses of two bits and IPv6 addresses of three, half of which   *)
(* are mapped.  Two operators with two addresses each, one of them listed  *)
(* in its mapped form, and one whose only address the next entry of the    *)
(* configuration claims; one listed text is no address.  The other         *)
(* addresses belong to nobody.                                             *)
(***************************************************************************)
EXTENDS Admission

V4(n) == <<n \div 2, n % 2>>
V6(n) == <<n \div 4, (n \div 2) % 2, n % 2>>

MCMappedBlock == <<1>>

MCAddrs == {V4(n) : n \in 0 .. 3} \cup {V6(n) : n \in 0 .. 3}

MCOperators ==
  << [name |-> "ivan", ips |-> {V4(0), V6(0)}],
     [name |-> "guest", ips |-> {V4(1), None}],
     [name |-> "kate", ips |-> {V6(5), V4(2)}] >>

MCChallenger == V6(0)

\* No proxy, or one value.
MCConfigurations == {<<>>} \cup {<<value>> : value \in Values}

\* No header, one line of up to two entries, or two lines of one.
MCHeaders ==
  LET entries == {None, V4(0), V4(3), V6(5)}
      lines == {<<e>> : e \in entries}
  IN  {<<>>} \cup {<<l>> : l \in lines \cup {<<e, f>> : e, f \in entries}}
        \cup {<<l, l2>> : l, l2 \in lines}
==============================================================================
