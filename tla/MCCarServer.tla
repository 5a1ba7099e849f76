------------------------------ MODULE MCCarServer ------------------------------
(***************************************************************************)
(* Two operators with one connection each, one speed, and one command that *)
(* is out of range.                                                        *)
(***************************************************************************)
EXTENDS CarServer

MCAddrs == {"phone", "pc"}

MCOperators ==
  << [name |-> "ivan", ips |-> {"phone"}],
     [name |-> "kate", ips |-> {"pc"}] >>

Rivals == [k \in Conns |-> IF k = "a" THEN "phone" ELSE "pc"]

Pivot == {<<0, 60>>}
PivotAndBad == Pivot \cup {<<50, 101>>}
==============================================================================
