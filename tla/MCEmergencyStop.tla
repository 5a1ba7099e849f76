---------------------------- MODULE MCEmergencyStop ----------------------------
(***************************************************************************)
(* Two operators: one drives, the other presses the emergency stop.        *)
(***************************************************************************)
EXTENDS EmergencyStop

MCAddrs == {"phone", "pc"}
MCOperators ==
  << [name |-> "ivan", ips |-> {"phone"}],
     [name |-> "kate", ips |-> {"pc"}] >>
Rivals == [k \in Conns |-> IF k = "a" THEN "phone" ELSE "pc"]
Pivot == {<<0, 60>>}
==============================================================================
