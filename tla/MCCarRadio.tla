------------------------------ MODULE MCCarRadio ------------------------------
(***************************************************************************)
(* One operator against the watchdog, one speed.                           *)
(***************************************************************************)
EXTENDS CarRadio

MCAddrs == {"phone"}
MCOperators == << [name |-> "ivan", ips |-> {"phone"}] >>
Phone == [k \in Conns |-> "phone"]
Pivot == {<<0, 60>>}
MCReports == {<<0, 0>>, <<0, 60>>}
==============================================================================
