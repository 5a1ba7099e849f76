---------------------------- MODULE MCRemoteDrive ----------------------------
(***************************************************************************)
(* One operator with a button and a key, whose page may reconnect once.    *)
(***************************************************************************)
EXTENDS RemoteDrive

MCOperators == << [name |-> "ivan", ips |-> {"phone"}] >>
MCConnAddr == [k \in Conns |-> "phone"]
MCCommands == {<<0, 60>>}
MCCommandOf == [i \in Inputs |-> <<0, 60>>]
==============================================================================
