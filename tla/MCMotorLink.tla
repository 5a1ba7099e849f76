------------------------------ MODULE MCMotorLink ------------------------------
(***************************************************************************)
(* Two callers whose commands overlap, one speed, one command whose right  *)
(* speed is out of range, and reports that agree, disagree or are out of   *)
(* range; the timeout is four units, so the monitor looks every second.    *)
(***************************************************************************)
EXTENDS MotorLink

MCCommands == {<<60, 60>>, <<50, -101>>}
MCReports == {<<0, 0>>, <<130, 0>>}
==============================================================================
