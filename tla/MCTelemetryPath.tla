---------------------------- MODULE MCTelemetryPath ----------------------------
(***************************************************************************)
(* One viewer and a socket that keeps one packet.                          *)
(***************************************************************************)
EXTENDS TelemetryPath
==============================================================================
