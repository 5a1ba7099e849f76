----------------------------- MODULE MCMotorClient -----------------------------
(***************************************************************************)
(* Two goroutines, a client and the watchdog, say: every pair overlaps.    *)
(***************************************************************************)
EXTENDS MotorClient
==============================================================================
