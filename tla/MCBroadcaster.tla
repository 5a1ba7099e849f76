----------------------------- MODULE MCBroadcaster -----------------------------
(***************************************************************************)
(* Two viewers that come and leave at any time, and a camera that sends    *)
(* three frames and fails at any time.                                     *)
(***************************************************************************)
EXTENDS Broadcaster
==============================================================================
