----------------------------- MODULE MCMotionWatch -----------------------------
(***************************************************************************)
(* The operators of MCCarServer, and a car that reports that it stands or  *)
(* that it moves, whatever it was told.                                    *)
(***************************************************************************)
EXTENDS MCCarServer, MotionWatch

MCReports == Pivot \cup {<<0, 0>>}
==============================================================================
