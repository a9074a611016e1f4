------------------------------- MODULE MCMTGS -------------------------------
(* MTGS on a ring of a few quadwords. *)
EXTENDS MTGS
=============================================================================
