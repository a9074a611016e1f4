------------------------------- MODULE MCMTVU -------------------------------
(* MTVU on a buffer of a few words. *)
EXTENDS MTVU
=============================================================================
