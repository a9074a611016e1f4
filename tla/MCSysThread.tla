----------------------------- MODULE MCSysThread -----------------------------
(* A small instance of SysThread. *)
EXTENDS SysThread
=============================================================================
