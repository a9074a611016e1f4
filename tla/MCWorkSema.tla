---------------------------- MODULE MCWorkSema ----------------------------
(* WorkSema with two clients: one that only pushes, one that also waits. *)
EXTENDS WorkSema
=============================================================================
