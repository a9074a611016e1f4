---------------------------- MODULE CommandQueue ----------------------------
(***************************************************************************)
(* What the command rings of the GS thread (pcsx2/MTGS.cpp) and of the VU  *)
(* thread (pcsx2/MTVU.cpp) promise the EE thread: a queue without limit.   *)
(* The worker executes every command once, in order and as it was sent; it *)
(* goes to sleep only when it has executed all; and when the EE has waited *)
(* for that, the worker keeps still until the EE goes on.                  *)
(*                                                                         *)
(* MTGS.tla and MTVU.tla are the rings, and refine this module.  Positions *)
(* that wrap, stalls, signals and notifications are not seen here.         *)
(***************************************************************************)
EXTENDS Sequences

CONSTANT Commands

VARIABLES
  queue,   \* what was sent and is not done with
  taken,   \* the command that the worker has in hand, or nothing
  worker,  \* the worker thread: "awake", "asleep"
  client   \* the EE thread: "sending", or "drained" after WaitGS or WaitVU

vars == <<queue, taken, worker, client>>

Init ==
  /\ queue = <<>> /\ taken = <<>>
  /\ worker = "asleep" /\ client = "sending"

-----------------------------------------------------------------------------
(* The EE thread *)

\* A command is sent once its last word is in the ring and the write position moved.
Send ==
  /\ client = "sending"
  /\ \E command \in Commands : queue' = Append(queue, command)
  /\ UNCHANGED <<taken, worker, client>>

\* WaitGS, WaitVU: they return when nothing is left to do ...
Drain ==
  /\ client = "sending"
  /\ queue = <<>> /\ taken = <<>> /\ worker = "asleep"
  /\ client' = "drained"
  /\ UNCHANGED <<queue, taken, worker>>

\* ... and the EE may touch what is the worker's, reset the ring, until it goes on.
GoOn ==
  /\ client = "drained"
  /\ client' = "sending"
  /\ UNCHANGED <<queue, taken, worker>>

-----------------------------------------------------------------------------
(* The worker *)

Wake ==
  /\ worker = "asleep" /\ client # "drained"
  /\ worker' = "awake"
  /\ UNCHANGED <<queue, taken, client>>

Take ==
  /\ worker = "awake" /\ taken = <<>> /\ queue # <<>>
  /\ taken' = <<Head(queue)>>
  /\ UNCHANGED <<queue, worker, client>>

Done ==
  /\ worker = "awake" /\ taken # <<>>
  /\ taken' = <<>> /\ queue' = Tail(queue)
  /\ UNCHANGED <<worker, client>>

Sleep ==
  /\ worker = "awake" /\ taken = <<>> /\ queue = <<>>
  /\ worker' = "asleep"
  /\ UNCHANGED <<queue, taken, client>>

-----------------------------------------------------------------------------
Next == Send \/ Drain \/ GoOn \/ Wake \/ Take \/ Done \/ Sleep

Spec == Init /\ [][Next]_vars
=============================================================================
