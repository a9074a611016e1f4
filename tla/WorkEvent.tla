------------------------------ MODULE WorkEvent ------------------------------
(***************************************************************************)
(* What Threading::WorkSema promises its users (common/Threading.h): one   *)
(* worker that sleeps until it is notified of work, and at most one thread *)
(* that waits for the worker to run out of work.                           *)
(*                                                                         *)
(* WorkSema.tla is the lock-free implementation and refines this module;   *)
(* MTGS.tla and MTVU.tla instantiate it for the semaphore they are built   *)
(* on, so that they do not carry the encoding of its state word.           *)
(***************************************************************************)
VARIABLES
  notified,  \* the worker was notified and has not looked again since
  phase,     \* the worker: "running", "idle" (in WaitForWork), "dead"
  waiter     \* the thread in WaitForEmpty: "none", "waiting", "released"

vars == <<notified, phase, waiter>>

TypeOK ==
  /\ notified \in BOOLEAN
  /\ phase \in {"running", "idle", "dead"}
  /\ waiter \in {"none", "waiting", "released"}

Init ==
  /\ notified = FALSE
  /\ phase = "running"
  /\ waiter = "none"

-----------------------------------------------------------------------------
Release == waiter' = IF waiter = "waiting" THEN "released" ELSE waiter

\* NotifyOfWork: a dead worker is not notified.
Notify ==
  /\ notified' = (phase # "dead")
  /\ UNCHANGED <<phase, waiter>>

\* WaitForWork returns at once: there was a notification since the last call.
GoOn ==
  /\ phase = "running" /\ notified
  /\ notified' = FALSE
  /\ UNCHANGED <<phase, waiter>>

\* WaitForWork finds no notification: a thread in WaitForEmpty is let go.
GoIdle ==
  /\ phase = "running" /\ ~notified
  /\ phase' = "idle"
  /\ Release
  /\ UNCHANGED notified

\* WaitForWork returns because a notification arrived while it waited.
WakeUp ==
  /\ phase = "idle" /\ notified
  /\ notified' = FALSE
  /\ phase' = "running"
  /\ UNCHANGED waiter

\* WaitForEmpty finds the worker idle or dead and returns at once ...
EmptyAtOnce ==
  /\ waiter = "none"
  /\ \/ phase = "idle" /\ ~notified
     \/ phase = "dead"
  /\ UNCHANGED vars

\* ... or waits until the worker goes idle or dies.
EmptyWait ==
  /\ waiter = "none"
  /\ phase = "running" \/ (phase = "idle" /\ notified)
  /\ waiter' = "waiting"
  /\ UNCHANGED <<notified, phase>>

EmptyReturn ==
  /\ waiter = "released"
  /\ waiter' = "none"
  /\ UNCHANGED <<notified, phase>>

\* Kill, by the worker as it dies; Reset, before it is started again.
Kill ==
  /\ phase = "running"
  /\ phase' = "dead"
  /\ notified' = FALSE
  /\ Release

Reset ==
  /\ phase = "dead"
  /\ phase' = "running"
  /\ UNCHANGED <<notified, waiter>>

-----------------------------------------------------------------------------
Next ==
  \/ Notify
  \/ GoOn \/ GoIdle \/ WakeUp
  \/ EmptyAtOnce \/ EmptyWait \/ EmptyReturn
  \/ Kill \/ Reset

Spec == Init /\ [][Next]_vars
=============================================================================
