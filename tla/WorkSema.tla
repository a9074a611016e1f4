------------------------------ MODULE WorkSema ------------------------------
(***************************************************************************)
(* Threading::WorkSema (common/Semaphore.cpp, common/Threading.h) with the *)
(* loops of its users around it: client threads push work into a queue and *)
(* then call NotifyOfWork, the worker alternates WaitForWork with emptying *)
(* the queue, one client calls WaitForEmpty, and a worker that dies calls  *)
(* Kill and is started again after Reset.                                  *)
(*                                                                         *)
(* m_state is the s32 of the code, bit for bit: the sleeping and spinning  *)
(* states are negative, so that bit 30, the waiting-for-empty flag, reads  *)
(* as set in both of them.  A compare-exchange loop is one step, the       *)
(* successful exchange; a failed one changes nothing that is shared.       *)
(***************************************************************************)
EXTENDS Integers

CONSTANTS
  Clients,    \* threads that push work
  Waiter,     \* the client that calls WaitForEmpty
  MaxWork,    \* bound on the items ever pushed
  MaxNotify   \* bound on notifications between two looks of the worker

VARIABLES
  m_state,      \* the atomic s32
  m_sema,       \* tokens of the kernel semaphore the worker sleeps on
  m_empty_sema, \* tokens of the one WaitForEmpty sleeps on
  wpc,          \* where the worker is
  cpc,          \* where each client is
  pushed,       \* items put into the queue so far
  processed,    \* items taken out of it, or thrown away by a restart
  covered,      \* history: items pushed when NotifyOfWork was last called
  mark,         \* history: covered when WaitForEmpty was entered
  outcome       \* what WaitForEmpty returned: "true", "false", "none" before

queue == <<pushed, processed, covered>>
vars  == <<m_state, m_sema, m_empty_sema, wpc, cpc, pushed, processed,
           covered, mark, outcome>>

-----------------------------------------------------------------------------
(* The state word *)

STATE_SPINNING  == -2
STATE_SLEEPING  == -1
STATE_RUNNING_0 == 0
STATE_FLAG_WAITING_EMPTY == 1073741824                \* 1 << 30
STATE_DEAD == -STATE_FLAG_WAITING_EMPTY - STATE_FLAG_WAITING_EMPTY  \* INT_MIN

\* The count of notifications stays clear of the flag.
ASSUME WorkSemaAssumption ==
  /\ Waiter \in Clients
  /\ MaxWork \in Nat
  /\ MaxNotify \in Nat \ {0}
  /\ MaxNotify + 2 < STATE_FLAG_WAITING_EMPTY

IsDead(s) == s < STATE_SPINNING

\* Bit 30 of the word: set in both negative live states, clear in a dead one.
HasFlag(s) == s \in {STATE_SPINNING, STATE_SLEEPING}
              \/ s >= STATE_FLAG_WAITING_EMPTY

\* m_state.fetch_and(STATE_FLAG_WAITING_EMPTY)
OnlyFlag(s) == IF HasFlag(s) THEN STATE_FLAG_WAITING_EMPTY ELSE STATE_RUNNING_0

\* (With a bug: the count is ignored.)
IsReadyForSleepAlways(s) == s >= STATE_RUNNING_0

IsReadyForSleep(s) == s \in {STATE_RUNNING_0, STATE_FLAG_WAITING_EMPTY}

\* The sleeping state has every bit set: OR-ing the flag into it is no change.
NextStateWaitForWork(s) ==
  IF IsReadyForSleep(s) THEN STATE_SLEEPING ELSE OnlyFlag(s)

\* Notifications the word counts: it grows by 2 each time (MaxNotify bounds it).
Counter(s) == IF s >= STATE_FLAG_WAITING_EMPTY
              THEN s - STATE_FLAG_WAITING_EMPTY
              ELSE IF IsDead(s) THEN s - STATE_DEAD ELSE s

-----------------------------------------------------------------------------
(* The worker: WaitForWork or WaitForWorkWithSpin, then the queue *)

IdlePCs == {"postSleep", "sleep", "postSpin", "spin", "ack"}
DeadPCs == {"killPost", "cleanup", "dead"}
WorkerPCs == {"call", "ackBusy", "work"} \cup IdlePCs \cup DeadPCs

WorkerMoves(from, to) == wpc = from /\ wpc' = to

\* WaitForWork up to the exchange, and on to the post, the sleep or the queue.
WaitForWork ==
  /\ wpc = "call"
  /\ m_state' = NextStateWaitForWork(m_state)
  /\ wpc' = IF ~IsReadyForSleep(m_state) THEN "work"
            ELSE IF HasFlag(m_state) THEN "postSleep" ELSE "sleep"
  /\ UNCHANGED <<m_sema, m_empty_sema, cpc, queue, mark, outcome>>

\* WaitForWorkWithSpin up to the exchange to STATE_SPINNING, if it makes one.
WaitForWorkWithSpin ==
  /\ wpc = "call"
  /\ IF IsReadyForSleep(m_state)
     THEN /\ m_state' = STATE_SPINNING
          /\ wpc' = IF HasFlag(m_state) THEN "postSpin" ELSE "spin"
     ELSE /\ wpc' = "ackBusy"
          /\ UNCHANGED m_state
  /\ UNCHANGED <<m_sema, m_empty_sema, cpc, queue, mark, outcome>>

\* if (value & STATE_FLAG_WAITING_EMPTY) m_empty_sema.Post()
PostEmpty ==
  /\ \/ WorkerMoves("postSleep", "sleep")
     \/ WorkerMoves("postSpin", "spin")
  /\ m_empty_sema' = m_empty_sema + 1
  /\ UNCHANGED <<m_state, m_sema, cpc, queue, mark, outcome>>

\* The spin loop reads a state that is no longer negative.
SpinNotice ==
  /\ WorkerMoves("spin", "ack")
  /\ m_state >= 0
  /\ UNCHANGED <<m_state, m_sema, m_empty_sema, cpc, queue, mark, outcome>>

\* (With a bug: the state is stored, not compared and exchanged.)
SpinTimeoutStore ==
  /\ WorkerMoves("spin", "sleep")
  /\ m_state' = STATE_SLEEPING
  /\ UNCHANGED <<m_sema, m_empty_sema, cpc, queue, mark, outcome>>

\* It has spun for SPIN_TIME_NS and goes to sleep instead.
SpinTimeout ==
  /\ WorkerMoves("spin", "sleep")
  /\ m_state = STATE_SPINNING
  /\ m_state' = STATE_SLEEPING
  /\ UNCHANGED <<m_sema, m_empty_sema, cpc, queue, mark, outcome>>

\* m_sema.Wait() returns.
Wake ==
  /\ WorkerMoves("sleep", "ack")
  /\ m_sema > 0
  /\ m_sema' = m_sema - 1
  /\ UNCHANGED <<m_state, m_empty_sema, cpc, queue, mark, outcome>>

\* (With a bug: the flag is cleared with the count.)
AcknowledgeAll ==
  /\ WorkerMoves("ack", "work") \/ WorkerMoves("ackBusy", "work")
  /\ m_state' = STATE_RUNNING_0
  /\ UNCHANGED <<m_sema, m_empty_sema, cpc, queue, mark, outcome>>

\* m_state.fetch_and: whatever was notified by now is about to be seen.
Acknowledge ==
  /\ \/ WorkerMoves("ack", "work")
     \/ WorkerMoves("ackBusy", "work")
  /\ m_state' = OnlyFlag(m_state)
  /\ UNCHANGED <<m_sema, m_empty_sema, cpc, queue, mark, outcome>>

\* The user's loop over its queue: an item, or none left and WaitForWork again.
Process ==
  /\ WorkerMoves("work", "work")
  /\ processed < pushed
  /\ processed' = processed + 1
  /\ UNCHANGED <<m_state, m_sema, m_empty_sema, cpc, pushed, covered, mark,
                 outcome>>

QueueEmpty ==
  /\ WorkerMoves("work", "call")
  /\ processed = pushed
  /\ UNCHANGED <<m_state, m_sema, m_empty_sema, cpc, queue, mark, outcome>>

\* (With a bug: the dead bit is OR-ed into the word.)
KillOr ==
  /\ wpc = "work"
  /\ m_state' = STATE_DEAD + m_state
  /\ wpc' = IF HasFlag(m_state) THEN "killPost" ELSE "cleanup"
  /\ UNCHANGED <<m_sema, m_empty_sema, cpc, queue, mark, outcome>>

\* (With a bug: the thread in WaitForEmpty is not told.)
KillSilently ==
  /\ WorkerMoves("work", "cleanup")
  /\ m_state' = STATE_DEAD
  /\ UNCHANGED <<m_sema, m_empty_sema, cpc, queue, mark, outcome>>

\* An exception, or a cancellation at the check after WaitForWork: Kill runs as
\* the stack unwinds, and then the cleanup handler empties the queue.
Kill ==
  /\ wpc = "work"
  /\ m_state' = STATE_DEAD
  /\ wpc' = IF HasFlag(m_state) THEN "killPost" ELSE "cleanup"
  /\ UNCHANGED <<m_sema, m_empty_sema, cpc, queue, mark, outcome>>

KillPost ==
  /\ WorkerMoves("killPost", "cleanup")
  /\ m_empty_sema' = m_empty_sema + 1
  /\ UNCHANGED <<m_state, m_sema, cpc, queue, mark, outcome>>

OnCleanupInThread ==
  /\ WorkerMoves("cleanup", "dead")
  /\ processed' = pushed
  /\ UNCHANGED <<m_state, m_sema, m_empty_sema, cpc, pushed, covered, mark,
                 outcome>>

WorkerStep ==
  \/ WaitForWork \/ WaitForWorkWithSpin \/ PostEmpty
  \/ SpinNotice \/ SpinTimeout \/ Wake \/ Acknowledge
  \/ Process \/ QueueEmpty
  \/ KillPost \/ OnCleanupInThread

-----------------------------------------------------------------------------
(* The clients *)

ClientPCs == {"idle", "pushed", "start", "wake", "wait", "check"}

ClientMoves(c, from, to) ==
  /\ cpc[c] = from
  /\ cpc' = [cpc EXCEPT ![c] = to]

Push(c) ==
  /\ ClientMoves(c, "idle", "pushed")
  /\ pushed < MaxWork
  /\ pushed' = pushed + 1
  /\ UNCHANGED <<m_state, m_sema, m_empty_sema, wpc, processed, covered, mark,
                 outcome>>

\* (With a bug: a spinning worker is posted too.)
NotifyOfWorkIfNegative(c) ==
  /\ cpc[c] \in {"pushed", "start"}
  /\ Counter(m_state) < MaxNotify
  /\ m_state' = m_state + 2
  /\ covered' = pushed
  /\ cpc' = [cpc EXCEPT ![c] = IF m_state \in {STATE_SLEEPING, STATE_SPINNING}
                               THEN "wake" ELSE "idle"]
  /\ UNCHANGED <<m_sema, m_empty_sema, wpc, pushed, processed, mark, outcome>>

\* m_state.fetch_add(2); the post is a step of its own.
NotifyOfWork(c) ==
  /\ cpc[c] \in {"pushed", "start"}
  /\ Counter(m_state) < MaxNotify
  /\ m_state' = m_state + 2
  /\ covered' = pushed
  /\ cpc' = [cpc EXCEPT ![c] = IF m_state = STATE_SLEEPING THEN "wake" ELSE "idle"]
  /\ UNCHANGED <<m_sema, m_empty_sema, wpc, pushed, processed, mark, outcome>>

PostWorker(c) ==
  /\ ClientMoves(c, "wake", "idle")
  /\ m_sema' = m_sema + 1
  /\ UNCHANGED <<m_state, m_empty_sema, wpc, queue, mark, outcome>>

\* Start of a worker that died: the queue is cleared, the state word reset, the
\* thread created, and the starter notifies it once.
Restart(c) ==
  /\ ClientMoves(c, "idle", "start")
  /\ WorkerMoves("dead", "call")
  /\ m_state' = STATE_RUNNING_0
  /\ processed' = pushed
  /\ UNCHANGED <<m_sema, m_empty_sema, pushed, covered, mark, outcome>>

\* WaitForEmpty (and WaitForEmptyWithSpin, which tries the same for longer):
\* a negative state says the queue is empty or the worker is dead ...
WaitForEmpty ==
  /\ cpc[Waiter] = "idle"
  /\ m_state < 0
  /\ mark' = covered
  /\ outcome' = IF IsDead(m_state) THEN "false" ELSE "true"
  /\ UNCHANGED <<m_state, m_sema, m_empty_sema, wpc, cpc, queue>>

\* ... any other state takes the flag, and the caller sleeps.
WaitForEmptySleep ==
  /\ ClientMoves(Waiter, "idle", "wait")
  /\ m_state >= 0
  /\ m_state' = IF HasFlag(m_state) THEN m_state
                ELSE m_state + STATE_FLAG_WAITING_EMPTY
  /\ mark' = covered
  /\ outcome' = "none"
  /\ UNCHANGED <<m_sema, m_empty_sema, wpc, queue>>

EmptyWake ==
  /\ ClientMoves(Waiter, "wait", "check")
  /\ m_empty_sema > 0
  /\ m_empty_sema' = m_empty_sema - 1
  /\ UNCHANGED <<m_state, m_sema, wpc, queue, mark, outcome>>

EmptyReturn ==
  /\ ClientMoves(Waiter, "check", "idle")
  /\ outcome' = IF IsDead(m_state) THEN "false" ELSE "true"
  /\ UNCHANGED <<m_state, m_sema, m_empty_sema, wpc, queue, mark>>

-----------------------------------------------------------------------------
Init ==
  /\ m_state = STATE_RUNNING_0
  /\ m_sema = 0 /\ m_empty_sema = 0
  /\ wpc = "call"
  /\ cpc = [c \in Clients |-> "idle"]
  /\ pushed = 0 /\ processed = 0 /\ covered = 0
  /\ mark = 0
  /\ outcome = "none"

ClientStep(c) == NotifyOfWork(c) \/ PostWorker(c)

Next ==
  \/ WorkerStep
  \/ Kill
  \/ \E c \in Clients : Push(c) \/ ClientStep(c) \/ Restart(c)
  \/ WaitForEmpty \/ WaitForEmptySleep \/ EmptyWake \/ EmptyReturn

\* The scheduler runs every thread that can run.  Nobody has to push, to call
\* WaitForEmpty, to die, or to start a dead worker.
Fairness ==
  /\ WF_vars(WorkerStep)
  /\ \A c \in Clients : WF_vars(ClientStep(c))
  /\ WF_vars(EmptyWake \/ EmptyReturn)

Spec == Init /\ [][Next]_vars
FairSpec == Spec /\ Fairness

-----------------------------------------------------------------------------
(* What it promises *)

\* Live states, states with the flag, dead states; a count is at most MaxNotify + 1.
StateWords ==
  (STATE_SPINNING .. MaxNotify + 1)
    \cup (STATE_FLAG_WAITING_EMPTY .. STATE_FLAG_WAITING_EMPTY + MaxNotify + 1)
    \cup (STATE_DEAD .. STATE_DEAD + MaxNotify + 1)

\* The state word never leaves the encoding of the enum in Threading.h.
TypeOK ==
  /\ m_state \in StateWords
  /\ m_sema \in Nat
  /\ m_empty_sema \in Nat
  /\ wpc \in WorkerPCs
  /\ cpc \in [Clients -> ClientPCs]
  /\ pushed \in Nat /\ processed \in Nat /\ covered \in Nat
  /\ mark \in Nat
  /\ outcome \in {"none", "true", "false"}

\* A worker asleep on m_sema with no token and no token on its way has handled
\* every item that was notified: NotifyOfWork is never lost between the look at
\* the state and the sleep (Semaphore.cpp, WaitForWork; "race-free WorkSema").
NoLostWakeup ==
  (wpc = "sleep" /\ m_sema = 0 /\ \A c \in Clients : cpc[c] # "wake")
    => covered <= processed

\* WaitForEmpty returns true only when every item notified before the call was
\* handled ("Wait for the worker thread to finish processing all entries").
EmptyMeansEmpty == outcome = "true" => mark <= processed

\* No semaphore keeps a token that nobody is about to take, and the flag is up
\* only for a thread that sleeps: a stale token or flag would end a later wait
\* early, or trip the assertion that only one thread waits for empty.
TokensHaveTakers ==
  /\ m_sema <= 1 /\ (m_sema = 1 => wpc \in {"postSleep", "sleep"})
  /\ m_empty_sema <= 1 /\ (m_empty_sema = 1 => cpc[Waiter] = "wait")
  /\ m_state >= STATE_FLAG_WAITING_EMPTY => cpc[Waiter] = "wait"

\* The state word and the two semaphores implement the event of WorkEvent.
EventPhase ==
  IF wpc \in DeadPCs THEN "dead" ELSE IF wpc \in IdlePCs THEN "idle" ELSE "running"

EventNotified ==
  /\ wpc \notin DeadPCs
  /\ IF wpc \in IdlePCs THEN m_state >= 0 ELSE Counter(m_state) > 0

EventWaiter ==
  IF cpc[Waiter] \notin {"wait", "check"} THEN "none"
  ELSE IF m_state >= STATE_FLAG_WAITING_EMPTY THEN "waiting" ELSE "released"

Event == INSTANCE WorkEvent WITH
           phase <- EventPhase, notified <- EventNotified, waiter <- EventWaiter

ImplementsWorkEvent == Event!Spec

\* Nobody waits for good: every notified item is handled, unless the worker dies first,
\* and WaitForEmpty always returns, also when the worker dies under the caller.
WaitsEnd ==
  /\ \A n \in 1 .. MaxWork :
       (covered >= n) ~> (processed >= n \/ wpc \in DeadPCs)
  /\ (cpc[Waiter] = "wait") ~> (cpc[Waiter] = "idle")
=============================================================================
