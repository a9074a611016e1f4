--------------------------- MODULE WorkSemaProofs ---------------------------
(***************************************************************************)
(* Proofs about WorkSema for any set of clients and any bounds: the type   *)
(* invariant, and the inductive invariant IInv from which the three safety *)
(* invariants of the runs follow.                                          *)
(***************************************************************************)
EXTENDS WorkSema, TLAPS

-----------------------------------------------------------------------------
(* The inductive invariant *)

\* Where the worker is and what the state word says of it.
StateMatchesWorker ==
  /\ wpc \in {"call", "work", "ack", "ackBusy"} => m_state >= 0
  /\ wpc \in {"postSleep", "sleep"} => m_state = STATE_SLEEPING \/ m_state >= 0
  /\ wpc \in {"postSpin", "spin"} => m_state = STATE_SPINNING \/ m_state >= 0
  /\ wpc \in DeadPCs => IsDead(m_state)

\* Exactly one wake-up, a token or a client about to post it, is under way when
\* a sleeping worker was notified, and none is otherwise.
WakeTokens ==
  IF wpc \in {"postSleep", "sleep"} /\ m_state >= 0
  THEN \/ m_sema = 1 /\ \A c \in Clients : cpc[c] # "wake"
       \/ /\ m_sema = 0
          /\ \E c \in Clients : cpc[c] = "wake"
          /\ \A c, d \in Clients : cpc[c] = "wake" /\ cpc[d] = "wake" => c = d
  ELSE m_sema = 0 /\ \A c \in Clients : cpc[c] # "wake"

\* A waiting client is owed exactly one release: the flag, a worker about to
\* post, or a token.
Posting == wpc \in {"postSleep", "postSpin", "killPost"}
Flagged == m_state >= STATE_FLAG_WAITING_EMPTY

EmptyTokens ==
  IF cpc[Waiter] = "wait"
  THEN \/ Flagged /\ ~Posting /\ m_empty_sema = 0
       \/ ~Flagged /\ Posting /\ m_empty_sema = 0
       \/ ~Flagged /\ ~Posting /\ m_empty_sema = 1
  ELSE ~Flagged /\ ~Posting /\ m_empty_sema = 0

\* Notified work is either done or counted in the state word, except while the
\* worker is looking through the queue.
WorkIsCounted ==
  /\ covered <= pushed
  /\ processed <= pushed
  /\ mark <= covered
  /\ wpc = "call" /\ IsReadyForSleep(m_state) => covered <= processed
  /\ wpc \in IdlePCs /\ m_state < 0 => covered <= processed

\* A released caller of WaitForEmpty can only see drained work or a dead worker.
ReleasedIsDrained ==
  /\ (cpc[Waiter] \in {"wait", "check"} /\ ~Flagged /\ ~IsDead(m_state))
       => mark <= processed
  /\ outcome = "true" => mark <= processed

IInv ==
  /\ TypeOK
  /\ StateMatchesWorker
  /\ WakeTokens
  /\ EmptyTokens
  /\ WorkIsCounted
  /\ ReleasedIsDrained

-----------------------------------------------------------------------------
\* All that the proofs use of the two large words.
LEMMA WordFacts ==
  /\ STATE_FLAG_WAITING_EMPTY \in Nat
  /\ STATE_FLAG_WAITING_EMPTY > MaxNotify + 2
  /\ STATE_DEAD \in Int
  /\ STATE_DEAD = -STATE_FLAG_WAITING_EMPTY - STATE_FLAG_WAITING_EMPTY
<1>1. STATE_FLAG_WAITING_EMPTY \in Nat
    BY SMT DEF STATE_FLAG_WAITING_EMPTY
<1> QED
    BY <1>1, WorkSemaAssumption DEF STATE_DEAD

LEMMA InitIInv == Init => IInv
  BY WorkSemaAssumption, WordFacts
  DEF Init, IInv, TypeOK, StateMatchesWorker, WakeTokens, EmptyTokens,
      WorkIsCounted, ReleasedIsDrained, StateWords, Flagged, Posting, IdlePCs,
      DeadPCs, WorkerPCs, ClientPCs, IsReadyForSleep, IsDead, STATE_RUNNING_0,
      STATE_SPINNING, STATE_SLEEPING

LEMMA NextIInv == IInv /\ [Next]_vars => IInv'
<1> SUFFICES ASSUME IInv, [Next]_vars PROVE IInv'
    OBVIOUS
<1> USE WorkSemaAssumption, WordFacts
    DEF IInv, TypeOK, StateMatchesWorker, WakeTokens, EmptyTokens,
        WorkIsCounted, ReleasedIsDrained, StateWords, Flagged, Posting, IdlePCs,
        DeadPCs, WorkerPCs, ClientPCs, IsReadyForSleep, IsDead, HasFlag,
        OnlyFlag, NextStateWaitForWork, Counter, STATE_RUNNING_0,
        STATE_SPINNING, STATE_SLEEPING,
        queue, WorkerMoves, ClientMoves
<1>1. CASE WaitForWork
    BY <1>1 DEF WaitForWork
<1>2. CASE WaitForWorkWithSpin
    BY <1>2 DEF WaitForWorkWithSpin
<1>3. CASE PostEmpty
    BY <1>3 DEF PostEmpty
<1>4. CASE SpinNotice
    BY <1>4 DEF SpinNotice
<1>5. CASE SpinTimeout
    BY <1>5 DEF SpinTimeout
<1>6. CASE Wake
    BY <1>6 DEF Wake
<1>7. CASE Acknowledge
    BY <1>7 DEF Acknowledge
<1>8. CASE Process
    BY <1>8 DEF Process
<1>9. CASE QueueEmpty
    BY <1>9 DEF QueueEmpty
<1>10. CASE KillPost
    BY <1>10 DEF KillPost
<1>11. CASE OnCleanupInThread
    BY <1>11 DEF OnCleanupInThread
<1>12. CASE Kill
    BY <1>12 DEF Kill
<1>13. ASSUME NEW c \in Clients, Push(c) PROVE IInv'
    BY <1>13 DEF Push
<1>14. ASSUME NEW c \in Clients, NotifyOfWork(c) PROVE IInv'
    BY <1>14 DEF NotifyOfWork
<1>15. ASSUME NEW c \in Clients, PostWorker(c) PROVE IInv'
    BY <1>15 DEF PostWorker
<1>16. ASSUME NEW c \in Clients, Restart(c) PROVE IInv'
    BY <1>16 DEF Restart
<1>17. CASE WaitForEmpty
    BY <1>17 DEF WaitForEmpty
<1>18. CASE WaitForEmptySleep
    BY <1>18 DEF WaitForEmptySleep
<1>19. CASE EmptyWake
    BY <1>19 DEF EmptyWake
<1>20. CASE EmptyReturn
    BY <1>20 DEF EmptyReturn
<1>21. CASE UNCHANGED vars
    BY <1>21 DEF vars
<1> QED
    BY <1>1, <1>2, <1>3, <1>4, <1>5, <1>6, <1>7, <1>8, <1>9, <1>10, <1>11, <1>12, <1>13,
       <1>14, <1>15, <1>16, <1>17, <1>18, <1>19, <1>20, <1>21
    DEF Next, WorkerStep, ClientStep

\* The inductive invariant holds in every reachable state, for any clients.
THEOREM Inductive == Spec => []IInv
  BY InitIInv, NextIInv, PTL DEF Spec

\* The state word stays within the encoding of Threading.h.
THEOREM TypeCorrect == Spec => []TypeOK
<1>1. IInv => TypeOK
    BY DEF IInv
<1> QED
    BY <1>1, Inductive, PTL

\* A sleeping worker with no wake-up under way has handled all notified work.
THEOREM NoWakeupIsLost == Spec => []NoLostWakeup
<1>1. IInv => NoLostWakeup
  <2> SUFFICES ASSUME IInv, wpc = "sleep", m_sema = 0,
                      \A c \in Clients : cpc[c] # "wake"
               PROVE  covered <= processed
      BY DEF NoLostWakeup
  <2>1. ~(m_state >= 0)
      BY DEF IInv, WakeTokens
  <2>2. m_state < 0
      BY <2>1, WordFacts, WorkSemaAssumption
      DEF IInv, TypeOK, StateWords, STATE_SPINNING
  <2> QED
      BY <2>2 DEF IInv, WorkIsCounted, IdlePCs
<1> QED
    BY <1>1, Inductive, PTL

\* WaitForEmpty never returns true before the work notified earlier is done.
THEOREM EmptyIsEmpty == Spec => []EmptyMeansEmpty
<1>1. IInv => EmptyMeansEmpty
    BY DEF IInv, ReleasedIsDrained, EmptyMeansEmpty
<1> QED
    BY <1>1, Inductive, PTL

\* Every semaphore token and the flag have the thread they are meant for.
THEOREM TokensAreTaken == Spec => []TokensHaveTakers
<1>1. IInv => TokensHaveTakers
    BY DEF IInv, WakeTokens, EmptyTokens, Flagged, TokensHaveTakers
<1> QED
    BY <1>1, Inductive, PTL

-----------------------------------------------------------------------------
(* Refinement *)

LEMMA EventInit == Init => Event!Init
  BY WordFacts, WorkSemaAssumption
  DEF Init, Event!Init, IdlePCs, DeadPCs, Counter, IsDead, STATE_RUNNING_0,
      STATE_SPINNING, EventPhase, EventNotified, EventWaiter

LEMMA EventStep == IInv /\ [Next]_vars => [Event!Next]_(Event!vars)
<1> SUFFICES ASSUME IInv, [Next]_vars PROVE [Event!Next]_(Event!vars)
    OBVIOUS
<1> USE WorkSemaAssumption, WordFacts
    DEF IInv, TypeOK, StateMatchesWorker, EmptyTokens, StateWords, Flagged,
        Posting, IdlePCs, DeadPCs, WorkerPCs, ClientPCs, IsReadyForSleep, IsDead,
        HasFlag, OnlyFlag, NextStateWaitForWork, Counter, STATE_RUNNING_0,
        STATE_SPINNING, STATE_SLEEPING, queue, WorkerMoves, ClientMoves,
        EventPhase, EventNotified, EventWaiter, Event!vars,
        Event!Next, Event!Release
<1>1. CASE WaitForWork
    BY <1>1 DEF WaitForWork, Event!GoOn, Event!GoIdle
<1>2. CASE WaitForWorkWithSpin
    BY <1>2 DEF WaitForWorkWithSpin, Event!GoIdle
<1>3. CASE PostEmpty
    BY <1>3 DEF PostEmpty
<1>4. CASE SpinNotice
    BY <1>4 DEF SpinNotice
<1>5. CASE SpinTimeout
    BY <1>5 DEF SpinTimeout
<1>6. CASE Wake
    BY <1>6 DEF Wake
<1>7. CASE Process
    BY <1>7 DEF Process
<1>8. CASE QueueEmpty
    BY <1>8 DEF QueueEmpty
<1>9. CASE KillPost
    BY <1>9 DEF KillPost
<1>10. CASE OnCleanupInThread
    BY <1>10 DEF OnCleanupInThread
<1>11. CASE Acknowledge
    BY <1>11 DEF Acknowledge, Event!WakeUp, Event!GoOn
<1>12. CASE Kill
    BY <1>12 DEF Kill, Event!Kill
<1>13. ASSUME NEW c \in Clients, Push(c) PROVE [Event!Next]_(Event!vars)
    BY <1>13 DEF Push
<1>14. ASSUME NEW c \in Clients, NotifyOfWork(c) PROVE [Event!Next]_(Event!vars)
  <2>1. /\ wpc' = wpc
        /\ m_state' = m_state + 2
        /\ m_state \in Int
        /\ Counter(m_state) < MaxNotify
      BY <1>14 DEF NotifyOfWork
  <2>2. EventPhase' = EventPhase
      BY <2>1
  <2>3. EventNotified' = (EventPhase # "dead")
    <3>1. CASE wpc \in DeadPCs
        BY <2>1, <3>1
    <3>2. CASE wpc \in IdlePCs
      <4>1. m_state' >= 0
          BY <2>1, <3>2
      <4>2. EventNotified'
          BY <4>1, <2>1, <3>2
      <4> QED
          BY <4>2, <3>2, Zenon DEF EventNotified, EventPhase
    <3>3. CASE wpc \in {"call", "ackBusy", "work"}
      <4>1. m_state >= 0 /\ m_state' >= 2
          BY <2>1, <3>3
      <4>2. Counter(m_state') > 0
          BY <4>1, <2>1
      <4>3. EventNotified'
          BY <4>2, <2>1, <3>3
      <4> QED
          BY <4>3, <3>3, Zenon DEF EventNotified, EventPhase
    <3> QED
        BY <3>1, <3>2, <3>3
  <2>4. Flagged' <=> Flagged
      BY <2>1
  <2>5. cpc[Waiter]' \in {"wait", "check"} <=> cpc[Waiter] \in {"wait", "check"}
    <3>1. CASE c = Waiter
        BY <1>14, <3>1 DEF NotifyOfWork
    <3>2. CASE c # Waiter
        BY <1>14, <3>2 DEF NotifyOfWork
    <3> QED
        BY <3>1, <3>2
  <2>6. EventWaiter' = EventWaiter
      BY <2>4, <2>5, <1>14 DEF NotifyOfWork
  <2> QED
      BY <2>2, <2>3, <2>6 DEF Event!Notify
<1>15. ASSUME NEW c \in Clients, PostWorker(c) PROVE [Event!Next]_(Event!vars)
    BY <1>15 DEF PostWorker
<1>16. ASSUME NEW c \in Clients, Restart(c) PROVE [Event!Next]_(Event!vars)
    BY <1>16 DEF Restart, Event!Reset
<1>17. CASE WaitForEmpty
    BY <1>17 DEF WaitForEmpty, Event!EmptyAtOnce
<1>18. CASE WaitForEmptySleep
    BY <1>18 DEF WaitForEmptySleep, Event!EmptyWait
<1>19. CASE EmptyWake
    BY <1>19 DEF EmptyWake
<1>20. CASE EmptyReturn
    BY <1>20 DEF EmptyReturn, Event!EmptyReturn
<1>21. CASE UNCHANGED vars
    BY <1>21 DEF vars
<1> QED
    BY <1>1, <1>2, <1>3, <1>4, <1>5, <1>6, <1>7, <1>8, <1>9, <1>10, <1>11, <1>12, <1>13,
       <1>14, <1>15, <1>16, <1>17, <1>18, <1>19, <1>20, <1>21
    DEF Next, WorkerStep, ClientStep

\* The implementation in Semaphore.cpp implements the event of WorkEvent.
THEOREM Refinement == Spec => ImplementsWorkEvent
<1>1. Init => Event!Init
    BY EventInit
<1>2. IInv /\ [Next]_vars => [Event!Next]_(Event!vars)
    BY EventStep
<1> QED
    BY <1>1, <1>2, Inductive, PTL DEF Spec, ImplementsWorkEvent, Event!Spec
=============================================================================
