--------------------------- MODULE SysThreadProofs ---------------------------
(***************************************************************************)
(* Proofs about SysThread, for every bound on the tokens: what WaitForOpen *)
(* and Suspend report is true, and nobody waits for ever.                  *)
(***************************************************************************)
EXTENDS SysThread, TLAPS

-----------------------------------------------------------------------------
(* The inductive invariant *)

\* What the locks, the flags and the mode say at each place of the thread.
LocksMatchThread ==
  /\ m_RunningLock <=> (tpc \in {"wait", "check", "close", "closed", "release", "open", "opened"})
  /\ m_mtx_InThread <=> (tpc \notin {"none", "start", "ending"})
  /\ m_running <=> (tpc \notin {"none", "start"})

ModeMatchesThread ==
  /\ tpc \in {"none", "start", "cleanup", "ending"} => m_ExecMode = "NoThreadYet"
  /\ tpc \in {"wait", "check", "acquire", "open", "opened"} => m_ExecMode \in {"Opened", "Closing"}
  /\ tpc \in {"close", "closed"} => m_ExecMode = "Closing"
  /\ tpc \in {"release", "parked", "asleep"} => m_ExecMode # "NoThreadYet"

OpenMatchesThread == m_Opened => tpc \in {"opened", "wait", "check", "close"}

\* A thread that starts has a client that waits for it, and one that ends has a
\* client that cancelled it.
ClientOfThread ==
  /\ tpc = "start" => cpc = "starting"
  /\ cpc = "starting" => m_ExecMode # "Opened"
  /\ cpc \in {"starting", "resumeWait"} => tpc \notin {"none", "cleanup", "ending"}
  /\ cancelled /\ cpc # "cancel" => tpc \in {"none", "ending"}
  /\ tpc = "cleanup" => cancelled /\ cpc = "cancel"

\* Between the look at the mode and its change by Resume, nothing else changes it.
ResumeIsSafe ==
  /\ cpc \in {"resumeReady", "setOpened"} => m_ExecMode = "Closed"
  /\ cpc = "setOpened" => ~late /\ m_sem_OpenDone = 0
  /\ cpc = "postResume" => ~late /\ m_ExecMode = "Opened"

\* Unless an open came late: a thread that shall close opens nothing any more, an
\* open GS is not about to be closed, and m_sem_OpenDone is of this opening.
ClosingIsFinal ==
  ~late =>
    /\ m_ExecMode = "Closing" => tpc \notin {"release", "parked", "asleep", "acquire", "open"}
    /\ m_ExecMode = "Closing" /\ cpc # "suspendWait" => ~m_Opened /\ tpc # "opened"
    /\ m_ExecMode = "Opened" /\ m_sem_OpenDone > 0 => tpc \in {"wait", "check"}
    /\ cpc = "openDone" => m_ExecMode = "Opened"

\* A late open is closed again, and VMManager's thread, having opened the GS, finds
\* the thread at work or already closed.
LateIsClosed ==
  /\ late /\ m_ExecMode = "Opened" => cpc = "suspendNonBlocking"
  /\ cpc = "suspendWait" \/ (cpc \in {"open", "suspend"} /\ late) =>
       /\ m_ExecMode \in {"Closing", "Closed"}
       /\ m_ExecMode = "Closing" => tpc \in {"opened", "wait", "check", "close", "closed"}

\* In time, Suspend finds an open GS at work, or one that failed to open.
InTimeIsAtWork ==
  ~late =>
    /\ cpc = "suspend" =>
         m_ExecMode = "Opened" /\ m_Opened /\ tpc \in {"opened", "wait", "check"}
    /\ cpc = "suspendNonBlocking" =>
         m_ExecMode = "Opened" /\ ~m_Opened /\ tpc \in {"wait", "check"}

\* Who may ask for a new thread or a new opening.
ModeMatchesClient ==
  /\ cpc = "idle" => m_ExecMode # "Opened"
  /\ cpc \in {"suspended", "cancel"} => m_ExecMode \in {"Closed", "NoThreadYet"}

IInv ==
  /\ TypeOK
  /\ LocksMatchThread
  /\ ModeMatchesThread
  /\ OpenMatchesThread
  /\ ClientOfThread
  /\ ResumeIsSafe
  /\ ClosingIsFinal
  /\ LateIsClosed
  /\ InTimeIsAtWork
  /\ ModeMatchesClient
  /\ ReportIsTrue

-----------------------------------------------------------------------------
(* Types *)

\* Types, of the initial states and from step to step.
LEMMA TypeInit == Init => TypeOK
<1> SUFFICES ASSUME Init PROVE TypeOK
    OBVIOUS
<1>1. /\ m_RunningLock \in BOOLEAN /\ m_mtx_InThread \in BOOLEAN
      /\ m_Opened \in BOOLEAN
      /\ m_running \in BOOLEAN /\ m_detached \in BOOLEAN /\ cancelled \in BOOLEAN
      /\ late \in BOOLEAN /\ notified \in BOOLEAN
    BY Zenon DEF Init, Event!Init
<1> QED
    BY <1>1 DEF Init, TypeOK, Event!Init, Event!TypeOK, Modes, ThreadPlaces, ClientPlaces

LEMMA TypeStep ==
  TypeOK /\ [Next]_vars => TypeOK'
<1> SUFFICES ASSUME TypeOK, [Next]_vars PROVE TypeOK'
    OBVIOUS
<1> USE DEF TypeOK, Event!TypeOK, Modes, ThreadPlaces, ClientPlaces, locks, sems, flags, event
<1>1. CASE OnStartInThread
    BY ZenonT(60), <1>1 DEF OnStartInThread, ThreadMoves
<1>2. CASE WaitForWork
  <2>1. notified' \in BOOLEAN
    BY <1>2, Zenon DEF WaitForWork, ThreadMoves, Event!GoOn, Event!WakeUp, Event!GoIdle
  <2> QED
    BY <1>2, <2>1 DEF WaitForWork, ThreadMoves, Event!GoOn, Event!WakeUp, Event!GoIdle,
       Event!Release
<1>3. CASE StateCheckInThread
    BY <1>3 DEF StateCheckInThread, ThreadMoves
<1>4. CASE OnSuspendInThread
  <2>1. m_Opened' \in BOOLEAN
    BY <1>4, Zenon DEF OnSuspendInThread
  <2> QED
    BY <1>4, <2>1 DEF OnSuspendInThread, ThreadMoves
<1>5. CASE SetClosed
    BY <1>5 DEF SetClosed, ThreadMoves
<1>6. CASE ReleaseRunning
  <2>1. m_RunningLock' \in BOOLEAN
    BY <1>6, Zenon DEF ReleaseRunning
  <2> QED
    BY <1>6, <2>1 DEF ReleaseRunning, ThreadMoves
<1>35. CASE LookAtMode
    BY <1>35 DEF LookAtMode, ThreadMoves
<1>7. CASE WaitForResume
    BY <1>7 DEF WaitForResume, ThreadMoves
<1>8. CASE AcquireRunning
    BY <1>8 DEF AcquireRunning, ThreadMoves
<1>9. CASE GSopen
    BY <1>9 DEF GSopen, ThreadMoves
<1>10. CASE PostOpenDone
    BY <1>10 DEF PostOpenDone, ThreadMoves
<1>11. CASE Cleanup
    BY <1>11 DEF Cleanup, ThreadMoves, Event!Kill, Event!Release
<1>12. CASE ReleaseInThread
  <2>1. m_mtx_InThread' \in BOOLEAN
    BY <1>12, Zenon DEF ReleaseInThread
  <2> QED
    BY <1>12, <2>1 DEF ReleaseInThread, ThreadMoves
<1>13. CASE EndThread
  <2>1. m_running' \in BOOLEAN
    BY <1>13, Zenon DEF EndThread
  <2> QED
    BY <1>13, <2>1 DEF EndThread, ThreadMoves
<1>14. CASE WaitForOpen
    BY <1>14 DEF WaitForOpen
<1>15. CASE Resume
    BY <1>15 DEF Resume, ClientMoves, Resumed
<1>16. CASE Start
    BY <1>16 DEF Start, Event!Reset
<1>17. CASE StartTooSoon
    BY <1>17 DEF StartTooSoon, ClientMoves
<1>18. CASE Started
    BY <1>18 DEF Started, ClientMoves, Event!Notify
<1>19. CASE ResumeWait
    BY <1>19 DEF ResumeWait, ClientMoves, Resumed
<1>20. CASE OnResumeReady
  <2>1. late' \in BOOLEAN
    BY <1>20, Zenon DEF OnResumeReady
  <2> QED
    BY <1>20, <2>1 DEF OnResumeReady, ClientMoves
<1>21. CASE SetOpened
    BY <1>21 DEF SetOpened, ClientMoves
<1>22. CASE PostResume
    BY <1>22 DEF PostResume, Resumed
<1>23. CASE OpenDone
    BY <1>23 DEF OpenDone, ClientMoves
<1>24. CASE Suspend
    BY <1>24 DEF Suspend, ClientMoves, Event!Notify
<1>25. CASE SuspendReturns
    BY <1>25 DEF SuspendReturns, ClientMoves
<1>26. CASE SuspendWait
    BY <1>26 DEF SuspendWait, ClientMoves
<1>27. CASE Cancelled
    BY <1>27 DEF Cancelled, ClientMoves
<1>28. CASE Initialize
    BY <1>28 DEF Initialize, ClientMoves
<1>29. CASE Freeze
    BY <1>29 DEF Freeze
<1>30. CASE Shutdown
    BY <1>30 DEF Shutdown, ClientMoves
<1>31. CASE StayClosed
    BY <1>31 DEF StayClosed, ClientMoves
<1>32. CASE Cancel
    BY <1>32 DEF Cancel, ClientMoves
<1>33. CASE OpenTimesOut
    BY <1>33 DEF OpenTimesOut, ClientMoves
<1>34. CASE UNCHANGED vars
    BY <1>34 DEF vars
<1> QED
    BY <1>1, <1>2, <1>3, <1>4, <1>5, <1>6, <1>7, <1>8, <1>9, <1>10, <1>11, <1>12, <1>13,
       <1>14, <1>15, <1>16, <1>17, <1>18, <1>19, <1>20, <1>21, <1>22, <1>23, <1>24, <1>25,
       <1>26, <1>27, <1>28, <1>29, <1>30, <1>31, <1>32, <1>33, <1>34, <1>35 DEF Next,
       ThreadStep, ClientStep, Calls

-----------------------------------------------------------------------------
(* The invariant *)

LEMMA IInvInit == Init => IInv
<1> SUFFICES ASSUME Init PROVE IInv
    OBVIOUS
<1>1. TypeOK
    BY TypeInit
<1> QED
    BY <1>1 DEF Init, IInv, LocksMatchThread, ModeMatchesThread, OpenMatchesThread,
      ClientOfThread, ResumeIsSafe, ClosingIsFinal, LateIsClosed, InTimeIsAtWork,
      ModeMatchesClient, ReportIsTrue

\* The mode and the place of the thread tell what each conjunct needs, so that one
\* step for each action is enough.
LEMMA IInvStep ==
  IInv /\ [Next]_vars => IInv'
<1> SUFFICES ASSUME IInv, [Next]_vars PROVE IInv'
    OBVIOUS
<1>0. TypeOK /\ TypeOK'
    BY TypeStep DEF IInv
<1>m. m_ExecMode \in Modes /\ caller \in {"Freeze", "WaitForOpen"}
      /\ tpc \in ThreadPlaces
    BY DEF IInv, TypeOK
<1> USE <1>0, <1>m DEF Modes, ThreadPlaces, IInv, locks, sems, flags, event, LocksMatchThread, ModeMatchesThread,
      OpenMatchesThread, ClientOfThread, ResumeIsSafe, ClosingIsFinal, LateIsClosed,
      InTimeIsAtWork, ModeMatchesClient, ReportIsTrue
<1>1. CASE OnStartInThread
    BY <1>1 DEF OnStartInThread, ThreadMoves
<1>2. CASE WaitForWork
    BY <1>2 DEF WaitForWork, ThreadMoves
<1>3. CASE StateCheckInThread
    BY <1>3 DEF StateCheckInThread, ThreadMoves
<1>4. CASE OnSuspendInThread
    BY <1>4 DEF OnSuspendInThread, ThreadMoves
<1>5. CASE SetClosed
    BY <1>5 DEF SetClosed, ThreadMoves
<1>6. CASE ReleaseRunning
    BY <1>6 DEF ReleaseRunning, ThreadMoves
<1>35. CASE LookAtMode
    BY <1>35 DEF LookAtMode, ThreadMoves
<1>7. CASE WaitForResume
    BY <1>7 DEF WaitForResume, ThreadMoves
<1>8. CASE AcquireRunning
    BY <1>8 DEF AcquireRunning, ThreadMoves
<1>9. CASE GSopen
    BY <1>9 DEF GSopen, ThreadMoves
<1>10. CASE PostOpenDone
    BY <1>10 DEF PostOpenDone, ThreadMoves
<1>11. CASE Cleanup
    BY <1>11 DEF Cleanup, ThreadMoves
<1>12. CASE ReleaseInThread
    BY <1>12 DEF ReleaseInThread, ThreadMoves
<1>13. CASE EndThread
    BY <1>13 DEF EndThread, ThreadMoves
<1>14. CASE WaitForOpen
    BY <1>14 DEF WaitForOpen
<1>15. CASE Resume
    BY <1>15 DEF Resume, ClientMoves, Resumed
<1>16. CASE Start
    BY <1>16 DEF Start
<1>17. CASE StartTooSoon
    BY <1>17 DEF StartTooSoon, ClientMoves
<1>18. CASE Started
    BY <1>18 DEF Started, ClientMoves
<1>19. CASE ResumeWait
    BY <1>19 DEF ResumeWait, ClientMoves, Resumed
<1>20. CASE OnResumeReady
    BY <1>20 DEF OnResumeReady, ClientMoves
<1>21. CASE SetOpened
    BY <1>21 DEF SetOpened, ClientMoves
<1>22. CASE PostResume
    BY <1>22 DEF PostResume, Resumed
<1>23. CASE OpenDone
    BY <1>23 DEF OpenDone, ClientMoves
<1>24. CASE Suspend
    BY <1>24 DEF Suspend, ClientMoves
<1>25. CASE SuspendReturns
    BY <1>25 DEF SuspendReturns, ClientMoves
<1>26. CASE SuspendWait
    BY <1>26 DEF SuspendWait, ClientMoves
<1>27. CASE Cancelled
    BY <1>27 DEF Cancelled, ClientMoves
<1>28. CASE Initialize
    BY <1>28 DEF Initialize, ClientMoves
<1>29. CASE Freeze
    BY <1>29 DEF Freeze
<1>30. CASE Shutdown
    BY <1>30 DEF Shutdown, ClientMoves
<1>31. CASE StayClosed
    BY <1>31 DEF StayClosed, ClientMoves
<1>32. CASE Cancel
    BY <1>32 DEF Cancel, ClientMoves
<1>33. CASE OpenTimesOut
    BY <1>33 DEF OpenTimesOut, ClientMoves
<1>34. CASE UNCHANGED vars
    BY <1>34 DEF vars
<1> QED
    BY <1>1, <1>2, <1>3, <1>4, <1>5, <1>6, <1>7, <1>8, <1>9, <1>10, <1>11, <1>12, <1>13,
       <1>14, <1>15, <1>16, <1>17, <1>18, <1>19, <1>20, <1>21, <1>22, <1>23, <1>24, <1>25,
       <1>26, <1>27, <1>28, <1>29, <1>30, <1>31, <1>32, <1>33, <1>34, <1>35 DEF Next,
       ThreadStep, ClientStep, Calls

THEOREM Invariance == Spec => []IInv
<1>1. Init => IInv
    BY IInvInit
<1>2. IInv /\ [Next]_vars => IInv'
    BY IInvStep
<1> QED
    BY <1>1, <1>2, PTL DEF Spec

-----------------------------------------------------------------------------
(* The results *)

\* Every variable keeps its type.
THEOREM TypeCorrect == Spec => []TypeOK
<1>1. IInv => TypeOK
    BY DEF IInv
<1> QED
    BY <1>1, Invariance, PTL

\* WaitForOpen and Suspend report the truth, whatever tokens earlier calls left and
\* however late an earlier open came: the invariant ReportIsTrue of the runs.
THEOREM ReportsAreTrue == Spec => []ReportIsTrue
<1>1. IInv => ReportIsTrue
    BY DEF IInv
<1> QED
    BY <1>1, Invariance, PTL

\* A new thread is created only when the last one has ended.
OneThread == Start => tpc = "none"

\* No two GS threads live at once: Start, which resets the mutexes and semaphores
\* that a thread may hold, comes after EndThread.
THEOREM NoTwoThreads == Spec => [][OneThread]_vars
<1>1. IInv /\ [Next]_vars => [OneThread]_vars
  <2> SUFFICES ASSUME IInv, Start PROVE tpc = "none"
      BY DEF OneThread
  <2>1. ~m_running /\ cpc = "resume"
      BY DEF Start
  <2>2. tpc \in {"none", "start"}
      BY <2>1 DEF IInv, LocksMatchThread
  <2> QED
      BY <2>1, <2>2 DEF IInv, ClientOfThread
<1> QED
    BY <1>1, Invariance, PTL DEF Spec
-----------------------------------------------------------------------------
(* Nobody is stuck *)

\* The phase of the event at each place of the thread, with which it dies.
PhaseMatches ==
  /\ tpc \in {"start", "check", "close", "closed", "release", "parked", "asleep", "acquire", "open", "opened"}
       => phase = "running"
  /\ tpc = "wait" => phase # "dead"
  /\ tpc \in {"cleanup", "ending", "none"} => phase # "idle"

\* A thread that shall close and may go to sleep before it has seen so is notified,
\* and Resume waits for a thread that closes only.
CloseIsSeen ==
  /\ m_ExecMode = "Closing" /\ cpc # "starting"
       /\ tpc \in {"wait", "release", "parked", "asleep", "acquire", "open", "opened"} => notified
  /\ cpc = "resumeWait" => m_ExecMode # "Opened"

\* While VMManager waits for m_sem_OpenDone, or is on its way there, the thread is
\* on its way to post it.
Opening == tpc \in {"release", "parked", "asleep", "acquire", "open", "opened"}

OpenIsDue ==
  m_sem_OpenDone = 0 =>
    /\ cpc = "waitForOpen" /\ m_ExecMode = "Opened" /\ ~m_Opened => Opening
    /\ cpc = "resume" /\ caller = "WaitForOpen" /\ m_ExecMode = "Opened" => Opening
    /\ cpc = "postResume" => Opening
    /\ cpc = "openDone" => Opening /\ m_ExecMode \in {"Opened", "Closing"}

\* A thread that sleeps on m_sem_Resume when the mode has changed has a token, or
\* Resume is about to post one.
TokenIsDue ==
  tpc = "asleep" /\ m_ExecMode # "Closed" => m_sem_Resume > 0 \/ cpc = "postResume"

FreezeFindsItOpen ==
  cpc = "resume" /\ caller = "Freeze" /\ m_ExecMode = "Opened" =>
    m_Opened /\ tpc \in {"opened", "wait", "check"}

WInv ==
  /\ PhaseMatches
  /\ CloseIsSeen
  /\ OpenIsDue
  /\ TokenIsDue
  /\ FreezeFindsItOpen

LEMMA WInvInit == Init => WInv
BY DEF Init, Event!Init, WInv, PhaseMatches, CloseIsSeen, OpenIsDue, TokenIsDue, FreezeFindsItOpen

LEMMA WInvStep ==
  IInv /\ WInv /\ [Next]_vars => WInv'
<1> SUFFICES ASSUME IInv, WInv, [Next]_vars PROVE WInv'
    OBVIOUS
<1>m. /\ m_ExecMode \in Modes /\ caller \in {"Freeze", "WaitForOpen"}
      /\ tpc \in ThreadPlaces /\ m_sem_OpenDone \in Nat /\ m_sem_Resume \in Nat
      /\ phase \in {"running", "idle", "dead"}
    BY DEF IInv, TypeOK, Event!TypeOK
<1> USE <1>m DEF Modes, ThreadPlaces, locks, sems, flags, event, WInv,
      PhaseMatches, CloseIsSeen, Opening, OpenIsDue, TokenIsDue, FreezeFindsItOpen
<1>1. CASE OnStartInThread
    BY <1>1 DEF OnStartInThread, ThreadMoves, IInv, ClientOfThread
<1>2. CASE WaitForWork
    BY <1>2 DEF WaitForWork, ThreadMoves, Event!GoOn, Event!WakeUp, Event!GoIdle
<1>3. CASE StateCheckInThread
    BY <1>3 DEF StateCheckInThread, ThreadMoves
<1>4. CASE OnSuspendInThread
    BY <1>4 DEF OnSuspendInThread, ThreadMoves, IInv, ModeMatchesThread
<1>5. CASE SetClosed
    BY <1>5 DEF SetClosed, ThreadMoves
<1>6. CASE ReleaseRunning
    BY <1>6 DEF ReleaseRunning, ThreadMoves
<1>35. CASE LookAtMode
    BY <1>35 DEF LookAtMode, ThreadMoves
<1>7. CASE WaitForResume
    BY <1>7 DEF WaitForResume, ThreadMoves
<1>8. CASE AcquireRunning
    BY <1>8 DEF AcquireRunning, ThreadMoves
<1>9. CASE GSopen
    BY <1>9 DEF GSopen, ThreadMoves
<1>10. CASE PostOpenDone
    BY <1>10 DEF PostOpenDone, ThreadMoves
<1>11. CASE Cleanup
    BY <1>11 DEF Cleanup, ThreadMoves, Event!Kill, IInv, ClientOfThread
<1>12. CASE ReleaseInThread
    BY <1>12 DEF ReleaseInThread, ThreadMoves
<1>13. CASE EndThread
    BY <1>13 DEF EndThread, ThreadMoves
<1>14. CASE WaitForOpen
    BY <1>14 DEF WaitForOpen
<1>15. CASE Resume
    BY <1>15 DEF Resume, ClientMoves, Resumed
<1>16. CASE Start
    BY <1>16 DEF Start, Event!Reset, IInv, LocksMatchThread, ClientOfThread
<1>17. CASE StartTooSoon
    BY <1>17 DEF StartTooSoon, ClientMoves
<1>18. CASE Started
    BY <1>18 DEF Started, ClientMoves, Event!Notify, IInv, ClientOfThread
<1>19. CASE ResumeWait
    BY <1>19 DEF ResumeWait, ClientMoves, Resumed, IInv, LocksMatchThread, ModeMatchesThread,
      ClientOfThread
<1>20. CASE OnResumeReady
    BY <1>20 DEF OnResumeReady, ClientMoves
<1>21. CASE SetOpened
    BY <1>21 DEF SetOpened, ClientMoves, IInv, ResumeIsSafe, ModeMatchesThread
<1>22. CASE PostResume
    BY <1>22 DEF PostResume, Resumed, IInv, ResumeIsSafe
<1>23. CASE OpenDone
    BY <1>23 DEF OpenDone, ClientMoves
<1>24. CASE Suspend
    BY <1>24 DEF Suspend, ClientMoves, Event!Notify
<1>25. CASE SuspendReturns
    BY <1>25 DEF SuspendReturns, ClientMoves
<1>26. CASE SuspendWait
    BY <1>26 DEF SuspendWait, ClientMoves
<1>27. CASE Cancelled
    BY <1>27 DEF Cancelled, ClientMoves
<1>28. CASE Initialize
    BY <1>28 DEF Initialize, ClientMoves, IInv, ModeMatchesClient
<1>29. CASE Freeze
    BY <1>29 DEF Freeze, IInv, LateIsClosed, ReportIsTrue
<1>30. CASE Shutdown
    BY <1>30 DEF Shutdown, ClientMoves
<1>31. CASE StayClosed
    BY <1>31 DEF StayClosed, ClientMoves
<1>32. CASE Cancel
    BY <1>32 DEF Cancel, ClientMoves
<1>33. CASE OpenTimesOut
    BY <1>33 DEF OpenTimesOut, ClientMoves
<1>34. CASE UNCHANGED vars
    BY <1>34 DEF vars
<1> QED
    BY <1>1, <1>2, <1>3, <1>4, <1>5, <1>6, <1>7, <1>8, <1>9, <1>10, <1>11, <1>12, <1>13,
       <1>14, <1>15, <1>16, <1>17, <1>18, <1>19, <1>20, <1>21, <1>22, <1>23, <1>24, <1>25,
       <1>26, <1>27, <1>28, <1>29, <1>30, <1>31, <1>32, <1>33, <1>34, <1>35 DEF Next,
       ThreadStep, ClientStep, Calls

\* What each side has to rely on while it waits for the other.
THEOREM WaitInvariance == Spec => [](IInv /\ WInv)
<1>1. Init => IInv /\ WInv
    BY IInvInit, WInvInit
<1>2. IInv /\ WInv /\ [Next]_vars => (IInv /\ WInv)'
    BY IInvStep, WInvStep
<1> QED
    BY <1>1, <1>2, PTL DEF Spec

\* VMManager and the GS thread never both wait for each other, however starts,
\* timeouts, failed opens, cancels and restarts follow one another: the invariant
\* NobodyIsStuck of the runs.
THEOREM NobodyStaysStuck == Spec => []NobodyIsStuck
<1>1. IInv /\ WInv => NobodyIsStuck
  <2> SUFFICES ASSUME IInv, WInv, ClientBlocked, ThreadBlocked PROVE FALSE
      BY DEF NobodyIsStuck
  <2> QED
      BY DEF ClientBlocked, ThreadBlocked, IInv, LocksMatchThread, ModeMatchesThread,
        LateIsClosed, ReportIsTrue, WInv, CloseIsSeen, Opening, OpenIsDue,
        TokenIsDue
<1> QED
    BY <1>1, WaitInvariance, PTL
=============================================================================
