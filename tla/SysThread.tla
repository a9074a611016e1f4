------------------------------ MODULE SysThread ------------------------------
(***************************************************************************)
(* The life of the GS thread: SysThreadBase (pcsx2/System/SysThreadBase    *)
(* .cpp) over pxThread (common/ThreadTools.cpp), with what SysMtgsThread   *)
(* does when it is opened and closed (pcsx2/MTGS.cpp) and the one client   *)
(* this build has, VMManager (pcsx2/VMManager.cpp): it opens the GS when a *)
(* VM starts, makes sure that it is open before a savestate, suspends it   *)
(* when the start fails or the VM ends, and then may cancel the thread.    *)
(*                                                                         *)
(* m_ExecModeMutex is left out, since there is only one client; so are the *)
(* states Paused and Pausing, which no caller asks for.                    *)
(***************************************************************************)
EXTENDS Integers

CONSTANT
  MaxTokens  \* bound on the tokens of m_sem_Resume when a VM is started

ASSUME SysThreadAssumption == MaxTokens \in Nat \ {0}

VARIABLES
  m_ExecMode,
  m_RunningLock,    \* whether the thread holds it
  m_sem_Resume, m_sem_OpenDone,
  m_Opened,
  m_running, m_detached, m_mtx_InThread,  \* of pxThread
  cancelled,        \* pthread_cancel was called
  notified, phase, waiter,                \* m_sem_event: see WorkEvent
  tpc,              \* where the GS thread is
  cpc,              \* where VMManager's thread is
  caller,           \* the caller of Resume: Freeze or WaitForOpen
  late              \* history: WaitForOpen gave up, and Resume has not opened the GS anew

locks  == <<m_RunningLock, m_mtx_InThread>>
sems   == <<m_sem_Resume, m_sem_OpenDone>>
flags  == <<m_running, m_detached, cancelled>>
event  == <<notified, phase, waiter>>
vars   == <<m_ExecMode, locks, sems, m_Opened, flags, event, tpc, cpc, caller, late>>

Event == INSTANCE WorkEvent

Modes == {"NoThreadYet", "Closed", "Opened", "Closing"}

ThreadPlaces ==
  {"none", "start", "wait", "check", "close", "closed", "release", "parked",
   "asleep", "acquire", "open", "opened", "cleanup", "ending"}

ClientPlaces ==
  {"idle", "waitForOpen", "resume", "starting", "resumeWait", "resumeReady",
   "setOpened", "postResume", "openDone", "open", "suspend",
   "suspendNonBlocking", "suspendWait", "suspended", "cancel"}

-----------------------------------------------------------------------------
(* The GS thread *)

ThreadMoves(from, to) == tpc = from /\ tpc' = to /\ UNCHANGED <<cpc, caller>>

\* pxThread::_internal_execute and SysThreadBase::OnStartInThread, while the
\* creator waits for m_sem_startup.
OnStartInThread ==
  /\ ThreadMoves("start", "wait")
  /\ m_mtx_InThread' = TRUE /\ m_RunningLock' = TRUE
  /\ m_running' = TRUE /\ m_detached' = FALSE
  /\ m_ExecMode' = "Closing"
  /\ UNCHANGED <<sems, m_Opened, cancelled, event, late>>

\* m_sem_event.WaitForWork()
WaitForWork ==
  /\ \/ ThreadMoves("wait", "check") /\ (Event!GoOn \/ Event!WakeUp)
     \/ ThreadMoves("wait", "wait") /\ Event!GoIdle
  /\ UNCHANGED <<m_ExecMode, locks, sems, m_Opened, flags, late>>

\* StateCheckInThread, and the ring if there is nothing else to do.
StateCheckInThread ==
  /\ \/ ThreadMoves("check", "wait") /\ m_ExecMode = "Opened"
     \/ ThreadMoves("check", "close") /\ m_ExecMode = "Closing"
  /\ UNCHANGED <<m_ExecMode, locks, sems, m_Opened, flags, event, late>>

\* OnSuspendInThread: CloseGS.
OnSuspendInThread ==
  /\ ThreadMoves("close", "closed")
  /\ m_Opened' = FALSE
  /\ UNCHANGED <<m_ExecMode, locks, sems, flags, event, late>>

SetClosed ==
  /\ ThreadMoves("closed", "release")
  /\ m_ExecMode' = "Closed"
  /\ UNCHANGED <<locks, sems, m_Opened, flags, event, late>>

ReleaseRunning ==
  /\ ThreadMoves("release", "parked")
  /\ m_RunningLock' = FALSE
  /\ UNCHANGED <<m_ExecMode, m_mtx_InThread, sems, m_Opened, flags, event, late>>

\* while (m_ExecMode == ExecMode_Closed) m_sem_Resume.WaitWithoutYield(): the look at
\* the mode ...
LookAtMode ==
  /\ \/ ThreadMoves("parked", "asleep") /\ m_ExecMode = "Closed"
     \/ ThreadMoves("parked", "acquire") /\ m_ExecMode # "Closed"
  /\ UNCHANGED <<m_ExecMode, locks, sems, m_Opened, flags, event, late>>

\* ... and the wait, which ends with a token only, whatever the mode is by then.  A
\* token of an earlier Resume wakes the thread for nothing.
WaitForResume ==
  /\ ThreadMoves("asleep", "parked")
  /\ m_sem_Resume > 0
  /\ m_sem_Resume' = m_sem_Resume - 1
  /\ UNCHANGED <<m_ExecMode, locks, m_sem_OpenDone, m_Opened, flags, event, late>>

AcquireRunning ==
  /\ ThreadMoves("acquire", "open")
  /\ m_RunningLock' = TRUE
  /\ UNCHANGED <<m_ExecMode, m_mtx_InThread, sems, m_Opened, flags, event, late>>

\* OnResumeInThread: OpenGS, which may fail.
GSopen ==
  /\ ThreadMoves("open", "opened")
  /\ m_Opened' \in BOOLEAN
  /\ UNCHANGED <<m_ExecMode, locks, sems, flags, event, late>>

PostOpenDone ==
  /\ ThreadMoves("opened", "wait")
  /\ m_sem_OpenDone' = m_sem_OpenDone + 1
  /\ UNCHANGED <<m_ExecMode, locks, m_sem_Resume, m_Opened, flags, event, late>>

\* The wait for m_sem_Resume is where a cancelled thread ends: m_sem_event.Kill()
\* and OnCleanupInThread, which releases m_RunningLock though it is not held here ...
Cleanup ==
  /\ ThreadMoves("asleep", "cleanup")
  /\ cancelled
  /\ Event!Kill
  /\ m_Opened' = FALSE
  /\ m_ExecMode' = "NoThreadYet"
  /\ m_RunningLock' = FALSE
  /\ UNCHANGED <<m_mtx_InThread, sems, flags, late>>

\* ... then _ThreadCleanup, which "must set m_running LAST".
ReleaseInThread ==
  /\ ThreadMoves("cleanup", "ending")
  /\ m_mtx_InThread' = FALSE
  /\ UNCHANGED <<m_ExecMode, m_RunningLock, sems, m_Opened, flags, event, late>>

EndThread ==
  /\ ThreadMoves("ending", "none")
  /\ m_running' = FALSE
  /\ UNCHANGED <<m_ExecMode, locks, sems, m_Opened, m_detached, cancelled, event, late>>

ThreadStep ==
  \/ OnStartInThread \/ WaitForWork \/ StateCheckInThread
  \/ OnSuspendInThread \/ SetClosed \/ ReleaseRunning
  \/ LookAtMode \/ WaitForResume \/ AcquireRunning \/ GSopen \/ PostOpenDone
  \/ Cleanup \/ ReleaseInThread \/ EndThread

-----------------------------------------------------------------------------
(* VMManager's thread *)

ClientMoves(from, to) == cpc = from /\ cpc' = to /\ UNCHANGED <<tpc, caller>>

\* VMManager::Initialize, or Freeze for a savestate, which resumes first.
Initialize ==
  /\ ClientMoves("idle", "waitForOpen")
  /\ m_ExecMode = "NoThreadYet" \/ m_sem_Resume < MaxTokens
  /\ UNCHANGED <<m_ExecMode, locks, sems, m_Opened, flags, event, late>>

Freeze ==
  /\ cpc = "open" /\ cpc' = "resume"
  /\ caller' = "Freeze"
  /\ UNCHANGED <<m_ExecMode, locks, sems, m_Opened, flags, event, tpc, late>>

\* WaitForOpen: if (m_Opened) return true; Resume().
WaitForOpen ==
  /\ cpc = "waitForOpen"
  /\ cpc' = IF m_Opened THEN "open" ELSE "resume"
  /\ caller' = "WaitForOpen"
  /\ UNCHANGED <<m_ExecMode, locks, sems, m_Opened, flags, event, tpc, late>>

\* Where Resume returns to.
Resumed == IF caller = "Freeze" THEN "waitForOpen" ELSE "openDone"

Resume ==
  /\ \/ ClientMoves("resume", Resumed) /\ m_ExecMode = "Opened"
     \/ ClientMoves("resume", "resumeWait") /\ m_ExecMode = "Closing"
     \/ ClientMoves("resume", "resumeReady") /\ m_ExecMode = "Closed"
  /\ UNCHANGED <<m_ExecMode, locks, sems, m_Opened, flags, event, late>>

\* Resume with no thread: Start, with SysMtgsThread::OnStart.
Start ==
  /\ cpc = "resume" /\ cpc' = "starting"
  /\ tpc' = "start"
  /\ m_ExecMode = "NoThreadYet" /\ ~m_running
  /\ m_Opened' = FALSE
  /\ m_sem_Resume' = 0
  /\ m_detached' = TRUE /\ cancelled' = FALSE
  /\ m_RunningLock' = FALSE /\ m_mtx_InThread' = FALSE
  /\ IF phase = "dead" THEN Event!Reset ELSE UNCHANGED event
  /\ UNCHANGED <<m_ExecMode, m_sem_OpenDone, m_running, caller, late>>

\* Start while the last thread has not ended quite: it does nothing, and Resume
\* throws ThreadCreationError.
StartTooSoon ==
  /\ ClientMoves("resume", "idle")
  /\ m_ExecMode = "NoThreadYet" /\ m_running
  /\ UNCHANGED <<m_ExecMode, locks, sems, m_Opened, flags, event, late>>

\* The new thread looks at its mode once it is notified.
Started ==
  /\ ClientMoves("starting", "resumeWait")
  /\ tpc # "start"
  /\ Event!Notify
  /\ UNCHANGED <<m_ExecMode, locks, sems, m_Opened, flags, late>>

\* m_RunningLock.Wait() until the thread is suspended, and a look whether it is.
\* (With a bug: it does not wait.)
ResumeAtOnce ==
  /\ ClientMoves("resumeWait", "resumeReady")
  /\ UNCHANGED <<m_ExecMode, locks, sems, m_Opened, flags, event, late>>

ResumeWait ==
  /\ ~m_RunningLock
  /\ \/ ClientMoves("resumeWait", "resumeReady") /\ m_ExecMode = "Closed"
     \/ ClientMoves("resumeWait", Resumed) /\ m_ExecMode # "Closed"
  /\ UNCHANGED <<m_ExecMode, locks, sems, m_Opened, flags, event, late>>

OnResumeReady ==
  /\ ClientMoves("resumeReady", "setOpened")
  /\ m_sem_OpenDone' = 0
  /\ late' = FALSE
  /\ UNCHANGED <<m_ExecMode, locks, m_sem_Resume, m_Opened, flags, event>>

SetOpened ==
  /\ ClientMoves("setOpened", "postResume")
  /\ m_ExecMode' = "Opened"
  /\ UNCHANGED <<locks, sems, m_Opened, flags, event, late>>

\* (With a bug: Resume wakes the thread through m_sem_event only, as Pause does.)
PostResumeLost ==
  /\ cpc = "postResume" /\ cpc' = Resumed
  /\ Event!Notify
  /\ UNCHANGED <<m_ExecMode, locks, sems, m_Opened, flags, tpc, caller, late>>

PostResume ==
  /\ cpc = "postResume" /\ cpc' = Resumed
  /\ m_sem_Resume' = m_sem_Resume + 1
  /\ UNCHANGED <<m_ExecMode, locks, m_sem_OpenDone, m_Opened, flags, event, tpc, caller, late>>

\* WaitForOpen goes on: the GS is open, or it failed and the thread is told to close
\* without waiting for it ...
OpenDone ==
  /\ m_sem_OpenDone > 0
  /\ m_sem_OpenDone' = m_sem_OpenDone - 1
  /\ ClientMoves("openDone", IF m_Opened THEN "open" ELSE "suspendNonBlocking")
  /\ UNCHANGED <<m_ExecMode, locks, m_sem_Resume, m_Opened, flags, event, late>>

\* ... and the same if m_sem_OpenDone takes twelve seconds, however far GSopen is.
OpenTimesOut ==
  /\ ClientMoves("openDone", "suspendNonBlocking")
  /\ m_sem_OpenDone = 0
  /\ late' = TRUE
  /\ UNCHANGED <<m_ExecMode, locks, sems, m_Opened, flags, event>>

\* VMManager suspends the thread when it shuts down, or cannot start after all.
Shutdown ==
  /\ ClientMoves("open", "suspend")
  /\ UNCHANGED <<m_ExecMode, locks, sems, m_Opened, flags, event, late>>

\* Suspend up to the notification.  (With a bug: there is none.)
SuspendSilently ==
  /\ \/ ClientMoves("suspend", "suspendWait")
     \/ ClientMoves("suspendNonBlocking", "idle")
  /\ m_running /\ m_ExecMode \in {"Opened", "Closing"}
  /\ m_ExecMode' = "Closing"
  /\ UNCHANGED <<locks, sems, m_Opened, flags, event, late>>

Suspend ==
  /\ \/ ClientMoves("suspend", "suspendWait")
     \/ ClientMoves("suspendNonBlocking", "idle")
  /\ m_running /\ m_ExecMode \in {"Opened", "Closing"}
  /\ m_ExecMode' = "Closing"
  /\ Event!Notify
  /\ UNCHANGED <<locks, sems, m_Opened, flags, late>>

\* ... or it has nothing to do.
SuspendReturns ==
  /\ \/ ClientMoves("suspend", "suspended")
     \/ ClientMoves("suspendNonBlocking", "idle")
  /\ ~m_running \/ m_ExecMode \in {"NoThreadYet", "Closed"}
  /\ UNCHANGED <<m_ExecMode, locks, sems, m_Opened, flags, event, late>>

\* if (isBlocking) m_RunningLock.Wait()
SuspendWait ==
  /\ ClientMoves("suspendWait", "suspended")
  /\ ~m_RunningLock
  /\ UNCHANGED <<m_ExecMode, locks, sems, m_Opened, flags, event, late>>

\* After a start that failed the thread stays; at the end of a VM it is cancelled.
StayClosed ==
  /\ ClientMoves("suspended", "idle")
  /\ UNCHANGED <<m_ExecMode, locks, sems, m_Opened, flags, event, late>>

Cancel ==
  /\ ClientMoves("suspended", "cancel")
  /\ cancelled' = (m_running /\ ~m_detached)
  /\ UNCHANGED <<m_ExecMode, locks, sems, m_Opened, m_running, m_detached, event, late>>

\* WaitOnSelf(m_mtx_InThread); Detach()
Cancelled ==
  /\ ClientMoves("cancel", "idle")
  /\ cancelled => ~m_mtx_InThread
  /\ m_detached' = (m_detached \/ cancelled)
  /\ UNCHANGED <<m_ExecMode, locks, sems, m_Opened, m_running, cancelled, event, late>>

\* What VMManager does once it is in a call.
ClientStep ==
  \/ WaitForOpen \/ Resume \/ Start \/ StartTooSoon \/ Started
  \/ ResumeWait \/ OnResumeReady \/ SetOpened \/ PostResume
  \/ OpenDone
  \/ Suspend \/ SuspendReturns \/ SuspendWait \/ Cancelled

Calls == Initialize \/ Freeze \/ Shutdown \/ StayClosed \/ Cancel

-----------------------------------------------------------------------------
Init ==
  /\ m_ExecMode = "NoThreadYet"
  /\ m_RunningLock = FALSE /\ m_mtx_InThread = FALSE
  /\ m_sem_Resume = 0 /\ m_sem_OpenDone = 0
  /\ m_Opened = FALSE
  /\ m_running = FALSE /\ m_detached = TRUE /\ cancelled = FALSE
  /\ Event!Init
  /\ tpc = "none" /\ cpc = "idle" /\ caller = "WaitForOpen"
  /\ late = FALSE

Next == ThreadStep \/ ClientStep \/ Calls \/ OpenTimesOut

\* Both threads run when they can, and GSopen ends.  Nobody has to start a VM, save
\* or shut down, and no call needs the timeout to return.
Fairness == WF_vars(ThreadStep) /\ WF_vars(ClientStep)

Spec == Init /\ [][Next]_vars
FairSpec == Spec /\ Fairness

-----------------------------------------------------------------------------
(* What it promises *)

TypeOK ==
  /\ m_ExecMode \in Modes
  /\ m_RunningLock \in BOOLEAN /\ m_mtx_InThread \in BOOLEAN
  /\ m_sem_Resume \in Nat /\ m_sem_OpenDone \in Nat
  /\ m_Opened \in BOOLEAN
  /\ m_running \in BOOLEAN /\ m_detached \in BOOLEAN /\ cancelled \in BOOLEAN
  /\ Event!TypeOK
  /\ tpc \in ThreadPlaces /\ cpc \in ClientPlaces
  /\ caller \in {"Freeze", "WaitForOpen"} /\ late \in BOOLEAN

\* What a call reported is so until the next call: after WaitForOpen returned true
\* the GS is open and the thread at work on its ring; after Suspend the GS is closed
\* and the thread waits for Resume ("Issue a Wait against this mutex for performing
\* actions that require the thread to be suspended"), or has ended.
ReportIsTrue ==
  /\ cpc = "open" /\ ~late =>
       m_Opened /\ m_ExecMode = "Opened" /\ tpc \in {"opened", "wait", "check"}
  /\ cpc \in {"suspended", "cancel"} =>
       ~m_Opened /\ tpc \in {"release", "parked", "asleep", "cleanup", "ending", "none"}

\* WaitForOpen does not need its timeout, nor would another call need one: while
\* VMManager waits for the thread to let go of a mutex or to post m_sem_OpenDone,
\* the thread has not ended, and is not asleep on its event or on m_sem_Resume without
\* a notification or a token, however the look at the mode, its change and the post of
\* the token fell together.
ClientBlocked ==
  \/ cpc \in {"resumeWait", "suspendWait"} /\ m_RunningLock
  \/ cpc = "openDone" /\ m_sem_OpenDone = 0
  \/ cpc = "cancel" /\ cancelled /\ m_mtx_InThread

ThreadBlocked ==
  \/ tpc = "none"
  \/ tpc = "wait" /\ phase = "idle" /\ ~notified
  \/ tpc = "check" /\ m_ExecMode \notin {"Opened", "Closing"}
  \/ tpc = "asleep" /\ m_sem_Resume = 0 /\ ~cancelled

NobodyIsStuck == ~(ClientBlocked /\ ThreadBlocked)

\* Every call returns: no notification, token or mutex is missed, in whatever state
\* the last call left the thread.
CallsReturn ==
  cpc \notin {"idle", "open", "suspended"} ~> cpc \in {"idle", "open", "suspended"}
=============================================================================
