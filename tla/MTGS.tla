-------------------------------- MODULE MTGS --------------------------------
(***************************************************************************)
(* The GS thread and its command ring (pcsx2/MTGS.cpp).  The EE thread     *)
(* appends packets to a ring of quadwords and stalls when they do not fit; *)
(* the GS thread executes them in order; a vsync packet also counts        *)
(* queued frames and stalls the EE when too many are queued.               *)
(*                                                                         *)
(* The work semaphore m_sem_event is the event of WorkEvent, which         *)
(* WorkSema.tla implements.  Loads and stores of the shared atomics are    *)
(* separate steps wherever the other thread can move between them.         *)
(***************************************************************************)
EXTENDS Integers, Sequences, FiniteSets

CONSTANTS
  RingBufferSize,   \* quadwords in the ring (2^19 in the code)
  VsyncWords,       \* quadwords of a vsync packet, its tag included
  VsyncQueueSize,   \* EmuConfig.GS.VsyncQueueSize
  SpinLimit,        \* 0x80: stall by spinning up to it, on a signal above it
  TallyLimit,       \* 0x2000: packets are announced when more was copied
  BulkTally         \* what the payload of a GS packet adds to the tally

ASSUME MTGSAssumption ==
  /\ VsyncWords \in 2 .. RingBufferSize - 1
  /\ RingBufferSize \in Nat
  /\ VsyncQueueSize \in 0 .. 3
  /\ SpinLimit \in Nat /\ TallyLimit \in Nat /\ BulkTally \in Nat

VARIABLES
  m_ReadPos, m_WritePos, ring,
  m_SignalRingEnable, m_SignalRingPosition, m_sem_OnRingReset,
  m_QueuedFrameCount, m_VsyncSignalListener, m_sem_Vsync,
  m_CopyDataTally,
  notified, phase, waiter,  \* m_sem_event
  epc, op,                  \* the EE thread: where it is, what it is sending
  gpc, ringposinc,          \* the GS thread: where it is, the packet's words
  pending                   \* history: packets committed and not yet passed,
                            \* and where each of them lies

event    == <<notified, phase, waiter>>
signals  == <<m_SignalRingEnable, m_SignalRingPosition, m_sem_OnRingReset>>
frames   == <<m_QueuedFrameCount, m_VsyncSignalListener, m_sem_Vsync>>
ringVars == <<m_ReadPos, m_WritePos, ring, pending>>
eeVars   == <<epc, op, m_CopyDataTally>>
gsVars   == <<gpc, ringposinc>>
vars     == <<ringVars, signals, frames, event, eeVars, gsVars>>

SemEvent == INSTANCE WorkEvent

-----------------------------------------------------------------------------
(* Packets *)

\* What is sent, and the packet the GS thread finds: of the tags, only that of
\* a vsync makes it touch anything it shares with the EE.
Sends == {"SIMPLE", "GSPACKET", "VSYNC", "RESET", "FRAMESKIP"}

Packet(send) ==
  IF send = "VSYNC" THEN [cmd |-> "VSYNC", words |-> VsyncWords]
                    ELSE [cmd |-> "SIMPLE", words |-> 1]

Packets == { Packet(send) : send \in Sends }
Data == [cmd |-> "DATA", words |-> 0]

\* What a packet adds to m_CopyDataTally: its payload, and its tag if that is
\* all of it.  The payload of a GS packet lies in the buffer of its path.
Tally(send) == CASE send = "VSYNC"    -> VsyncWords - 1
                 [] send = "GSPACKET" -> 1 + BulkTally
                 [] OTHER             -> 1

Wrap(pos) == pos % RingBufferSize        \* pos & RingBufferMask

FreeRoom(readpos) ==
  IF m_WritePos < readpos THEN readpos - m_WritePos
  ELSE RingBufferSize - (m_WritePos - readpos)

\* How much must be executed before the GS thread signals a stalled EE.
SomeDone(readpos, size) ==
  LET quarter == (RingBufferSize - FreeRoom(readpos)) \div 4
  IN IF quarter < size + 1 THEN size + 1 ELSE quarter

-----------------------------------------------------------------------------
(* The EE thread: sending *)

EEMoves(from, to) == epc = from /\ epc' = to
EEOnly == UNCHANGED gsVars

SetEvent == SemEvent!Notify /\ m_CopyDataTally' = 0

\* The tally is only ever compared with TallyLimit: it stops just above it.
Tallied(n) == IF n > TallyLimit THEN TallyLimit + 1 ELSE n

\* Start of SendSimplePacket, SendPointerPacket, SendSimpleGSPacket and
\* PostVsyncStart: the packet that GenericStall is to make room for.
StartPacket ==
  /\ EEMoves("idle", "stall")
  /\ op' \in {"SIMPLE", "GSPACKET", "VSYNC"}
  /\ EEOnly
  /\ UNCHANGED <<ringVars, signals, frames, event, m_CopyDataTally>>

\* GenericStall: first look at the read position.
GenericStall ==
  /\ epc = "stall"
  /\ LET room == FreeRoom(m_ReadPos) > Packet(op).words
         done == SomeDone(m_ReadPos, Packet(op).words)
     IN \/ /\ room
           /\ epc' = "write"
           /\ UNCHANGED m_SignalRingPosition
        \/ /\ ~room /\ done > SpinLimit
           /\ epc' = "signalEnable"
           /\ m_SignalRingPosition' = done
        \/ /\ ~room /\ done <= SpinLimit
           /\ epc' = "spinEvent"
           /\ UNCHANGED m_SignalRingPosition
  /\ EEOnly
  /\ UNCHANGED <<ringVars, m_SignalRingEnable, m_sem_OnRingReset, frames, event,
                 op, m_CopyDataTally>>

\* The signalled stall: enable, notify, sleep, look again.
SignalEnable ==
  /\ EEMoves("signalEnable", "signalEvent")
  /\ m_SignalRingEnable' = TRUE
  /\ EEOnly
  /\ UNCHANGED <<ringVars, m_SignalRingPosition, m_sem_OnRingReset, frames,
                 event, op, m_CopyDataTally>>

SignalEvent ==
  /\ EEMoves("signalEvent", "signalWait")
  /\ SetEvent
  /\ EEOnly
  /\ UNCHANGED <<ringVars, signals, frames, op>>

SignalWait ==
  /\ EEMoves("signalWait", "signalCheck")
  /\ m_sem_OnRingReset > 0
  /\ m_sem_OnRingReset' = m_sem_OnRingReset - 1
  /\ EEOnly
  /\ UNCHANGED <<ringVars, m_SignalRingEnable, m_SignalRingPosition, frames,
                 event, op, m_CopyDataTally>>

SignalCheck ==
  /\ epc = "signalCheck"
  /\ epc' = IF FreeRoom(m_ReadPos) > Packet(op).words THEN "write" ELSE "signalEnable"
  /\ EEOnly
  /\ UNCHANGED <<ringVars, signals, frames, event, op, m_CopyDataTally>>

\* The spinning stall.
\* (With a bug: the GS thread is not notified.)
SpinSilently ==
  /\ EEMoves("spinEvent", "spin")
  /\ EEOnly
  /\ UNCHANGED <<ringVars, signals, frames, event, op, m_CopyDataTally>>

SpinEvent ==
  /\ EEMoves("spinEvent", "spin")
  /\ SetEvent
  /\ EEOnly
  /\ UNCHANGED <<ringVars, signals, frames, op>>

\* (With a bug: the packet may fill the ring.)
SpinToFull ==
  /\ EEMoves("spin", "write")
  /\ FreeRoom(m_ReadPos) >= Packet(op).words
  /\ EEOnly
  /\ UNCHANGED <<ringVars, signals, frames, event, op, m_CopyDataTally>>

Spin ==
  /\ EEMoves("spin", "write")
  /\ FreeRoom(m_ReadPos) > Packet(op).words
  /\ EEOnly
  /\ UNCHANGED <<ringVars, signals, frames, event, op, m_CopyDataTally>>

\* The tag and the payload go into the ring ...
WritePacket ==
  /\ EEMoves("write", "commit")
  /\ ring' = [i \in 0 .. RingBufferSize - 1 |->
                 IF i = m_WritePos THEN Packet(op)
                 ELSE IF \E k \in 1 .. Packet(op).words - 1 : i = Wrap(m_WritePos + k)
                      THEN Data
                      ELSE ring[i]]
  /\ EEOnly
  /\ UNCHANGED <<m_ReadPos, m_WritePos, pending, signals, frames, event, op,
                 m_CopyDataTally>>

\* ... and are published by moving m_WritePos.  What follows depends on the
\* packet: a large GS packet is announced, a vsync goes on in PostVsyncStart,
\* ResetGS sends a second packet and then announces both.
CommitPacket ==
  /\ epc = "commit"
  /\ m_WritePos' = Wrap(m_WritePos + Packet(op).words)
  /\ pending' = Append(pending, [packet |-> Packet(op), at |-> m_WritePos])
  /\ m_CopyDataTally' = Tallied(m_CopyDataTally + Tally(op))
  /\ epc' = CASE op = "VSYNC"     -> "vsyncEvent"
               [] op = "RESET"     -> "stall"
               [] op = "FRAMESKIP" -> "event"
               [] op = "GSPACKET" /\ m_CopyDataTally' > TallyLimit -> "event"
               [] OTHER                -> "idle"
  /\ op' = IF op = "RESET" THEN "FRAMESKIP" ELSE "none"
  /\ EEOnly
  /\ UNCHANGED <<m_ReadPos, ring, signals, frames, event>>

AnnouncePackets ==
  /\ EEMoves("event", "idle")
  /\ SetEvent
  /\ EEOnly
  /\ UNCHANGED <<ringVars, signals, frames, op>>

-----------------------------------------------------------------------------
(* The EE thread: vsync, WaitGS and ResetGS *)

VsyncEvent ==
  /\ EEMoves("vsyncEvent", "vsyncCount")
  /\ SetEvent
  /\ EEOnly
  /\ UNCHANGED <<ringVars, signals, frames, op>>

\* (With a bug: off by one.)
VsyncCountLax ==
  /\ epc = "vsyncCount"
  /\ m_QueuedFrameCount' = m_QueuedFrameCount + 1
  /\ epc' = IF m_QueuedFrameCount <= VsyncQueueSize THEN "idle" ELSE "vsyncListen"
  /\ EEOnly
  /\ UNCHANGED <<ringVars, signals, m_VsyncSignalListener, m_sem_Vsync, event, op,
                 m_CopyDataTally>>

\* m_QueuedFrameCount.fetch_add(1) < VsyncQueueSize
VsyncCount ==
  /\ epc = "vsyncCount"
  /\ m_QueuedFrameCount' = m_QueuedFrameCount + 1
  /\ epc' = IF m_QueuedFrameCount < VsyncQueueSize THEN "idle" ELSE "vsyncListen"
  /\ EEOnly
  /\ UNCHANGED <<ringVars, signals, m_VsyncSignalListener, m_sem_Vsync, event, op,
                 m_CopyDataTally>>

VsyncListen ==
  /\ EEMoves("vsyncListen", "vsyncWait")
  /\ m_VsyncSignalListener' = TRUE
  /\ EEOnly
  /\ UNCHANGED <<ringVars, signals, m_QueuedFrameCount, m_sem_Vsync, event, op,
                 m_CopyDataTally>>

VsyncWait ==
  /\ EEMoves("vsyncWait", "idle")
  /\ m_sem_Vsync > 0
  /\ m_sem_Vsync' = m_sem_Vsync - 1
  /\ EEOnly
  /\ UNCHANGED <<ringVars, signals, m_QueuedFrameCount, m_VsyncSignalListener,
                 event, op, m_CopyDataTally>>

\* (With a bug: packets that were not announced are not announced here.)
WaitGSSilently ==
  /\ EEMoves("idle", "waitEmpty")
  /\ EEOnly
  /\ UNCHANGED <<ringVars, signals, frames, event, op, m_CopyDataTally>>

WaitGS ==
  /\ EEMoves("idle", "waitEmpty")
  /\ SetEvent
  /\ EEOnly
  /\ UNCHANGED <<ringVars, signals, frames, op>>

\* m_sem_event.WaitForEmpty(): at once, or by sleeping.
WaitForEmpty ==
  /\ epc = "waitEmpty"
  /\ \/ SemEvent!EmptyAtOnce /\ epc' = "drained"
     \/ SemEvent!EmptyWait /\ epc' = "waitingEmpty"
  /\ EEOnly
  /\ UNCHANGED <<ringVars, signals, frames, op, m_CopyDataTally>>

WaitForEmptyReturns ==
  /\ EEMoves("waitingEmpty", "drained")
  /\ SemEvent!EmptyReturn
  /\ EEOnly
  /\ UNCHANGED <<ringVars, signals, frames, op, m_CopyDataTally>>

Resume ==
  /\ EEMoves("drained", "idle")
  /\ EEOnly
  /\ UNCHANGED <<ringVars, signals, frames, event, op, m_CopyDataTally>>

\* ResetGS, which cpuReset calls when WaitGS has returned.
ResetGS ==
  /\ EEMoves("drained", "stall")
  /\ m_ReadPos' = m_WritePos
  /\ pending' = <<>>
  /\ m_QueuedFrameCount' = 0
  /\ m_VsyncSignalListener' = FALSE
  /\ op' = "RESET"
  /\ EEOnly
  /\ UNCHANGED <<m_WritePos, ring, signals, m_sem_Vsync, event, m_CopyDataTally>>

\* Steps of the EE that finish what it began, and those that begin something.
EEContinues ==
  \/ GenericStall \/ SignalEnable \/ SignalEvent \/ SignalWait \/ SignalCheck
  \/ SpinEvent \/ Spin \/ WritePacket \/ CommitPacket \/ AnnouncePackets
  \/ VsyncEvent \/ VsyncCount \/ VsyncListen \/ VsyncWait
  \/ WaitForEmpty \/ WaitForEmptyReturns \/ Resume

EEBegins == StartPacket \/ WaitGS \/ ResetGS

-----------------------------------------------------------------------------
(* The GS thread: ExecuteTaskInThread *)

GSMoves(from, to) == gpc = from /\ gpc' = to

\* m_sem_event.WaitForWork() goes on, goes to sleep, or is woken.
WaitForWork ==
  /\ gpc = "wait"
  /\ \/ (SemEvent!GoOn \/ SemEvent!WakeUp) /\ gpc' = "loop"
     \/ SemEvent!GoIdle /\ UNCHANGED gpc
  /\ UNCHANGED <<ringVars, signals, frames, eeVars, ringposinc>>

\* A packet is there: its tag says what to do and how far to move on.
Execute ==
  /\ gpc = "loop"
  /\ m_ReadPos # m_WritePos
  /\ ringposinc' = ring[m_ReadPos].words
  /\ gpc' = IF ring[m_ReadPos].cmd = "VSYNC" THEN "vsyncSub" ELSE "advance"
  /\ UNCHANGED <<ringVars, signals, frames, event, eeVars>>

VsyncSub ==
  /\ GSMoves("vsyncSub", "vsyncSignal")
  /\ m_QueuedFrameCount' = m_QueuedFrameCount - 1
  /\ UNCHANGED <<ringVars, signals, m_VsyncSignalListener, m_sem_Vsync, event,
                 eeVars, ringposinc>>

\* (With a bug: the listener is not cleared.)
VsyncSignalLoad ==
  /\ GSMoves("vsyncSignal", "advance") \/ GSMoves("valveVsync", "wait")
  /\ m_sem_Vsync' = IF m_VsyncSignalListener THEN m_sem_Vsync + 1 ELSE m_sem_Vsync
  /\ UNCHANGED <<ringVars, signals, m_QueuedFrameCount, m_VsyncSignalListener, event,
                 eeVars, ringposinc>>

\* if (m_VsyncSignalListener.exchange(false)) m_sem_Vsync.Post(), after a vsync
\* and as a safety valve before the thread waits for work.
VsyncSignal ==
  /\ GSMoves("vsyncSignal", "advance") \/ GSMoves("valveVsync", "wait")
  /\ m_VsyncSignalListener' = FALSE
  /\ m_sem_Vsync' = IF m_VsyncSignalListener THEN m_sem_Vsync + 1 ELSE m_sem_Vsync
  /\ UNCHANGED <<ringVars, signals, m_QueuedFrameCount, event, eeVars, ringposinc>>

Advance ==
  /\ GSMoves("advance", "ringSignal")
  /\ m_ReadPos' = Wrap(m_ReadPos + ringposinc)
  /\ pending' = Tail(pending)
  /\ UNCHANGED <<m_WritePos, ring, signals, frames, event, eeVars, ringposinc>>

\* The stalled EE asked to be signalled after some amount of data.  (ringposinc
\* is local to the iteration that ends here.)
RingSignal ==
  /\ gpc = "ringSignal"
  /\ IF m_SignalRingEnable
     THEN /\ m_SignalRingPosition' = m_SignalRingPosition - ringposinc
          /\ gpc' = IF m_SignalRingPosition <= 0 THEN "ringOff" ELSE "loop"
     ELSE /\ gpc' = "loop"
          /\ UNCHANGED m_SignalRingPosition
  /\ ringposinc' = 0
  /\ UNCHANGED <<ringVars, m_SignalRingEnable, m_sem_OnRingReset, frames, event,
                 eeVars>>

RingOff ==
  /\ GSMoves("ringOff", "ringPost")
  /\ m_SignalRingEnable' = FALSE
  /\ UNCHANGED <<ringVars, m_SignalRingPosition, m_sem_OnRingReset, frames,
                 event, eeVars, ringposinc>>

RingPost ==
  /\ \/ GSMoves("ringPost", "loop")
     \/ GSMoves("valvePost", "valveVsync")
  /\ m_sem_OnRingReset' = m_sem_OnRingReset + 1
  /\ UNCHANGED <<ringVars, m_SignalRingEnable, m_SignalRingPosition, frames,
                 event, eeVars, ringposinc>>

\* The ring is empty: whoever still waits for a signal is given one.
SafetyValve ==
  /\ gpc = "loop"
  /\ m_ReadPos = m_WritePos
  /\ gpc' = "valve"
  /\ UNCHANGED <<ringVars, signals, frames, event, eeVars, ringposinc>>

\* (With a bug: the signal stays armed.)
ValveRingLoad ==
  /\ gpc = "valve"
  /\ gpc' = IF m_SignalRingEnable THEN "valvePosition" ELSE "valveVsync"
  /\ UNCHANGED <<ringVars, signals, frames, event, eeVars, ringposinc>>

\* (With a bug: a stalled EE is forgotten.)
ValveNone ==
  /\ GSMoves("valve", "valveVsync")
  /\ UNCHANGED <<ringVars, signals, frames, event, eeVars, ringposinc>>

ValveRing ==
  /\ gpc = "valve"
  /\ m_SignalRingEnable' = FALSE
  /\ gpc' = IF m_SignalRingEnable THEN "valvePosition" ELSE "valveVsync"
  /\ UNCHANGED <<ringVars, m_SignalRingPosition, m_sem_OnRingReset, frames,
                 event, eeVars, ringposinc>>

ValvePosition ==
  /\ GSMoves("valvePosition", "valvePost")
  /\ m_SignalRingPosition' = 0
  /\ UNCHANGED <<ringVars, m_SignalRingEnable, m_sem_OnRingReset, frames, event,
                 eeVars, ringposinc>>

GSThread ==
  \/ WaitForWork \/ Execute \/ VsyncSub \/ VsyncSignal \/ Advance
  \/ RingSignal \/ RingOff \/ RingPost
  \/ SafetyValve \/ ValveRing \/ ValvePosition

-----------------------------------------------------------------------------
Init ==
  /\ m_ReadPos = 0 /\ m_WritePos = 0
  /\ ring = [i \in 0 .. RingBufferSize - 1 |-> Data]
  /\ m_SignalRingEnable = FALSE /\ m_SignalRingPosition = 0
  /\ m_sem_OnRingReset = 0
  /\ m_QueuedFrameCount = 0 /\ m_VsyncSignalListener = FALSE
  /\ m_sem_Vsync = 0
  /\ m_CopyDataTally = 0
  /\ SemEvent!Init
  /\ epc = "idle" /\ op = "none"
  /\ gpc = "wait" /\ ringposinc = 0
  /\ pending = <<>>

Next == EEContinues \/ EEBegins \/ GSThread

Spec == Init /\ [][Next]_vars

\* Both threads are scheduled; the EE need not begin anything new.
FairSpec == Spec /\ WF_vars(EEContinues) /\ WF_vars(GSThread)

-----------------------------------------------------------------------------
(* What it promises *)

EEPCs == {"idle", "stall", "signalEnable", "signalEvent", "signalWait",
          "signalCheck", "spinEvent", "spin", "write", "commit", "event",
          "vsyncEvent", "vsyncCount", "vsyncListen", "vsyncWait",
          "waitEmpty", "waitingEmpty", "drained"}
GSPCs == {"wait", "loop", "vsyncSub", "vsyncSignal", "advance", "ringSignal",
          "ringOff", "ringPost", "valve", "valvePosition", "valvePost",
          "valveVsync"}

TypeOK ==
  /\ m_ReadPos \in 0 .. RingBufferSize - 1
  /\ m_WritePos \in 0 .. RingBufferSize - 1
  /\ ring \in [0 .. RingBufferSize - 1 -> Packets \cup {Data}]
  /\ m_SignalRingEnable \in BOOLEAN /\ m_SignalRingPosition \in Int
  /\ m_sem_OnRingReset \in 0 .. 1
  /\ m_QueuedFrameCount \in Int /\ m_VsyncSignalListener \in BOOLEAN
  /\ m_sem_Vsync \in 0 .. 1
  /\ m_CopyDataTally \in 0 .. TallyLimit + 1
  /\ SemEvent!TypeOK
  /\ epc \in EEPCs /\ op \in Sends \cup {"none"}
  /\ gpc \in GSPCs /\ ringposinc \in 0 .. RingBufferSize
  /\ pending \in Seq([packet : Packets, at : 0 .. RingBufferSize - 1])

\* Where the packet after a pending one lies.
After(p) == Wrap(p.at + p.packet.words)

\* What lies between m_ReadPos and m_WritePos is exactly the packets sent and
\* not yet executed, in order: the ring never fills up so far that it looks
\* empty, and no packet is overwritten before the GS thread is done with it.
RingHoldsPending ==
  /\ m_ReadPos = m_WritePos => pending = <<>>
  /\ m_WritePos = IF pending = <<>> THEN m_ReadPos ELSE After(pending[Len(pending)])
  /\ \A k \in DOMAIN pending :
       LET p == pending[k] IN
       /\ p.at = IF k = 1 THEN m_ReadPos ELSE After(pending[k - 1])
       /\ ring[p.at] = p.packet
       /\ \A i \in 1 .. p.packet.words - 1 : ring[Wrap(p.at + i)] = Data

\* The assertions of GenericStall ("MTGS Thread Synchronization Error"): no
\* signal is armed when a stall starts or after it ended, and no token of an
\* earlier stall is left to end a later one early.
StallIsClean ==
  /\ epc \in {"stall", "write", "idle"} =>
       ~m_SignalRingEnable /\ m_sem_OnRingReset = 0
  /\ epc = "write" => m_SignalRingPosition <= 0
  /\ gpc \in {"ringPost", "valvePost"} => m_sem_OnRingReset = 0

\* The frame counter, which the EE raises only after the packet is out and the
\* GS thread lowers, never drifts from the vsyncs in the ring ("stall the EE if
\* another vsync (or two) are already queued").  No more than VsyncQueueSize + 2
\* frames are queued: the one the EE stalls on, and one more because the frame
\* whose end made room may also be the one that answers the next stall.
FramesInRing == Cardinality({ k \in DOMAIN pending : pending[k].packet.cmd = "VSYNC" })
FramesPassed ==
  IF gpc = "vsyncSignal" \/ (gpc = "advance" /\ Head(pending).packet.cmd = "VSYNC")
  THEN 1 ELSE 0
FramesNotCounted == IF epc \in {"vsyncEvent", "vsyncCount"} THEN 1 ELSE 0

FramesCounted ==
  /\ m_QueuedFrameCount + FramesNotCounted = FramesInRing - FramesPassed
  /\ m_QueuedFrameCount + FramesNotCounted <= VsyncQueueSize + 2

\* When WaitGS returns the GS thread has executed everything sent before, and
\* stays out of the ring: ResetGS may move m_ReadPos under it.
WaitGSDrains ==
  epc = "drained" => pending = <<>> /\ m_ReadPos = m_WritePos /\ gpc = "wait"

\* The ring is the queue of CommandQueue: the GS thread takes each packet once, in
\* the order in which they were sent, and finds it in the ring as it was written, from
\* the time it reads the tag until it passes the packet; it stops looking only when
\* all are done; and when WaitGS has returned it keeps out of the ring until the EE goes on.
PacketsOf(q) == [k \in DOMAIN q |-> q[k].packet]
Sent == PacketsOf(pending)
Taken == IF gpc \in {"vsyncSub", "vsyncSignal", "advance"} THEN <<ring[m_ReadPos]>> ELSE <<>>
Worker == IF gpc \in {"wait", "valve", "valvePosition", "valvePost", "valveVsync"}
          THEN "asleep" ELSE "awake"
Client == IF epc = "drained" THEN "drained" ELSE "sending"

Queue == INSTANCE CommandQueue WITH
  Commands <- Packets, queue <- Sent, taken <- Taken, worker <- Worker, client <- Client

ImplementsQueue == Queue!Spec

\* Neither a stall nor WaitGS puts the EE to sleep for good: when it waits for room
\* or for the ring to be drained, the GS thread is not asleep as well.  This is what
\* the safety valve is for; the wait for a vsync is not included (see VsyncWakes).
EEBlocked ==
  \/ epc = "signalWait" /\ m_sem_OnRingReset = 0
  \/ epc = "spin" /\ FreeRoom(m_ReadPos) <= Packet(op).words
  \/ epc = "waitingEmpty" /\ waiter # "released"
GSBlocked == gpc = "wait" /\ phase = "idle" /\ ~notified

NobodyIsStuck == ~(EEBlocked /\ GSBlocked)

\* A stalled EE comes to have room for its packet, whichever way it waits; one in
\* WaitGS comes to find the ring drained; and "vsyncs should always start the GS
\* thread, regardless of how little has actually be queued": with a frame queued,
\* packets go on being executed.
WaitsEnd ==
  /\ (epc \in {"stall", "signalWait", "spin"}) ~> (epc = "write")
  /\ (epc = "waitEmpty") ~> (epc = "drained")
  /\ (FramesInRing > 0) ~> (gpc = "advance")

\* The comment on the safety valve: it "ensures the EEcore won't sleep the
\* eternity".  The code does not keep this one.
VsyncWakes == (epc = "vsyncWait") ~> (epc = "idle")
=============================================================================
