------------------------------ MODULE GifPath1 ------------------------------
(***************************************************************************)
(* The way of a VU1 program's XGKICK data to the GS when VU1 has its own   *)
(* thread (pcsx2/Gif_Unit.h, MTVU.cpp, MTGS.cpp).  Three threads meet:     *)
(*                                                                         *)
(*  - the EE starts programs and sends, for each, a MTVU_GSPACKET command  *)
(*    that stands for a packet which does not exist yet;                   *)
(*  - the VU thread runs them, copies what they kick into the buffer       *)
(*    of GIF path 1, queues one packet at its end and posts semaXGkick;    *)
(*  - the GS thread, at such a command, waits for semaXGkick and transfers *)
(*    the packet at the head of the queue.                                 *)
(*                                                                         *)
(* The buffer is used round and round with the arithmetic of Gif_Path; the *)
(* VU thread waits for the GS thread when it would overtake it.  The two   *)
(* command rings are counters of programs and of commands (MTVU.tla and    *)
(* MTGS.tla show that they are queues), their work semaphores WorkEvents.  *)
(***************************************************************************)
EXTENDS Integers, Sequences, FiniteSetsExt

CONSTANTS
  BuffSize,    \* quadwords of the path's buffer
  BuffLimit,   \* buffLimit: where it wraps around
  Kicks,       \* what an XGKICK transfers: pairs, for VU memory may wrap once
  MaxKicks,    \* bound on the kicks of a program
  MaxPrograms  \* bound on the programs that are started and not yet displayed

ASSUME GifPath1Assumption ==
  /\ BuffSize \in Nat /\ BuffLimit \in 1 .. BuffSize
  /\ Kicks # {} /\ Kicks \subseteq (1 .. BuffSize) \X (0 .. BuffSize)
  /\ MaxKicks \in Nat /\ MaxPrograms \in Nat \ {0}

VARIABLES
  epc,                   \* the EE thread
  fakePackets,           \* commands that the GIF has not let through yet
  canDoGif,              \* no signal is queued, no pause, path 1 can be chosen
  vuPrograms, vuNotified, vuPhase, vuWaiter,   \* VU thread: ring, semaEvent
  gsCommands, gsNotified, gsPhase, gsWaiter,   \* GS thread: ring, m_sem_event
  vpc,                   \* the VU thread: place,
  kicks,                 \*   kicks left,
  size, rest,            \*   what this one copies now and after that,
  startP1Packs,          \*   what its WaitGS compares with
  gsPack,                \* the packet being built: offset, size, readAmount
  curOffset, curSize,
  readAmount,            \* the atomic: how much the GS thread still has to read
  gsPackQueue, semaXGkick,
  gpc                    \* the GS thread

vuEvent   == <<vuNotified, vuPhase, vuWaiter>>
gsEvent   == <<gsNotified, gsPhase, gsWaiter>>
eeVars    == <<epc, fakePackets, canDoGif>>
vuLocals  == <<kicks, size, rest, startP1Packs>>
pathVars  == <<gsPack, curOffset, curSize>>
queueVars == <<readAmount, gsPackQueue, semaXGkick>>
vars      == <<eeVars, vuPrograms, vuEvent, gsCommands, gsEvent, vpc, vuLocals,
               pathVars, queueVars, gpc>>

SemaEvent == INSTANCE WorkEvent WITH
               notified <- vuNotified, phase <- vuPhase, waiter <- vuWaiter
SemEvent  == INSTANCE WorkEvent WITH
               notified <- gsNotified, phase <- gsPhase, waiter <- gsWaiter

-----------------------------------------------------------------------------
(* Helpers *)

NewPack(offset) == [offset |-> offset, size |-> 0, readAmount |-> 0]

getReadAmount == readAmount + gsPack.readAmount

\* m_mtx_RingBufferBusy2: the GS thread holds it unless it waits for something.
MutexFree == gpc \in {"wait", "semWait"}

-----------------------------------------------------------------------------
(* The EE thread *)

EEMoves(from, to) == epc = from /\ epc' = to
EEOnly == UNCHANGED <<vpc, vuLocals, pathVars, queueVars, gpc>>

\* ExecuteVU: the program goes into the VU thread's ring ...
ExecuteVU ==
  /\ EEMoves("idle", "transfer")
  /\ gsCommands + fakePackets < MaxPrograms
  /\ vuPrograms' = vuPrograms + 1
  /\ EEOnly /\ UNCHANGED <<fakePackets, canDoGif, vuEvent, gsCommands, gsEvent>>

\* (With a bug: one command for all of them.)
SendOneCommand(packets) ==
  /\ fakePackets' = 0
  /\ gsCommands' = gsCommands + 1
  /\ SemEvent!Notify \/ UNCHANGED gsEvent

\* Gif_Unit::Execute sends a command for every fake packet.  SendSimpleGSPacket
\* notifies the GS thread, or leaves it to a later packet.
SendFakePackets(packets) ==
  /\ fakePackets' = 0
  /\ gsCommands' = gsCommands + packets
  /\ SemEvent!Notify \/ UNCHANGED gsEvent

\* ... TransferGSPacketData(GIF_TRANS_MTVU) counts a fake packet, and sends it
\* if the GIF takes it ...
TransferGSPacketData ==
  /\ EEMoves("transfer", "kick")
  /\ \/ canDoGif /\ SendFakePackets(fakePackets + 1)
     \/ /\ ~canDoGif
        /\ fakePackets' = fakePackets + 1
        /\ UNCHANGED <<gsCommands, gsEvent>>
  /\ EEOnly /\ UNCHANGED <<canDoGif, vuPrograms, vuEvent>>

\* (With a bug: nobody is notified.)
KickNobody ==
  /\ EEMoves("kick", "idle")
  /\ EEOnly
  /\ UNCHANGED <<fakePackets, canDoGif, vuPrograms, vuEvent, gsCommands, gsEvent>>

\* ... and KickStart notifies the VU thread.
KickStart ==
  /\ EEMoves("kick", "idle")
  /\ SemaEvent!Notify
  /\ EEOnly /\ UNCHANGED <<fakePackets, canDoGif, vuPrograms, gsCommands, gsEvent>>

\* A signal is queued, the GIF paused, another path in the middle of a packet;
\* the end of it resumes what was stalled with Execute(false, true).
GifStall ==
  /\ epc = "idle" /\ canDoGif
  /\ canDoGif' = FALSE
  /\ EEOnly
  /\ UNCHANGED <<epc, fakePackets, vuPrograms, vuEvent, gsCommands, gsEvent>>

GifResume ==
  /\ epc = "idle" /\ ~canDoGif
  /\ canDoGif' = TRUE
  /\ SendFakePackets(fakePackets)
  /\ EEOnly /\ UNCHANGED <<epc, vuPrograms, vuEvent>>

\* VU_Thread::WaitVU, and SysMtgsThread::WaitGS, which notifies first.
WaitVU ==
  /\ epc = "idle"
  /\ \/ SemaEvent!EmptyAtOnce /\ UNCHANGED epc
     \/ SemaEvent!EmptyWait /\ epc' = "waitVU"
  /\ EEOnly /\ UNCHANGED <<fakePackets, canDoGif, vuPrograms, gsCommands, gsEvent>>

WaitGS ==
  /\ EEMoves("idle", "waitEmpty")
  /\ SemEvent!Notify
  /\ EEOnly /\ UNCHANGED <<fakePackets, canDoGif, vuPrograms, vuEvent, gsCommands>>

WaitForEmpty ==
  /\ epc = "waitEmpty"
  /\ \/ SemEvent!EmptyAtOnce /\ epc' = "idle"
     \/ SemEvent!EmptyWait /\ epc' = "waitGS"
  /\ EEOnly /\ UNCHANGED <<fakePackets, canDoGif, vuPrograms, vuEvent, gsCommands>>

WaitReturns ==
  /\ \/ EEMoves("waitVU", "idle") /\ SemaEvent!EmptyReturn /\ UNCHANGED gsEvent
     \/ EEMoves("waitGS", "idle") /\ SemEvent!EmptyReturn /\ UNCHANGED vuEvent
  /\ EEOnly /\ UNCHANGED <<fakePackets, canDoGif, vuPrograms, gsCommands>>

EEContinues == TransferGSPacketData \/ KickStart \/ WaitForEmpty \/ WaitReturns
EEBegins == ExecuteVU \/ GifStall \/ GifResume \/ WaitVU \/ WaitGS

-----------------------------------------------------------------------------
(* The VU thread: ExecuteRingBuffer and the program's XGKICKs *)

VUMoves(from, to) == vpc = from /\ vpc' = to
VUOnly == UNCHANGED <<eeVars, gsCommands, gpc>>

VUWaitForWork ==
  /\ vpc = "wait"
  /\ \/ (SemaEvent!GoOn \/ SemaEvent!WakeUp) /\ vpc' = "loop"
     \/ SemaEvent!GoIdle /\ UNCHANGED vpc
  /\ VUOnly /\ UNCHANGED <<vuPrograms, gsEvent, vuLocals, pathVars, queueVars>>

VURingEmpty ==
  /\ VUMoves("loop", "wait")
  /\ vuPrograms = 0
  /\ VUOnly
  /\ UNCHANGED <<vuPrograms, vuEvent, gsEvent, vuLocals, pathVars, queueVars>>

\* vuCPU->Execute: a program with so many XGKICKs.
ExecuteProgram ==
  /\ VUMoves("loop", "run")
  /\ vuPrograms > 0
  /\ kicks' \in 0 .. MaxKicks
  /\ VUOnly
  /\ UNCHANGED <<vuPrograms, vuEvent, gsEvent, size, rest, startP1Packs, pathVars,
                 queueVars>>

\* (With a bug, off by one.)
FitsAlmost(used, n) == used + n <= BuffSize + 1

\* CopyGSPacketData begins by moving the packet if the data would not fit.
Fits(used, n) == used + n <= BuffSize
BeginCopy(used, n) == IF Fits(used, n) THEN "copy" ELSE "realign"

\* An XGKICK (mVU_XGKICK_): one copy, or two if the packet goes over the end of
\* VU memory, the first of them by CopyGSPacketData alone.
XGKICK ==
  /\ vpc = "run" /\ kicks > 0
  /\ kicks' = kicks - 1
  /\ \E kick \in Kicks : size' = kick[1] /\ rest' = kick[2]
  /\ vpc' = BeginCopy(curSize, size')
  /\ VUOnly
  /\ UNCHANGED <<vuPrograms, vuEvent, gsEvent, startP1Packs, pathVars,
                 queueVars>>

PackOffset == curOffset - gsPack.size   \* where the unfinished packet starts
PackSize   == curSize - PackOffset      \* and how much of it there is

\* (With a bug: how far the packet will reach is forgotten.)
RealignSpaceLax == PackOffset - getReadAmount >= 0

\* What lies in front of the packet was read, as far as the packet will reach and
\* does not already (intersect).
RealignSpace ==
  PackOffset - getReadAmount >= PackSize - Max({PackSize - PackOffset, 0})

\* RealignPacket: the unfinished packet moves to the start of the buffer.  What
\* is left unused up to buffLimit counts as still to be read.
\* (CopyGSPacketData calls it before it copies, ExecuteGSPacketMTVU after.)
RealignPacket ==
  /\ VUMoves("realign", "copy") \/ VUMoves("realignTags", "tags")
  /\ RealignSpace
  /\ gsPack' = [gsPack EXCEPT !.offset = 0,
                              !.readAmount = @ + Max({BuffLimit - PackOffset, 0})]
  /\ curSize' = PackSize
  /\ curOffset' = gsPack.size
  /\ VUOnly /\ UNCHANGED <<vuPrograms, vuEvent, gsEvent, vuLocals, queueVars>>

RealignMustWait ==
  /\ VUMoves("realign", "realignNotify") \/ VUMoves("realignTags", "realignTagsNotify")
  /\ ~RealignSpace
  /\ VUOnly
  /\ UNCHANGED <<vuPrograms, vuEvent, gsEvent, vuLocals, pathVars, queueVars>>

\* The GS thread reads behind the packet, or far enough in front.
FrontSpace(n) ==
  LET readPos == PackOffset - getReadAmount
  IN readPos >= 0 \/ BuffLimit + readPos > curSize + n

CopyGSPacketData ==
  /\ vpc = "copy"
  /\ FrontSpace(size)
  /\ curSize' = curSize + size
  /\ vpc' = IF rest > 0 THEN BeginCopy(curSize', rest)
            ELSE IF curOffset > BuffLimit THEN "realignTags" ELSE "tags"
  /\ size' = rest /\ rest' = 0
  /\ VUOnly
  /\ UNCHANGED <<vuPrograms, vuEvent, gsEvent, kicks, startP1Packs, gsPack,
                 curOffset, queueVars>>

CopyMustWait ==
  /\ VUMoves("copy", "copyNotify")
  /\ ~FrontSpace(size)
  /\ VUOnly
  /\ UNCHANGED <<vuPrograms, vuEvent, gsEvent, vuLocals, pathVars, queueVars>>

\* The loop of ExecuteGSPacketMTVU, over the tags of all that was copied.
ExecuteGSPacketMTVU ==
  /\ VUMoves("tags", "run")
  /\ gsPack' = [gsPack EXCEPT !.size = @ + curSize - curOffset]
  /\ curOffset' = curSize
  /\ VUOnly
  /\ UNCHANGED <<vuPrograms, vuEvent, gsEvent, vuLocals, curSize, queueVars>>

\* mtgsReadWait: WaitGS with weakWait notifies the GS thread, and if packets are
\* pending, waits until their number has changed.
ReadWaits == {"realign", "realignTags", "copy"}
NotifyPC == [realign |-> "realignNotify", realignTags |-> "realignTagsNotify",
             copy |-> "copyNotify"]
CountPC  == [realign |-> "realignCount", realignTags |-> "realignTagsCount",
             copy |-> "copyCount"]
ChangePC == [realign |-> "realignChange", realignTags |-> "realignTagsChange",
             copy |-> "copyChange"]

\* (With a bug: the GS thread is not notified.)
ReadWaitSilently ==
  /\ \E pc \in ReadWaits : VUMoves(NotifyPC[pc], CountPC[pc])
  /\ VUOnly
  /\ UNCHANGED <<vuPrograms, vuEvent, gsEvent, vuLocals, pathVars, queueVars>>

ReadWaitNotify ==
  /\ \E pc \in ReadWaits : VUMoves(NotifyPC[pc], CountPC[pc])
  /\ SemEvent!Notify
  /\ VUOnly /\ UNCHANGED <<vuPrograms, vuEvent, vuLocals, pathVars, queueVars>>

ReadWaitCount ==
  /\ \E pc \in ReadWaits :
       VUMoves(CountPC[pc], IF gsPackQueue = <<>> THEN pc ELSE ChangePC[pc])
  /\ startP1Packs' = Len(gsPackQueue)
  /\ VUOnly
  /\ UNCHANGED <<vuPrograms, vuEvent, gsEvent, kicks, size, rest, pathVars,
                 queueVars>>

ReadWaitChange ==
  /\ \E pc \in ReadWaits : VUMoves(ChangePC[pc], pc)
  /\ MutexFree
  /\ Len(gsPackQueue) # startP1Packs
  /\ startP1Packs' = 0
  /\ VUOnly
  /\ UNCHANGED <<vuPrograms, vuEvent, gsEvent, kicks, size, rest, pathVars,
                 queueVars>>

\* (With a bug: the gap that a realignment left does not count.)
FinishReadAmountNoGap ==
  /\ VUMoves("run", "push") /\ kicks = 0
  /\ readAmount' = readAmount + gsPack.size
  /\ VUOnly
  /\ UNCHANGED <<vuPrograms, vuEvent, gsEvent, vuLocals, pathVars, gsPackQueue,
                 semaXGkick>>

\* The program ends: FinishGSPacketMTVU counts the data and queues the packet ...
FinishReadAmount ==
  /\ VUMoves("run", "push") /\ kicks = 0
  /\ readAmount' = readAmount + gsPack.size + gsPack.readAmount
  /\ VUOnly
  /\ UNCHANGED <<vuPrograms, vuEvent, gsEvent, vuLocals, pathVars, gsPackQueue,
                 semaXGkick>>

FinishPush ==
  /\ VUMoves("push", "post")
  /\ gsPackQueue' = Append(gsPackQueue, gsPack)
  /\ gsPack' = NewPack(curOffset)
  /\ VUOnly
  /\ UNCHANGED <<vuPrograms, vuEvent, gsEvent, vuLocals, curOffset, curSize, readAmount,
                 semaXGkick>>

\* ... semaXGkick says so, and CommitReadPos passes the program.
PostXGkick ==
  /\ VUMoves("post", "loop")
  /\ semaXGkick' = semaXGkick + 1
  /\ vuPrograms' = vuPrograms - 1
  /\ VUOnly
  /\ UNCHANGED <<vuEvent, gsEvent, vuLocals, pathVars, readAmount, gsPackQueue>>

VUThread ==
  \/ VUWaitForWork \/ VURingEmpty \/ ExecuteProgram
  \/ XGKICK \/ RealignPacket \/ RealignMustWait \/ CopyGSPacketData \/ CopyMustWait
  \/ ExecuteGSPacketMTVU
  \/ ReadWaitNotify \/ ReadWaitCount \/ ReadWaitChange
  \/ FinishReadAmount \/ FinishPush \/ PostXGkick

-----------------------------------------------------------------------------
(* The GS thread: ExecuteTaskInThread, with GS_RINGTYPE_MTVU_GSPACKET commands *)

GSMoves(from, to) == gpc = from /\ gpc' = to
GSOnly == UNCHANGED <<eeVars, vuPrograms, vuEvent, vpc, vuLocals, pathVars>>

GSWaitForWork ==
  /\ gpc = "wait"
  /\ \/ (SemEvent!GoOn \/ SemEvent!WakeUp) /\ gpc' = "loop"
     \/ SemEvent!GoIdle /\ UNCHANGED gpc
  /\ GSOnly /\ UNCHANGED <<gsCommands, queueVars>>

GSRingEmpty ==
  /\ GSMoves("loop", "wait")
  /\ gsCommands = 0
  /\ GSOnly /\ UNCHANGED <<gsCommands, gsEvent, queueVars>>

\* (With a bug: the token is seen, not taken.)
TryWaitPeek ==
  /\ gpc = "loop" /\ gsCommands > 0
  /\ gpc' = IF semaXGkick > 0 THEN "transfer" ELSE "semWait"
  /\ GSOnly /\ UNCHANGED <<gsCommands, gsEvent, queueVars>>

\* semaXGkick.TryWait() ...
TryWaitXGkick ==
  /\ gpc = "loop" /\ gsCommands > 0
  /\ IF semaXGkick > 0
     THEN semaXGkick' = semaXGkick - 1 /\ gpc' = "transfer"
     ELSE gpc' = "semWait" /\ UNCHANGED semaXGkick
  /\ GSOnly /\ UNCHANGED <<gsCommands, gsEvent, readAmount, gsPackQueue>>

\* ... or WaitWithoutYield() without the mutex.
WaitXGkick ==
  /\ GSMoves("semWait", "transfer")
  /\ semaXGkick > 0
  /\ semaXGkick' = semaXGkick - 1
  /\ GSOnly /\ UNCHANGED <<gsCommands, gsEvent, readAmount, gsPackQueue>>

\* (With a bug: the gap stays counted.)
TransferPacketNoGap ==
  /\ GSMoves("transfer", "pop")
  /\ gsPackQueue # <<>>
  /\ readAmount' = readAmount - Head(gsPackQueue).size
  /\ GSOnly /\ UNCHANGED <<gsCommands, gsEvent, gsPackQueue, semaXGkick>>

\* GetGSPacketMTVU (an empty packet if there is none, and an error is printed),
\* GSgifTransfer, and readAmount is lowered ...
TransferPacket ==
  /\ GSMoves("transfer", "pop")
  /\ LET pack == IF gsPackQueue = <<>> THEN NewPack(0) ELSE Head(gsPackQueue)
     IN readAmount' = readAmount - pack.size - pack.readAmount
  /\ GSOnly /\ UNCHANGED <<gsCommands, gsEvent, gsPackQueue, semaXGkick>>

\* ... PopGSPacketMTVU, "done last, for proper Gif_MTGS_Wait()".
PopPacket ==
  /\ GSMoves("pop", "loop")
  /\ gsPackQueue' = Tail(gsPackQueue)
  /\ gsCommands' = gsCommands - 1
  /\ GSOnly /\ UNCHANGED <<gsEvent, readAmount, semaXGkick>>

GSThread ==
  \/ GSWaitForWork \/ GSRingEmpty \/ TryWaitXGkick \/ WaitXGkick
  \/ TransferPacket \/ PopPacket

-----------------------------------------------------------------------------
Init ==
  /\ epc = "idle" /\ fakePackets = 0 /\ canDoGif = TRUE
  /\ vuPrograms = 0 /\ SemaEvent!Init
  /\ gsCommands = 0 /\ SemEvent!Init
  /\ vpc = "wait" /\ kicks = 0 /\ size = 0 /\ rest = 0 /\ startP1Packs = 0
  /\ gsPack = NewPack(0) /\ curOffset = 0 /\ curSize = 0
  /\ readAmount = 0 /\ gsPackQueue = <<>> /\ semaXGkick = 0
  /\ gpc = "wait"

Next == EEContinues \/ EEBegins \/ VUThread \/ GSThread

Spec == Init /\ [][Next]_vars

\* All three threads are scheduled; the EE need not begin anything new.
FairSpec == Spec /\ WF_vars(EEContinues) /\ WF_vars(VUThread) /\ WF_vars(GSThread)

-----------------------------------------------------------------------------
(* What it promises *)

WaitPCs == UNION { {NotifyPC[pc], CountPC[pc], ChangePC[pc]} : pc \in ReadWaits }
VUPCs == {"wait", "loop", "run", "tags", "push", "post"} \cup ReadWaits \cup WaitPCs

Pack == [offset : 0 .. BuffSize, size : 0 .. BuffSize, readAmount : 0 .. BuffLimit]

TypeOK ==
  /\ epc \in {"idle", "transfer", "kick", "waitVU", "waitEmpty", "waitGS"}
  /\ fakePackets \in 0 .. MaxPrograms /\ canDoGif \in BOOLEAN
  /\ vuPrograms \in 0 .. MaxPrograms /\ SemaEvent!TypeOK
  /\ gsCommands \in 0 .. MaxPrograms /\ SemEvent!TypeOK
  /\ vpc \in VUPCs
  /\ kicks \in 0 .. MaxKicks /\ size \in 0 .. BuffSize /\ rest \in 0 .. BuffSize
  /\ startP1Packs \in 0 .. MaxPrograms
  /\ gsPack \in Pack /\ curOffset \in 0 .. BuffSize /\ curSize \in 0 .. BuffSize
  /\ readAmount \in Nat /\ gsPackQueue \in Seq(Pack)
  /\ semaXGkick \in 0 .. MaxPrograms
  /\ gpc \in {"wait", "loop", "semWait", "transfer", "pop"}

\* "MTVU: Expected gsPackQueue to have elements!" is never printed: there is a
\* packet in the queue for every token of semaXGkick.
PacketsExpected ==
  /\ gpc = "transfer" => gsPackQueue # <<>>
  /\ Len(gsPackQueue) = semaXGkick + (IF gpc \in {"transfer", "pop"} THEN 1 ELSE 0)
                                   + (IF vpc = "post" THEN 1 ELSE 0)

\* What the VU thread writes, copying a kick or moving the unfinished packet, is
\* never where a finished packet lies that the GS thread has still to read: round
\* the end of the buffer, over a gap, moved to the start.
Pending == IF gpc = "pop" THEN Tail(gsPackQueue) ELSE gsPackQueue
PendingCells ==
  UNION { LET p == Pending[k] IN p.offset .. p.offset + p.size - 1 : k \in DOMAIN Pending }

Written == IF curSize' > curSize THEN curSize .. curSize' - 1
           ELSE IF gsPack'.offset < gsPack.offset /\ vpc # "push" THEN 0 .. curSize' - 1
           ELSE {}

DataIntact == [][Written \cap PendingCells = {}]_vars

\* "Gif Path Buffer Overflow!", the assertion of CopyGSPacketData, never fails: a
\* packet that would not fit was moved to the start, and fits there.
BufferHolds == vpc = "copy" => curSize + size <= BuffSize

\* readAmount is what the pending packets, and the gaps between them, amount to:
\* behind[k] is the sum from the k-th packet on.
Amount(p) == p.size + p.readAmount

ReadAmountAgrees ==
  \E behind \in [DOMAIN Pending -> 0 .. readAmount] :
    LET Behind(k) == IF k > Len(Pending) THEN 0 ELSE behind[k]
    IN /\ \A k \in DOMAIN Pending : Behind(k) = Amount(Pending[k]) + Behind(k + 1)
       /\ readAmount = Behind(1) + IF vpc = "push" THEN Amount(gsPack) ELSE 0

\* Every program gets one command and one packet, whether or not the GIF stalled
\* in between: the GS thread never shows a packet in the place of another.
OneCommandPerProgram ==
  gsCommands + fakePackets + (IF epc = "transfer" THEN 1 ELSE 0)
    = vuPrograms + Len(gsPackQueue) - (IF vpc = "post" THEN 1 ELSE 0)

\* Where a thread stays until another one does something.
VUBlocked ==
  \/ vpc = "wait" /\ vuPhase = "idle" /\ ~vuNotified
  \/ /\ \E pc \in ReadWaits : vpc = ChangePC[pc]
     /\ ~MutexFree \/ Len(gsPackQueue) = startP1Packs

GSBlocked ==
  \/ gpc = "wait" /\ gsPhase = "idle" /\ ~gsNotified
  \/ gpc = "semWait" /\ semaXGkick = 0

EEBlocked ==
  \/ epc = "idle"
  \/ epc = "waitVU" /\ vuWaiter # "released"
  \/ epc = "waitGS" /\ gsWaiter # "released"

\* When none of the threads can move, all programs are done, and the EE waits for
\* nobody.  And mtgsReadWait has something to wait for: with no packet left in the
\* queue there is room.
NoCircle ==
  /\ EEBlocked /\ VUBlocked /\ GSBlocked =>
       epc = "idle" /\ vpc = "wait" /\ vuPrograms = 0 /\ gpc = "wait"
  /\ gsPackQueue = <<>> =>
       /\ vpc \in {"realign", "realignTags"} => RealignSpace
       /\ vpc = "copy" => FrontSpace(size)

\* While the GIF takes every command, the waits of the three threads never close a
\* circle.  (When it stalls they may: the VU thread then has more packets pending
\* than commands, and waits for room that only the EE, in WaitVU, could make.)
NobodyIsStuck == []canDoGif => []NoCircle

\* Then the VU thread does not wait for the GS thread forever, nor does the EE, in
\* WaitVU or WaitGS, for either of them.
WaitsEnd ==
  []canDoGif =>
    /\ (vpc \in ReadWaits) ~> (vpc = "run")
    /\ (epc = "waitVU") ~> (epc = "idle")
    /\ (epc = "waitGS") ~> (epc = "idle")
=============================================================================
