# Formal models of PhoeniSX2's threads

PhoeniSX2 is a PlayStation 2 emulator for ARM descended from PCSX2. Most of it emulates
hardware on one thread, the *EE thread*. What is hard to test is where the other threads
meet it: the GS thread that draws (*MTGS*), the thread that can run vector unit 1
(*MTVU*), the lock-free semaphore they sleep on, the way the GS thread is started, opened,
suspended and ended, and the thread that reads compressed discs ahead. This project models
those parts in TLA+, checks them with TLC, and proves the safety properties of each of them
with TLAPS for every size of its buffers.

Contents: [inventory](#inventory) · [modules](#modules-and-how-they-correspond-to-the-code) ·
[runs and bounds](#runs-bounds-and-what-they-show) · [what the code does not
keep](#where-code-and-comments-disagree) · [fairness](#fairness) · [proofs](#proofs) ·
[limits](#what-is-not-modelled) · [plan](#plan)

## Inventory

### The components that the models cover

| component | state | operations | meets |
|---|---|---|---|
| `WorkSema` (`common/Semaphore.cpp`, `common/Threading.h`) | one atomic `s32`: sleeping, spinning, running with a count of notifications, a flag for a waiter, dead; two kernel semaphores | `NotifyOfWork`, `WaitForWork`, `WaitForWorkWithSpin`, `WaitForEmpty`, `WaitForEmptyWithSpin`, `Kill`, `Reset` | GS thread, VU thread, the renderer's job queues, every `SysThreadBase` |
| GS thread (`pcsx2/MTGS.cpp`) | a ring of quadwords with two atomic positions; a ring signal (enable, position, semaphore); the frame counter, a vsync listener, its semaphore; a tally of words not announced | `PrepDataPacket`/`SendDataPacket`, `Send*Packet`, `GenericStall`, `PostVsyncStart`, `WaitGS`, `ResetGS`; the loop `ExecuteTaskInThread` | EE thread sends, VU thread waits (`WaitGS` with `weakWait`) |
| VU thread (`pcsx2/MTVU.cpp`, `.h`) | a ring of 32-bit words; for each side a private and a published position | `ReserveSpace`, `WaitOnSize`, `Write*`, `ExecuteVU`, `WaitVU`, `Reset`; the loop `ExecuteRingBuffer` | EE thread sends, GS thread through path 1 |
| GIF path 1 (`pcsx2/Gif_Unit.h`) | a buffer with `curOffset`, `curSize`; the packet being built; `readAmount`; `gsPackQueue`; `semaXGkick`; `fakePackets` | `CopyGSPacketData`, `RealignPacket`, `ExecuteGSPacketMTVU`, `FinishGSPacketMTVU`, `mtgsReadWait`; `TransferGSPacketData` and `Execute` on the EE; `GSPACKET` commands on the GS thread | all three threads |
| interrupt mailbox (`pcsx2/Gif_Unit.cpp`, `MTVU.cpp`, `VU1micro.cpp`) | atomics `mtvuInterrupts`, `gsSignal`, `gsLabel`; the EE's CSR, SIGLBLID, VPU_STAT, FBRST | `Gif_HandlerAD_MTVU`, `mVUEBit`/`mVUTBit`, `Get_MTVUChanges`, `gsCSRwrite`, `vu1ExecMicro`, `CTC2` | VU thread writes, EE collects |
| life of the GS thread (`pcsx2/System/SysThreadBase.cpp`, `common/ThreadTools.cpp`, `MTGS.cpp`) | `m_ExecMode`, `m_RunningLock`, `m_mtx_InThread`, `m_sem_Resume`, `m_sem_OpenDone`, `m_Opened`, `m_running`, `m_detached`, the event | `Start`, `Resume`, `WaitForOpen`, `Suspend` (blocking or not), `Cancel`; `StateCheckInThread`, `OnCleanupInThread` in the thread | VMManager's thread opens, suspends and cancels |
| threaded disc reader (`pcsx2/CDVD/ThreadedFileReader.cpp`, `.h`) | the request (pointer, offset, size), `m_running`, `m_quit`, `m_amtRead`, two readahead buffers, a mutex and a condition variable | `Open`, `BeginRead`, `FinishRead`, `ReadSync`, `CancelRead`, `Close`, the destructor; `Loop`, `Decompress`, `GetBlockPtr`, `TryCachedRead` | the thread of the disc drive calls, through `InputIsoFile` |

How they interact: the EE writes into both rings and calls `NotifyOfWork` on each ring's
`WorkSema`. For every VU program it sends a `VU_EXECUTE` packet to the VU thread and a
`MTVU_GSPACKET` command to the GS thread, a placeholder for data that does not exist yet.
The VU thread runs the program, puts its graphics data into the buffer of path 1 and posts
`semaXGkick`; the GS thread, at the placeholder, waits for that token and transfers the
packet. When the buffer is full the VU thread waits for the GS thread. Interrupts that the
data carries go to the EE through the mailbox.

What is hard about them, and what makes each one correct:

* *WorkSema*: lost wake-ups, stale tokens, waiters released early, death of the worker.
  Correct if it is the simple event of `WorkEvent`.
* *MTGS*: a full ring that looks empty; a signal or token of one stall that ends another; a
  sleep with nobody left to wake it; packets not announced. Correct if the ring is a
  queue, every wait ends, and frames are counted.
* *MTVU*: packets must be contiguous, so the ring has gaps; positions are reset by the other
  thread. Correct if the ring is a queue, wherever its end falls.
* *path 1*: three threads, two waits in a possible cycle, free room computed from a sum
  that two threads maintain, a buffer that is realigned in use. Correct if no unread data is
  overwritten, every command meets its own packet, and no cycle of waits closes.
* *mailbox*: several bits, each with data beside it, set and cleared in more than one step.
  Correct if nothing is lost silently and a flag always goes with its data.
* *life of the GS thread*: six locks and semaphores, each the remedy for one race; tokens that
  an earlier call left; a thread told to close while it still opens; a restart while the
  last thread is on its way out. Correct if what a call reported is so until the next one,
  if there are never two threads, and if every call returns.
* *disc reader*: two threads that may both decompress, buffers filled without the mutex,
  results that come half from a buffer and half from the file, a notification sent without
  the mutex. Correct if each read brings its own data, only one thread at a time is in
  `ReadChunk`, and every call returns.

### The other components

`PROJECT.json` lists them all with the reason they are left out. Those with control worth
modelling are the states of `VMManager` and the TCP sessions of the network adapter
(see [plan](#plan)). Hardware emulation on one thread, code generation,
rendering, sound, user interface and configuration are out of scope: their correctness is a
matter of data or of hardware that the repository does not specify. `3rdparty/` is vendored.
The tests under `tests/ctest` exercise memory swizzling and the code emitter, none of the
threads.

## Modules, and how they correspond to the code

```
WorkEvent  <--implements--  WorkSema      <-- WorkSemaProofs
    ^
    | INSTANCE (the event each thread sleeps on)
    +--- MTGS         GS ring             <-- MTGSProofs
    |       |
    |       +--implements--> CommandQueue
    |       |
    +--- MTVU         VU ring             <-- MTVUProofs
    +--- GifPath1     both threads and the EE on path 1 (two instances)
    |                                     <-- GifPath1Proofs <-- GifPath1WaitProofs
    +--- SysThread    life of the GS thread
                                          <-- SysThreadProofs
MTVUInterrupts        the mailbox         <-- MTVUInterruptsProofs
ThreadedFileReader    the disc reader     <-- ThreadedFileReaderProofs
MC*                   one module per specification, for the configurations
```

(`<--` without a word is EXTENDS.) `PROJECT.json`, "map", gives for every definition the lines
it translates. Conventions in all modules: an access to a shared atomic, or to a semaphore, is one step; what a thread
does to its own variables belongs to the step before or after it. `epc`, `vpc`, `gpc`, `wpc`
say where a thread is. Definitions marked *With a bug* are not part of the specification:
each is a plausible mistake which, put in the place of the definition it belongs to, some
property must notice (`PROJECT.json`, "mutants"). Variables called *history* record what properties speak of
and guard no step of the code; two of them (`ahead` of MTVU, `begun` of ThreadedFileReader) state
what the models assume of the caller.

**WorkEvent** is what `WorkSema` promises: a worker that is running, idle or dead, one bit
that says it was notified, and at most one thread waiting for it to be idle.

**WorkSema** is the implementation with the loops of its users. `m_state` is the word of the
code with its numbers, -1 for sleeping, bit 30 for the flag, the minimum of `s32` for dead; a
compare-exchange loop is the one exchange that succeeds. Both kinds of `WaitForWork` are
alternatives of the worker; both kinds of `WaitForEmpty` coincide once failed attempts are
left out. `OnCleanupInThread`/`Kill` and `OnStart`/`Reset` are death and restart. A restart
throws away what is queued, as the owners of the threads do.

**CommandQueue** is what both rings promise: a queue without a limit and a worker that takes each
command once, in order and as it was sent, sleeps only when the queue is empty, and keeps still
from the time `WaitGS` or `WaitVU` returns until the EE goes on. `ImplementsQueue` in `MTGS` and `MTVU` is the
refinement mapping: `queue` is `pending` without the places, `taken` is what *the ring* holds where the
worker reads while it has a packet in hand. An overwritten packet, a position that is off by a word or a ring
that looks empty is therefore a step that the queue does not have.

**MTGS** has the EE's packets (a word, a word with payload, a vsync, a reset, a pointer
packet) with `PrepDataPacket`, `GenericStall` and its two ways to wait, `SendDataPacket`,
`PostVsyncStart`, `WaitGS`, `ResetGS`; and the GS thread's loop with ring signal and safety
valve, one action per access to a shared variable. `ring` holds tags where they lie;
`pending` (history) is the queue it should be, each packet with the place where it lies.
Payload is left out; it enters only as what it adds to the tally.

**MTVU** has `ReserveSpace` with the null packet, `WaitOnSize`, the writes, `CommitWritePos`,
`KickStart`, `WaitVU` and `Reset`, and the VU thread's loop. Packets are told apart by their
length. `pending` (history) is again the queue with its places, `ahead` (history) the words by
which the EE is ahead of the reader. `MaxAhead` bounds it: an assumption about the
*environment*, not a guard of the code; see the finding on `EmptyLooksEmpty`.

**GifPath1** puts the three threads together: rings become counters (MTGS and MTVU
show that they are queues), their semaphores two instances of `WorkEvent`. Buffer positions
are quadwords. `CopyGSPacketData`, `RealignPacket` and `ExecuteGSPacketMTVU` are translated
with their arithmetic; a tag and its data are the whole of a kick. `mtgsReadWait` is the weak
`WaitGS`: announce, count the pending packets, wait for the count to change with
`m_mtx_RingBufferBusy2` free. A kick may be a pair, since a packet may wrap round VU memory
and is then copied in two parts. `GifStall`/`GifResume` stand for whatever makes `CanDoGif`
false for a time: a queued SIGNAL, a pause, the reversed bus. What speaks of waits says "as long
as the GIF takes every command", `[]canDoGif`, in the property, not in the model.

**MTVUInterrupts** has `Gif_HandlerAD_MTVU` on the VU thread and `Get_MTVUChanges` on the EE,
each access to `mtvuInterrupts`, `gsSignal` and `gsLabel` a step; `vu1ExecMicro`, the FBRST
write of `CTC2`, `gsCSRwrite` and GIF transfers of the other paths. A label is a function from
the bits in its mask, so a merge of data and mask is one operator. SIGNALs are numbered; the
register SIGID they set is left out. `queued` is what `gifUnit.gsSIGNAL` holds: a SIGNAL collected
while CSR.SIGNAL is up goes there, in the place of one that waits there already, since
`Get_MTVUChanges` has no guard like that of the EE's own path (Gif_Unit.cpp:71). `delivered` and `dropped`
(history) say which SIGNALs reached SIGID and which were lost out of `gsSIGNAL`. `CTC2` writes the T-bit
enable or resets VU1. A CSR write with several bits is a sequence of the
actions for one bit. Interrupts are not masked.

**SysThread** has the GS thread (`ThreadStep`): it starts, looks at `m_ExecMode` each time its
event wakes it, closes the GS, lets go of `m_RunningLock`, waits for `m_sem_Resume`, opens the
GS, which may fail, and ends where a cancel finds it. And it has VMManager's thread
(`ClientStep`, `Calls`): `WaitForOpen` with its `Resume`, `Start` and timeout, `Freeze`, which
resumes first, the blocking `Suspend` and the one that does not block, `Cancel`. Each look at a
lock, mode or semaphore is a step. So the parked thread looks at its mode in one step (`LookAtMode`)
and blocks in `m_sem_Resume` in the next (`WaitForResume`), which only a token ends, whatever the mode is by
then; a token that an earlier `Resume` left wakes it for nothing. `m_RunningLock` is held by the thread or not; a `Wait` on it is a
step that is possible when it is free. `late` (history) remembers that `WaitForOpen` gave up.

**ThreadedFileReader** counts offsets and sizes in blocks; the file holds at each block the
number of that block, so that wrong data show. What a thread does with the mutex held is one
action, unless it calls `ReadChunk`: that begins and ends in actions of their own
(`StartFill`/`EndFill` through a buffer, `StartDirect`/`EndDirect` straight to where it is wanted,
`StartAheadFill`, `StartAppend` for readahead), because the other thread may come in between,
and each of them may fail, or bring part of a chunk (`Short`). `TryCachedRead` holds the mutex while
it copies from buffer after buffer, and takes a step for each (`CachedRead`): it has looked at the size of a buffer
a step before it copies from it. After `Close2` a `ReadChunk` brings nothing true (`Junk`). `Decompress` runs on the reader or, in `ReadSync`, on the caller:
the same operators with the thread as parameter. Waits on the condition variable may wake
without a notification. `want`, `begun` and `erred` are history.

## Runs, bounds, and what they show

| run | bounds | shows |
|---|---|---|
| `work_sema` | 2 clients, 3 items, at most 4 notifications between two looks | type, no lost wake-up, `WaitForEmpty` means empty, tokens have takers, refinement of `WorkEvent`; all notified work is handled, every wait for empty ends (`WaitsEnd`) |
| `mtgs` | ring of 7, vsync of 2 words, queue 0, spin up to 2 words, tally limit 1 | the ring is the queue of `CommandQueue`; stalls leave no signal behind (the assertions of `GenericStall`); frame counter; the EE never waits for a GS thread that sleeps; waits end and frames are shown (`WaitsEnd`) |
| `mtgs_vsync` | ring of 4, vsync of 3 | *violation*: a vsync stall need not end |
| `mtvu` | ring of 10, packets of 2 and 3 words, safety net 1, EE at most 9 ahead | the ring is the queue of `CommandQueue`, round its end; packets stay whole; no packet and no wait is left to a VU thread that sleeps (`NobodyIsStuck`); waits end; no deadlock |
| `mtvu_lap` | the same with 10 ahead | *violation*: a full ring looks empty |
| `gif_path1` | buffer of 9, limit 7, 2 programs of up to 2 kicks of 2 quadwords, in one piece or in two; the GIF may stall | commands and packets pair up, nothing unread is overwritten, `readAmount` agrees with the queue; as long as the GIF takes every command, no circle of waits (`NobodyIsStuck`), and every `XGKICK`, `WaitVU` and `WaitGS` ends (`WaitsEnd`) |
| `mtvu_interrupts` | 2 label bits, 4 labels, 3 SIGNALs, labels with at most 1 of them, 1 program queued, careful game | flags and data stay together, no SIGNAL is lost in the mailbox unannounced, busy while a T-bit program runs; the mailbox empties and FINISH interrupts (`InterruptsArrive`) |
| `file_reader` | file of 3 chunks of 2 blocks, buffers of 4, reads of 1 and 2 blocks within and across chunks, the last chunk may come short, reads through buffers or straight to memory (`m_internalBlockSize`), no overlapping reads | reads deliver, buffers hold what they say, one thread at a time decompresses, no notification is missed (`NobodyIsStuck`), every call returns, no deadlock |
| `file_reader_overlap` | the same, two reads in different chunks, `BeginRead` may overlap | *violation*: a read returns with another one's data |
| `file_reader_close` | the same as `file_reader` | *violation*: the reader decompresses while `Close` closes the file |
| `sys_thread` | at most 3 tokens of `m_sem_Resume` when a VM starts | reports are true, no call needs a timeout (`NobodyIsStuck`), every call returns, no deadlock |
| `mtvu_interrupts_careless` | no SIGNAL, 2 programs, any game | *violation*: VPU_STAT is cleared by an earlier program's end |

Why these bounds are enough for what they are meant to show:

* *work_sema*: what can happen between two accesses of the worker depends on whether there
  was no notification, one or several, and from whom; two clients and three items give all
  of these before, during and after a wait. The proofs need no bound but the one that keeps
  the count clear of bit 30.
* *mtgs*: in a ring of 7 with packets of 1 and 2 words every alignment to the end occurs, a
  one-word packet stalls by spinning, a vsync on the signal, and a second vsync stalls on
  the frame count. `FramesCounted` has the bound `VsyncQueueSize + 2`, which is sharp: the
  frame that the EE stalls on, and one more because the GS thread lowers the counter
  and answers the listener in two steps, so that one frame may pay for two stalls.
* *mtvu*: 2 and 3 are coprime, so packets come to lie across every place near the end.
* *gif_path1*: packets of up to 4 quadwords in 9 force realignment, copies in front of
  unread data and gaps between limit and size. A program must stay below half the buffer:
  otherwise the code may wait for room that only the program itself takes (9 MB in the code).
  This is the condition `HalfFits` under which `NobodyIsStuck` is proved. Kicks have one length here, in one piece
  or in two; the proofs are for kicks of any sizes.
* *file_reader*: a buffer has room for two chunks, so readahead appends to one and goes on in
  the other; of the three chunks one is always missing; reads lie in the first buffer, in the second,
  across both, or half in the file, and the last one ends with the file. The chunk there may be short, so that
  a read and readahead each meet a short chunk, behind whole ones and alone.
* *sys_thread*: the model is finite but for the stale tokens of `m_sem_Resume`, of which every
  start and every `Freeze` may leave one; the thread takes them one by one, looking
  at its mode after each (`LookAtMode`), so three differ from one in nothing but their number. The proofs need no bound.
* *mtvu_interrupts*: the bits of a label do not influence one another, so two tell a merge from
  a replacement; the second is only ever written as 0, which halves the states. Three SIGNALs
  are the least for one to be delivered, the next to wait in `gsSIGNAL` and the third to replace it. SIGNALs and labels
  share the word of flags only, so one SIGNAL among the labels shows how they interleave; the other two come in
  behaviours without labels (`MixedSignals`).

`CHECK_DEADLOCK FALSE` is said where the system may stop: `work_sema` (the bounded clients have
nothing more to push), `mtgs` and `mtgs_vsync` (the missed vsync wake-up is itself a stop),
`gif_path1` (after a stall of the GIF the VU thread may wait for room that only the EE can make),
`mtvu_interrupts_careless` (its two programs come to an end). In all other runs TLC looks for
deadlocks; in `file_reader` the end of the object is a step that repeats (`Terminated`).

Each property of a passing run has a mutant in `PROJECT.json`: a changed definition under
which TLC finds that property violated.

## Where code and comments disagree

1. **`VsyncWakes`** (`mtgs_vsync`). `PostVsyncStart` counts the frame (MTGS.cpp:173), then raises its
   listener (176), then sleeps (179). The GS thread may draw the frame, find no listener, pass
   the safety valve, of which the comment says it "ensures the EEcore won't sleep the
   eternity" (503), and sleep, all before line 176. Nobody wakes the EE.
2. **`EmptyLooksEmpty`** (`mtvu_lap`). MTVU.h:28 says the ring has no pending packets when the
   positions are equal. After the null packet the EE starts at 0 without asking whether the
   reader is still there (MTVU.cpp:214): a full lap looks like an empty ring. The FIXME at
   MTVU.cpp:216 suspects "a bug somewhere in the queue pointer management". With 16 MB it takes a
   VU thread that is 16 MB behind; one word less than a lap is safe (theorem `EmptyIsEmpty`).
3. **`BusyWhileTBit`** (`mtvu_interrupts_careless`). VU1micro.cpp:66 wants VPU_STAT busy while a T-bit
   program may stop; the `Get_MTVUChanges` at the start of `ExecuteVU` collects the end of
   an earlier program and clears the bit that `vu1ExecMicro` has just set. A game that
   switches the T bit only when VU1 is really done is safe (`mtvu_interrupts`, `CarefulGame`).
4. **`OverlapDetected`** (`file_reader_overlap`). The comment at ThreadedFileReader.cpp:90-92 says that
   the exchange of `m_requestPtr` detects a request that came in during a decompression. It
   compares the pointer alone, and `InputIsoFile` always reads into the same buffer
   (InputIsoFile.cpp:84): the second request looks like the first, is taken for done, and
   `FinishRead` returns with the first one's data. Without overlapping reads the data are
   right, which is proved (`ReadsAreDelivered`).
5. **`ReaderStopped`** (`file_reader_close`). ThreadedFileReader.h:104 says of `CancelAndWaitUntilStopped` "Cancel
   any inflight read and wait until the thread is no longer doing anything". It waits while `m_running`
   (ThreadedFileReader.cpp:306), which the reader sets when it takes a request, not when the request is posted. A
   `ReadSync` that decompressed on its own posts one for readahead as it returns; a `Close` right behind
   it finds `m_running` false and closes the file, and the reader takes the request and decompresses.

## Fairness

* Threads are scheduled: weak fairness on the steps of the worker, of the GS thread, of the
  VU thread, and on the EE's steps *inside* an operation (`EEContinues`). Nothing obliges the
  EE to begin an operation, a client to push, or a thread to die or be restarted. Operating
  system threads with blocking semaphores justify that; spin loops are loops that poll.
* `MTVUInterrupts`: `Get_MTVUChanges` is called by the event test (R5900.cpp, through
  VUmicro.cpp), again and again whatever the game does, hence weak fairness on it. A GIF
  transfer comes to its end, though the EE does other things in between and the step is not
  always possible: strong fairness. The VU thread goes on once it has begun a register
  write; it need not write any.
* `ThreadedFileReader`: strong fairness on the steps of the reader and on those of the caller
  inside a call. Each needs the mutex again and again while the other lets go of it again and
  again, and a condition variable that keeps waking for nothing could otherwise keep the mutex
  from the other for ever. `ReadChunk` ends. Nobody has to call, and no condition variable has to
  wake without a notification.
* `SysThread`: weak fairness on the thread and on the client inside a call. Nobody has to start a
  VM, save or shut down; the timeout need not expire, so that no call needs it to return.
* Memory is sequentially consistent. The code's orders are weaker; what follows from
  `relaxed` accesses is out of these models' reach.

## Proofs

`WorkSemaProofs` proves, for every set of clients and all bounds (`WorkSemaAssumption`: the
waiter is a client, the count stays clear of bit 30):

* `TypeCorrect`, `NoWakeupIsLost`, `EmptyIsEmpty`, `TokensAreTaken`: the four invariants of
  the run `work_sema`;
* `Refinement`: `Spec => ImplementsWorkEvent`, that the semaphore is the event of `WorkEvent`.

None of the invariants is inductive. `IInv` adds what ties the parts together:
`StateMatchesWorker`, which states the word can be in at each place of the worker;
`WakeTokens`, that a sleeping worker whose word was made non-negative has *exactly one*
wake-up under way, a token or one client about to post it; `EmptyTokens`, that the waiter is
owed exactly one release, by the flag, by a worker about to post, or by a token;
`WorkIsCounted`, that what was notified and is not done shows in the word; and
`ReleasedIsDrained`, that a released waiter sees drained work or a dead worker. Without
`WakeTokens` one could not exclude two posts for one sleep; without `EmptyTokens` a stale
release. `NextIInv` has one step for every action; `Inductive` concludes. The refinement uses
`IInv` for the mapping: each action is a step of `WorkEvent` or a stutter.

Five modules prove a `NobodyStaysStuck`: that `NobodyIsStuck` holds, whatever the sizes. It is the part of "every wait
ends" that is a safety property: when one side waits, the other can move. That it then *does* move, and
that its moves lead to the end of the wait, is liveness and stays with TLC. Each is an invariant of its
own (`WInv` in most modules) on top of the one of the module, since locks, counters and positions
say what somebody waits for, but not whether the one who can bring it has been *told*.

`MTVUInterruptsProofs` proves, for a label register of any finite set of bits, any non-empty
labels written and any bounds (`MTVUInterruptsAssumption`), the four invariants of the run
`mtvu_interrupts`: `TypeCorrect`, `LabelsAreNotLost`, `LossesAreAnnounced`, `BusyIsShown`.

* `Stages` is what they share: the EE alone clears flags, so what it loaded in
  `Get_MTVUChanges` and has not handled is still flagged. Without it, a flag that the EE goes
  on to handle might have gone.
* `LabelsAddUp` is inductive by itself, given the types: writing over is associative
  (`WriteOverTwice`), so merging on one side and taking on the other amount to the same.
* `LossIsAnnounced` needs `SignalsInOrder`: between the check and the store, `gsSignal` holds the
  last SIGNAL, and a flag seen up means the new one was announced; what the EE loaded is
  older than `gsSignal` only if everything since was announced. So a store that overwrites, and
  a flag cleared for a SIGNAL that came after the load, lose nothing unannounced. The property is exact about
  what else is lost: a SIGNAL that waits in `gsSIGNAL` (`queued`) when the next is collected, or when the game
  resets the GS, is `dropped`, and nothing in the code says so.
* `BusyWhileTBit` needs `OneTBitProgram`: while the T bit is enabled, at most one program is being
  started, queued, running or ended and not collected, and VPU_STAT is busy in each of
  these. It holds only under `CarefulGame`, the hypothesis of the theorem; the run
  `mtvu_interrupts_careless` shows that it cannot be left out.

`MTGSProofs` proves `TypeCorrect`, `PacketsAreKept` (`RingHoldsPending`), `StallsAreClean`,
`FramesAreCounted` and `WaitGSIsDone` (`WaitGSDrains`) for every ring, vsync packet, vsync queue,
spin limit and tally limit; nothing is assumed beyond `MTGSAssumption`.

* Positions wrap, so nothing is said about which is greater. `Distance` counts a position from the
  reader; `Span` says that the pending packets follow one another from the reader to the
  writer. Three lemmas are all the steps need: a packet joins a span (`Append`), leaves it
  (`Tail`), and a write beyond the span leaves it alone. Sums over the sequence, which would
  need induction, do not occur: a packet is placed where the last one ends.
* `IInv` adds what is under way: `Placement` and `Written`, the packet being sent; `Room`, that a
  stall has left what the packet needs and one word more (without it a full ring would look
  empty); `Reading`, the GS thread's private position; `Awake` and `Quiet`, that a GS thread that sleeps
  has executed all that was announced; `RingSignals` and `VsyncSignals`, that of an armed signal, one
  on its way and a token there is at most one; `Counted`, the frame counter at each step of
  either thread; `Bounded`.
* `Refinement`: `Spec => ImplementsQueue`. Every step of `MTGS` is one of `CommandQueue` or leaves its variables
  alone. `Placement` and `RingHoldsPending` show that the ring holds at the reader what the queue has at its head,
  while the writer fills what is free; `Awake` and `Quiet` give the sleeping worker its empty queue.
* `NobodyStaysStuck` adds `SpinIsSeen`, that an EE that spins has notified a GS thread that rests or is about
  to; `SignalIsDue`, that a stalled EE has its signal armed, on its way or posted; `ArmedIsSeen`, that a GS thread
  which has passed the safety valve with the signal armed will come back to it; and `WaiterIsDue` for `WaitGS`.
  Without the valve `SignalIsDue` would not be enough: the ring may be empty before the signal's position is
  counted down. It does not speak of the wait for a vsync, where the code does leave the EE (`VsyncWakes`).
* `Bounded` explains the number `VsyncQueueSize + 2`: the EE stalls once the counter has passed the limit,
  and the GS thread, which lowers the counter before it answers the listener, may let it go on for
  a frame that was already paid for.

`MTVUProofs` proves `TypeCorrect`, `EmptyIsEmpty`, `PacketsAreKept` (`RingHoldsPending`) and `WaitVUIsDone`
(`WaitVUDrains`) for every size of buffer, packets and safety net, if `MaxAhead < BufferSize`, which the
run `mtvu_lap` shows to be needed.

* Packets are contiguous here and there is a gap at the end, so distances do not help. `Lap`
  says where packets lie in terms of positions: each begins where the one before it ends
  (`Linked`); no two overlap (`AllApart`); all lie on the side of reader and writer where
  they should (`AllInLap`); and the writer is in front of the reader exactly if a null packet is
  pending, which lies behind all others (`NullLeads`).
* `IInv` adds, as for MTGS, `BufferKeeps`, `Placement`, `Written`, `WrittenHolds`, `Fits`, `Room`, `Reading`, `Awake` and
  `Quiet`. The proof never uses the safety net of `WaitOnSize`: the ring is a queue without it.
* `Refinement`: `ImplementsQueue` under the same condition. The null packet, its skipping and a reset change
  nothing that the queue sees.
* `NobodyStaysStuck`: what lies in the ring of a VU thread that sleeps waits only for a kick which the EE is on its
  way to, also in the loop of `WaitOnSize` (`Awake`); with nothing in the ring the positions agree (`Linked`), so that there is
  room; and `WaiterIsDue` is for `WaitVU`.

`GifPath1Proofs` proves the six properties of `gif_path1` that hold whether or not the GIF stalls, for kicks of any
size. It has two arguments that do not depend on one another.

* `Pairs` counts: commands, programs, packets and tokens, with each thread's place. It gives
  `TokensHavePackets` (`PacketsExpected`) and `CommandsArePaired` (`OneCommandPerProgram`).
* `Accounts` says where the packets lie that the GS thread has still to read, *by the amount that
  readAmount has for them*: a pending packet lies as far behind the unfinished one as the
  packets and gaps from it on amount to; or, when the buffer has wrapped in between, in front of
  the unfinished one by what that amount leaves of the limit (`Lies`). That is just what the code
  relies on when it computes free room from a sum (`FrontSpace`, `RealignSpace`), and each step
  of the VU thread, and each packet read, keeps it. The sum itself is a function with a
  recursive equation (`Sums`), existentially quantified, so that no induction is needed. It gives
  `ReadAmountIsTheSum` and `DataAreSafe` (`DataIntact`), which need no bound on programs.
* `BufferSuffices` (`BufferHolds`) and `TypeCorrect` need one, `ProgramsFit`: all that a program may kick stays
  within the limit. Then `Bounds` holds: what a program has copied and may still copy never
  reaches the limit, so its packet is moved at most once. In the code VU memory bounds a
  kick (16 KB), the buffer is 9 MB, and nothing bounds the number of kicks.

`GifPath1WaitProofs` proves `NobodyStaysStuck` for the three threads, as long as the GIF takes every command (which
`NobodyIsStuck` says itself) and if all that a program may kick is at most half the buffer (`HalfFits`). The model shows why both are needed: commands that are
held back are sent by the EE, which may be in `WaitVU`, and those sent after a stall need not be announced to a GS
thread that sleeps; and a larger program may have to wait for its own data.

* `Awaited`, `Kicked` and `Asked` say who has been told: a thread that the EE waits for is awake or notified, programs
  that are queued are known to the VU thread, and a VU thread that waits for packets to be read has woken the
  GS thread. `Pairs` of `GifPath1Proofs` then says that there are commands for these packets, with their tokens.
* The second half of `NobodyIsStuck`, that there is room once the queue of packets is empty, needs `Advances` and
  `GapIsFar`: a packet that was moved to the start of the buffer will end before the place where its gap began.

`SysThreadProofs` proves `ReportsAreTrue`, `TypeCorrect` and `NoTwoThreads` without a bound on tokens. The
invariant ties locks, mode and `m_Opened` to the place of the thread (`LocksMatchThread`,
`ModeMatchesThread`, `OpenMatchesThread`) and to that of the client (`ClientOfThread`, `ModeMatchesClient`); what
is left is the order of closing: `ResumeIsSafe`, that a client about to set the mode has a thread
that is parked; `ClosingIsFinal`; and for the timeout `LateIsClosed` and `InTimeIsAtWork`. `NobodyStaysStuck` adds
`CloseIsSeen`, that a thread told to close is notified unless it has seen it; `OpenIsDue`, that the thread is on
its way to post `m_sem_OpenDone` from the time VMManager sets the mode until it waits; `TokenIsDue`, that a thread
asleep on `m_sem_Resume` with the mode changed behind its back has a token, or `Resume` about to post
one; `FreezeFindsItOpen`, that a `Resume` before a savestate, when it returns at once, has found an open
GS; and what the event's phase is at each place (`PhaseMatches`). So the timeout of `WaitForOpen` is needed for a `GSopen` that hangs only, not for any order
of the two threads' steps.

`ThreadedFileReaderProofs` proves, for files, chunks, buffers and reads of every size, with any chunks short and
whenever `Close` comes, `TypeCorrect`, `ReaderIsAlone` and `BuffersAreTrue`, and `ReadsAreDelivered` if `Overlapping = {}`.

* `Exclusion` says that `m_running` is true exactly while the reader is outside its wait, and that
  the caller decompresses or closes only while it is false; `RequestFits`, `JobsFit` and `AheadFits` keep
  requests, calls of `Decompress` and readahead in file and memory; `HeldFits`, that a buffer which is copied from
  begins where it should, and one that is being filled counts as empty.
* `ReadFits` is what the mutex gives to `TryCachedRead`: the buffer it has looked at has not shrunk when
  it comes to copy from it.
* `BuffersTrue`, of the time while the file is open, is inductive with these.
* Delivery needs to know what has been done at each place: `CallStages` for the caller, `ReaderServes`
  for the reader (while it serves a request, its job is that request),
  `Progress` for the part of the memory that already holds what was asked for, with `CacheProgress` for what
  `TryCachedRead` has copied so far.

* `NobodyStaysStuck` does not need that reads do not overlap. What makes the condition variable work
  is in five facts: `Running` and `OneHolder` tie flag and mutex to the places of the threads; `RequestsAreSeen`, that the
  reader goes to sleep with no request posted; `QuitIsSeen`, that between `m_quit = true`, set without the mutex, and its
  notification lies a pass through the mutex; and `EndIsSeen`, that a caller asleep with its request done has the second
  notification, the one under the mutex, still to come: the first may be missed.

By TLC alone: liveness under fairness (`WaitsEnd`, `InterruptsArrive`, `CallsReturn`), which is out of the prover's
reach; and absence of deadlock as TLC looks for it, that some thread always has a step, of which the
theorems `NobodyStaysStuck` are the part that matters.

## What is not modelled

Beyond the components listed as such in `PROJECT.json`:

* MTGS: its opening and closing (SysThread has them); savestate packets, FIFO
  reads, async calls; `SynchronousMTGS`, which waits after each packet; the copy of registers
  in `WaitGS`; the race on `m_CopyDataTally` with the VU thread.
* MTVU: the contents of packets, the estimate of VU cycles.
* GifPath1: paths 2 and 3 and arbitration, which the EE alone performs; packets whose tags
  are incomplete at the end of a kick; savestates.
* MTVUInterrupts: SIGID, masks, the D bit, the reset of the GIF by GIF_CTRL, a reset of the machine. A reset clears
  `mtvuInterrupts` but not `gsLabel` (MTVU.cpp:120), listed as a hazard.
* SysThread: `Pause` and its states (only `SysCoreThread.cpp` asks for them, which the build that has
  VMManager, `PCSX2_CORE`, does not compile), `m_ExecModeMutex` (there is one client), the three seconds for which a creator waits
  for `m_sem_startup`, exceptions thrown in the thread. Three things the model shows, all in
  the code, none contradicting a document:
  - after the timeout of `WaitForOpen` a `GSopen` that ends late sets `m_Opened` in a thread told to
    close; a retry believes it. `ReportIsTrue` therefore excepts a retry after a timeout (`late`);
  - `Start` while the last thread has not yet set `m_running` to false does nothing, and `Resume`
    throws `ThreadCreationError` (`StartTooSoon`);
  - `OnCleanupInThread` releases `m_RunningLock`, which a parked thread does not hold.
* ThreadedFileReader: blocks of bytes instead of bytes; `realloc` and the capacity of buffers,
  `SetBlockSize`, `SetDataOffset`, reads past the end of the file. `m_requestCancelled` is
  written and never read. There is one caller, and `Close` is followed by the end of the object. That the
  buffers are freed under a reader that goes on after `Close` is not modelled beyond wrong data.
* Compare-exchange failures that are spurious, and weak memory.

## Plan

Done: `WorkEvent`, `WorkSema`, `CommandQueue`, `MTGS`, `MTVU`, `GifPath1`, `MTVUInterrupts`, `SysThread` and `ThreadedFileReader`,
each with the proofs of its safety properties, the rings with that of their refinement.

What is worth proving next: that `ThreadedFileReader` implements a disc that answers each `BeginRead` with its data, one
step for a whole read; and that `SysThread` implements a device which is closed, opening or open. Both have
the invariants for it (`ReadsDeliver`, `ReportIsTrue`), so the abstract specification and the mapping are what is missing.

What is worth modelling next, in this order:

1. *TCP_Session*: the connection states, the history of sequence numbers that two threads share,
   close from either side; runs with loss and reordering on the guest's side. The peer is a
   socket of the host and would be an external module.
2. *VMManager*: its states on top of `SysThread`, with the user interface as a second client;
   then `m_ExecModeMutex` has to be modelled too.
3. The composition of `SysThread` with `MTGS`: a `WaitGS` that finds the thread dead
   (MTGS.cpp:598), and asynchronous calls that nobody announces (MTGS.cpp:892).
