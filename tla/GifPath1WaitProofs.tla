------------------------- MODULE GifPath1WaitProofs -------------------------
(***************************************************************************)
(* Proof that the three threads of GifPath1 never wait for one another in  *)
(* a circle, when the GIF takes every command and no program is larger     *)
(* than half the buffer: NobodyIsStuck.                                    *)
(*                                                                         *)
(* Whoever has something to wait for was noticed by the thread that can    *)
(* bring it: the EE kicks the VU thread for each program, a VU thread that *)
(* waits for packets to be read has notified the GS thread, and then there *)
(* are more commands than the GS thread may leave undone.                  *)
(***************************************************************************)
EXTENDS GifPath1Proofs

\* A program that moves to the start of the buffer finds it free up to where it was.
HalfFits ==
  \E n \in Nat : /\ Fitting(n)
                 /\ 2 * (MaxKicks * n) <= BuffSize /\ 2 * (MaxKicks * n) <= BuffLimit + 1

-----------------------------------------------------------------------------
(* The invariant *)

\* Where mtgsReadWait counts the packets, and where it waits for another number.
Counting == {"realignCount", "realignTagsCount", "copyCount"}
Comparing == {"realignChange", "realignTagsChange", "copyChange"}

\* A thread that the EE waits for is awake, or notified and about to be.
Awaited ==
  /\ vuPhase # "dead" /\ gsPhase # "dead"
  /\ epc = "waitVU" <=> vuWaiter # "none"
  /\ epc = "waitGS" <=> gsWaiter # "none"
  /\ vuWaiter = "waiting" => vuPhase = "running" \/ vuNotified
  /\ gsWaiter = "waiting" => gsPhase = "running" \/ gsNotified

\* No command is held back.
NotStalled == canDoGif = TRUE /\ fakePackets = 0

\* A VU thread with a program to run knows it, or is about to be told.
Kicked ==
  vpc = "wait" /\ vuPrograms > 0 => vuNotified \/ epc \in {"transfer", "kick"}

\* While the VU thread waits for packets to be read, the GS thread does not sleep.
Asked ==
  vpc \in Counting \cup Comparing /\ gsPackQueue # <<>> /\ gpc = "wait" => gsNotified

Compared == vpc \in Comparing => startP1Packs > 0

WaitInv ==
  /\ Awaited
  /\ NotStalled
  /\ Kicked
  /\ Asked
  /\ Compared

-----------------------------------------------------------------------------
(* Steps *)

LEMMA ReadWaitSteps ==
  /\ ReadWaitNotify => vpc \notin Counting \cup Comparing /\ vpc' \in Counting
  /\ ReadWaitCount => /\ vpc \in Counting
                      /\ gsPackQueue = <<>> => vpc' \in ReadWaits
                      /\ gsPackQueue # <<>> => vpc' \in Comparing
  /\ ReadWaitChange => vpc \in Comparing /\ vpc' \in ReadWaits
<1>1. ReadWaits = {"realign", "realignTags", "copy"}
    BY WaitPlaces
<1>2. \A pc \in ReadWaits : /\ NotifyPC[pc] \notin Counting \cup Comparing
                            /\ CountPC[pc] \in Counting /\ ChangePC[pc] \in Comparing
    BY <1>1 DEF NotifyPC, CountPC, ChangePC, Counting, Comparing
<1>3. ASSUME ReadWaitNotify PROVE vpc \notin Counting \cup Comparing /\ vpc' \in Counting
    BY <1>2, <1>3 DEF ReadWaitNotify, VUMoves
<1>4. ASSUME ReadWaitCount
      PROVE  /\ vpc \in Counting
             /\ gsPackQueue = <<>> => vpc' \in ReadWaits
             /\ gsPackQueue # <<>> => vpc' \in Comparing
  <2>1. PICK pc \in ReadWaits :
          VUMoves(CountPC[pc], IF gsPackQueue = <<>> THEN pc ELSE ChangePC[pc])
      BY <1>4 DEF ReadWaitCount
  <2> QED
      BY <1>2, <2>1 DEF VUMoves
<1>5. ASSUME ReadWaitChange PROVE vpc \in Comparing /\ vpc' \in ReadWaits
  <2>1. PICK pc \in ReadWaits : VUMoves(ChangePC[pc], pc)
      BY <1>5 DEF ReadWaitChange
  <2> QED
      BY <1>2, <2>1 DEF VUMoves
<1> QED
    BY <1>3, <1>4, <1>5

\* The other steps of the VU thread neither begin nor end a wait.
LEMMA OtherPlaces ==
  ASSUME \/ VUWaitForWork \/ VURingEmpty \/ ExecuteProgram \/ XGKICK \/ RealignPacket
         \/ RealignMustWait \/ CopyGSPacketData \/ CopyMustWait \/ ExecuteGSPacketMTVU
         \/ FinishReadAmount \/ FinishPush \/ PostXGkick
  PROVE  vpc' \notin Counting \cup Comparing
  BY DEF Counting, Comparing, VUWaitForWork, VURingEmpty, ExecuteProgram, XGKICK,
     RealignPacket, RealignMustWait, CopyGSPacketData, CopyMustWait, ExecuteGSPacketMTVU,
     FinishReadAmount, FinishPush, PostXGkick, VUMoves, BeginCopy

LEMMA AwaitedStep ==
  ASSUME IInv, WaitInv, Next
  PROVE  Awaited'
<1>1. Awaited /\ SemaEvent!TypeOK /\ SemEvent!TypeOK
    BY DEF WaitInv, IInv, Places
<1> USE DEF Awaited, SemaEvent!TypeOK, SemEvent!TypeOK, vuEvent, gsEvent
<1>2. CASE TransferGSPacketData
    BY <1>1, <1>2 DEF TransferGSPacketData, SendFakePackets, EEMoves, SemEvent!Notify
<1>3. CASE KickStart
    BY <1>1, <1>3 DEF KickStart, EEMoves, SemaEvent!Notify
<1>4. CASE WaitForEmpty
    BY <1>1, <1>4 DEF WaitForEmpty, SemEvent!EmptyAtOnce, SemEvent!EmptyWait, SemEvent!vars
<1>5. CASE WaitReturns
    BY <1>1, <1>5 DEF WaitReturns, EEMoves, SemEvent!EmptyReturn, SemaEvent!EmptyReturn
<1>6. CASE ExecuteVU \/ GifStall
    BY <1>1, <1>6 DEF ExecuteVU, GifStall, EEMoves
<1>7. CASE GifResume
    BY <1>1, <1>7 DEF GifResume, SendFakePackets, SemEvent!Notify
<1>8. CASE WaitVU
    BY <1>1, <1>8 DEF WaitVU, SemaEvent!EmptyAtOnce, SemaEvent!EmptyWait, SemaEvent!vars
<1>9. CASE WaitGS
    BY <1>1, <1>9 DEF WaitGS, EEMoves, SemEvent!Notify
<1>10. CASE VUWaitForWork
  <2>1. UNCHANGED <<epc, gsEvent>>
      BY <1>10 DEF VUWaitForWork, VUOnly, eeVars
  <2> QED
      BY <1>1, <1>10, <2>1 DEF VUWaitForWork, SemaEvent!GoOn, SemaEvent!WakeUp,
         SemaEvent!GoIdle, SemaEvent!Release
<1>11. CASE GSWaitForWork
  <2>1. UNCHANGED <<epc, vuEvent>>
      BY <1>11 DEF GSWaitForWork, GSOnly, eeVars
  <2> QED
      BY <1>1, <1>11, <2>1 DEF GSWaitForWork, SemEvent!GoOn, SemEvent!WakeUp,
         SemEvent!GoIdle, SemEvent!Release
<1>12. CASE ReadWaitNotify
  <2>1. UNCHANGED <<epc, vuEvent>> /\ SemEvent!Notify
      BY <1>12 DEF ReadWaitNotify, VUOnly, eeVars
  <2> QED
      BY <1>1, <2>1 DEF SemEvent!Notify
<1>13. CASE \/ VURingEmpty \/ ExecuteProgram \/ XGKICK \/ RealignPacket \/ RealignMustWait
            \/ CopyGSPacketData \/ CopyMustWait \/ ExecuteGSPacketMTVU \/ ReadWaitCount
            \/ ReadWaitChange \/ FinishReadAmount \/ FinishPush \/ PostXGkick
  <2>1. UNCHANGED <<epc, vuEvent, gsEvent>>
      BY <1>13 DEF VURingEmpty, ExecuteProgram, XGKICK, RealignPacket, RealignMustWait,
         CopyGSPacketData, CopyMustWait, ExecuteGSPacketMTVU, ReadWaitCount, ReadWaitChange,
         FinishReadAmount, FinishPush, PostXGkick, VUOnly, eeVars
  <2> QED
      BY <1>1, <2>1
<1>14. CASE GSRingEmpty \/ TryWaitXGkick \/ WaitXGkick \/ TransferPacket \/ PopPacket
  <2>1. UNCHANGED <<epc, vuEvent, gsEvent>>
      BY <1>14 DEF GSRingEmpty, TryWaitXGkick, WaitXGkick, TransferPacket, PopPacket, GSOnly,
         eeVars
  <2> QED
      BY <1>1, <2>1
<1> QED
    BY <1>2, <1>3, <1>4, <1>5, <1>6, <1>7, <1>8, <1>9, <1>10, <1>11, <1>12, <1>13, <1>14,
       Steps

LEMMA NotStalledStep ==
  ASSUME IInv, WaitInv, Next, canDoGif'
  PROVE  NotStalled'
<1>1. NotStalled
    BY DEF WaitInv
<1>2. CASE EEContinues \/ EEBegins
    BY <1>1, <1>2 DEF NotStalled, EEContinues, EEBegins, TransferGSPacketData, KickStart,
       WaitForEmpty, WaitReturns, ExecuteVU, GifStall, GifResume, WaitVU, WaitGS,
       SendFakePackets
<1>3. CASE VUThread \/ GSThread
    BY <1>1, <1>3, VUOwns, GSOwns DEF NotStalled, eeVars
<1> QED
    BY <1>2, <1>3 DEF Next

LEMMA KickedStep ==
  ASSUME IInv, WaitInv, Next
  PROVE  Kicked'
<1>1. Kicked /\ vuPhase # "dead" /\ vuPrograms \in Nat
    BY DEF WaitInv, Awaited, IInv, Counters
<1>2. CASE ExecuteVU
    BY <1>2 DEF ExecuteVU, EEMoves, Kicked
<1>3. CASE TransferGSPacketData
    BY <1>3 DEF TransferGSPacketData, EEMoves, Kicked
<1>4. CASE KickStart
    BY <1>1, <1>4 DEF KickStart, SemaEvent!Notify, Kicked
<1>5. CASE WaitForEmpty \/ WaitReturns \/ GifStall \/ GifResume \/ WaitVU \/ WaitGS
  <2>1. UNCHANGED <<vpc, vuPrograms>>
      BY <1>5, EEOwns DEF EEContinues, EEBegins, WaitForEmpty, WaitReturns, GifStall,
         GifResume, WaitVU, WaitGS
  <2>2. UNCHANGED vuNotified /\ epc \notin {"transfer", "kick"}
      BY <1>5 DEF WaitForEmpty, WaitReturns, GifStall, GifResume, WaitVU, WaitGS, EEMoves,
         SemaEvent!EmptyReturn, SemaEvent!EmptyAtOnce, SemaEvent!EmptyWait, SemaEvent!vars,
         vuEvent
  <2> QED
      BY <1>1, <2>1, <2>2 DEF Kicked
<1>6. CASE VUWaitForWork
  <2>1. UNCHANGED <<epc, vuPrograms>>
      BY <1>6 DEF VUWaitForWork, VUOnly, eeVars
  <2> QED
      BY <1>1, <1>6, <2>1 DEF VUWaitForWork, SemaEvent!GoIdle, Kicked
<1>7. CASE VURingEmpty
    BY <1>7 DEF VURingEmpty, Kicked
<1>8. CASE \/ ExecuteProgram \/ XGKICK \/ RealignPacket \/ RealignMustWait
           \/ CopyGSPacketData \/ CopyMustWait \/ ExecuteGSPacketMTVU
           \/ FinishReadAmount \/ FinishPush \/ PostXGkick
  <2>1. vpc' # "wait"
      BY <1>8 DEF ExecuteProgram, XGKICK, RealignPacket, RealignMustWait, CopyGSPacketData,
         CopyMustWait, ExecuteGSPacketMTVU, FinishReadAmount, FinishPush, PostXGkick,
         VUMoves, BeginCopy
  <2> QED
      BY <2>1 DEF Kicked
<1>9. CASE ReadWaitNotify \/ ReadWaitCount \/ ReadWaitChange
  <2>1. vpc' # "wait"
      BY <1>9, ReadWaitMoves, WaitPlaces
  <2> QED
      BY <2>1 DEF Kicked
<1>10. CASE GSThread
    BY <1>1, <1>10, GSOwns DEF Kicked, eeVars, vuEvent
<1> QED
    BY <1>2, <1>3, <1>4, <1>5, <1>6, <1>7, <1>8, <1>9, <1>10, Steps DEF GSThread

\* The packets that the VU thread waits for all have their commands in the ring, and so
\* has the program it runs, but for the one command that the EE is about to send.
LEMMA CommandsAreThere ==
  ASSUME IInv, NotStalled, vpc \in Counting \cup Comparing, gsPackQueue # <<>>
  PROVE  gsCommands > 0
<1>1. vuPrograms >= 1 /\ vpc # "post"
    BY DEF IInv, Working, Counting, Comparing
<1>2. Len(gsPackQueue) \in Nat /\ Len(gsPackQueue) >= 1
    BY QueueFacts
<1> QED
    BY <1>1, <1>2 DEF IInv, Pairs, OneCommandPerProgram, NotStalled, Counters

LEMMA AskedStep ==
  ASSUME IInv, WaitInv, Next
  PROVE  Asked'
<1>1. Asked /\ NotStalled /\ gsPhase # "dead"
    BY DEF WaitInv, Awaited
<1>2. CASE EEContinues \/ EEBegins
  <2>1. UNCHANGED <<vpc, gsPackQueue, gpc>>
      BY <1>2, EEOwns DEF queueVars
  <2>2. gsNotified => gsNotified'
      BY <1>1, <1>2 DEF EEContinues, EEBegins, TransferGSPacketData, KickStart, WaitForEmpty,
         WaitReturns, ExecuteVU, GifStall, GifResume, WaitVU, WaitGS, SendFakePackets,
         SemEvent!Notify, SemEvent!EmptyAtOnce, SemEvent!EmptyWait, SemEvent!EmptyReturn,
         SemEvent!vars, gsEvent
  <2> QED
      BY <1>1, <2>1, <2>2 DEF Asked
<1>3. CASE ReadWaitNotify
    BY <1>1, <1>3 DEF ReadWaitNotify, SemEvent!Notify, Asked
<1>4. CASE ReadWaitCount \/ ReadWaitChange
  <2>1. UNCHANGED <<gsPackQueue, gpc>>
      BY <1>4, ReadWaitMoves DEF queueVars
  <2>2. UNCHANGED gsNotified
      BY <1>4 DEF ReadWaitCount, ReadWaitChange, gsEvent
  <2>3. vpc \in Counting \cup Comparing
      BY <1>4, ReadWaitSteps
  <2> QED
      BY <1>1, <2>1, <2>2, <2>3 DEF Asked
<1>5. CASE \/ VUWaitForWork \/ VURingEmpty \/ ExecuteProgram \/ XGKICK \/ RealignPacket
           \/ RealignMustWait \/ CopyGSPacketData \/ CopyMustWait \/ ExecuteGSPacketMTVU
           \/ FinishReadAmount \/ FinishPush \/ PostXGkick
    BY <1>5, OtherPlaces DEF Asked
<1>6. CASE GSWaitForWork
  <2>1. UNCHANGED <<vpc, gsPackQueue>> /\ gpc = "wait"
      BY <1>6 DEF GSWaitForWork, GSOnly, queueVars
  <2> QED
      BY <1>1, <1>6, <2>1 DEF GSWaitForWork, SemEvent!GoIdle, Asked
<1>7. CASE GSRingEmpty
  <2>1. UNCHANGED <<vpc, gsPackQueue>> /\ gsCommands = 0
      BY <1>7 DEF GSRingEmpty, GSOnly, queueVars
  <2> QED
      BY <1>1, <2>1, CommandsAreThere DEF Asked
<1>8. CASE TryWaitXGkick \/ WaitXGkick \/ TransferPacket \/ PopPacket
  <2>1. gpc' # "wait"
      BY <1>8 DEF TryWaitXGkick, WaitXGkick, TransferPacket, PopPacket, GSMoves
  <2> QED
      BY <2>1 DEF Asked
<1> QED
    BY <1>2, <1>3, <1>4, <1>5, <1>6, <1>7, <1>8, Steps DEF EEContinues, EEBegins

LEMMA ComparedStep ==
  ASSUME IInv, WaitInv, Next
  PROVE  Compared'
<1>1. Compared
    BY DEF WaitInv
<1>2. CASE EEContinues \/ EEBegins \/ GSThread
    BY <1>1, <1>2, EEOwns, GSOwns DEF Compared, vuLocals
<1>3. CASE ReadWaitNotify
  <2>1. vpc' \notin Comparing
      BY <1>3, ReadWaitSteps DEF Counting, Comparing
  <2> QED
      BY <2>1 DEF Compared
<1>4. CASE ReadWaitCount
  <2>1. CASE gsPackQueue = <<>>
    <3>1. vpc' \notin Comparing
        BY <1>4, <2>1, ReadWaitSteps, WaitPlaces DEF Comparing
    <3> QED
        BY <3>1 DEF Compared
  <2>2. CASE gsPackQueue # <<>>
    <3>1. startP1Packs' = Len(gsPackQueue) /\ Len(gsPackQueue) > 0
        BY <1>4, <2>2, QueueFacts DEF ReadWaitCount
    <3> QED
        BY <3>1 DEF Compared
  <2> QED
      BY <2>1, <2>2
<1>5. CASE ReadWaitChange
  <2>1. vpc' \notin Comparing
      BY <1>5, ReadWaitSteps, WaitPlaces DEF Comparing
  <2> QED
      BY <2>1 DEF Compared
<1>6. CASE \/ VUWaitForWork \/ VURingEmpty \/ ExecuteProgram \/ XGKICK \/ RealignPacket
           \/ RealignMustWait \/ CopyGSPacketData \/ CopyMustWait \/ ExecuteGSPacketMTVU
           \/ FinishReadAmount \/ FinishPush \/ PostXGkick
    BY <1>6, OtherPlaces DEF Compared
<1> QED
    BY <1>2, <1>3, <1>4, <1>5, <1>6 DEF Next, VUThread

LEMMA StepWaitInv == IInv /\ WaitInv /\ [Next]_vars /\ canDoGif' => WaitInv'
<1> SUFFICES ASSUME IInv, WaitInv, [Next]_vars, canDoGif' PROVE WaitInv'
    OBVIOUS
<1>1. CASE Next
    BY <1>1, AwaitedStep, NotStalledStep, KickedStep, AskedStep, ComparedStep DEF WaitInv
<1>2. CASE UNCHANGED vars
  <2>1. /\ UNCHANGED <<epc, fakePackets, canDoGif, vuPrograms, vuNotified, vuPhase, vuWaiter>>
        /\ UNCHANGED <<gsNotified, gsPhase, gsWaiter, vpc, startP1Packs, gsPackQueue, gpc>>
      BY <1>2 DEF vars, eeVars, vuEvent, gsEvent, vuLocals, queueVars
  <2> QED
      BY <2>1 DEF WaitInv, Awaited, NotStalled, Kicked, Asked, Compared
<1> QED
    BY <1>1, <1>2

LEMMA InitWaitInv == Init => WaitInv
  BY DEF Init, WaitInv, Awaited, NotStalled, Kicked, Asked, Compared, Counting, Comparing,
     SemaEvent!Init, SemEvent!Init

-----------------------------------------------------------------------------
(* Room *)

\* What a copy is for, and what was copied when its tags are looked at.
Advances ==
  /\ vpc \in Kicking => size > 0
  /\ vpc \in InRealignTags => curSize > curOffset

\* A packet that left a gap came from further back than it will ever reach.
GapIsFar == gsPack.readAmount > 0 => BuffLimit - gsPack.readAmount > Most(MaxKicks)

LEMMA HalfFacts ==
  ASSUME HalfFits
  PROVE  /\ ProgramsFit
         /\ Most(MaxKicks) \in Nat
         /\ 2 * Most(MaxKicks) <= BuffSize /\ 2 * Most(MaxKicks) <= BuffLimit + 1
<1>1. PICK n \in Nat : /\ Fitting(n) /\ 2 * (MaxKicks * n) <= BuffSize
                       /\ 2 * (MaxKicks * n) <= BuffLimit + 1
    BY DEF HalfFits
<1>2. ProgramsFit
    BY <1>1 DEF ProgramsFit
<1>3. Longest \in Nat /\ Longest <= n /\ MaxKicks \in Nat
    BY <1>1, <1>2, FitFacts, Sizes
<1>4. \A a, b \in Nat : a * b = b * a
    BY SMTT(30)
<1>5. /\ MaxKicks * Longest \in Nat /\ MaxKicks * n \in Nat
      /\ MaxKicks * Longest <= MaxKicks * n
    BY <1>3, <1>4, Times
<1>6. Most(MaxKicks) = MaxKicks * Longest
    BY DEF Most
<1> HIDE DEF Most
<1> QED
    BY <1>1, <1>2, <1>5, <1>6, Sizes

LEMMA AdvancesStep ==
  ASSUME IInv, Advances, Next
  PROVE  Advances'
<1>1. size \in Nat /\ rest \in Nat /\ curSize \in Nat /\ curOffset \in Nat
      /\ curOffset <= curSize
    BY Sizes DEF IInv, Path, Built
<1>2. Advances
    OBVIOUS
<1>3. CASE EEContinues \/ EEBegins \/ GSThread
  <2>1. UNCHANGED <<vpc, size, curSize, curOffset>>
      BY <1>3, EEOwns, GSOwns DEF vuLocals, pathVars
  <2> QED
      BY <1>2, <2>1 DEF Advances
<1>4. CASE XGKICK
  <2>1. PICK kick \in Kicks : size' = kick[1]
      BY <1>4 DEF XGKICK
  <2>2. size' > 0
      BY <2>1, Sizes
  <2>3. vpc' \notin InRealignTags
      BY <1>4 DEF XGKICK, BeginCopy, InRealignTags
  <2> QED
      BY <2>2, <2>3 DEF Advances
<1>5. CASE CopyGSPacketData
  <2>1. size > 0
      BY <1>2, <1>5 DEF CopyGSPacketData, Advances, Kicking
  <2>2. curSize' = curSize + size /\ UNCHANGED curOffset /\ size' = rest
      BY <1>5 DEF CopyGSPacketData
  <2>3. vpc' = IF rest > 0 THEN BeginCopy(curSize', rest)
               ELSE IF curOffset > BuffLimit THEN "realignTags" ELSE "tags"
      BY <1>5 DEF CopyGSPacketData
  <2>4. curSize' > curOffset'
      BY <1>1, <2>1, <2>2
  <2>5. vpc' \in Kicking => rest > 0
      BY <2>3 DEF Kicking
  <2> QED
      BY <2>2, <2>4, <2>5 DEF Advances
<1>6. CASE RealignPacket
  <2>1. size' = size /\ (vpc' \in Kicking => vpc \in Kicking) /\ vpc' \notin InRealignTags
      BY <1>6 DEF RealignPacket, VUMoves, vuLocals, Kicking, InRealignTags
  <2> QED
      BY <1>2, <2>1 DEF Advances
<1>7. CASE RealignMustWait \/ CopyMustWait
  <2>1. UNCHANGED <<size, curSize, curOffset>>
      BY <1>7 DEF RealignMustWait, CopyMustWait, vuLocals, pathVars
  <2>2. /\ vpc' \in Kicking => vpc \in Kicking
        /\ vpc' \in InRealignTags => vpc \in InRealignTags
      BY <1>7 DEF RealignMustWait, CopyMustWait, VUMoves, Kicking, InRealignTags
  <2> QED
      BY <1>2, <2>1, <2>2 DEF Advances
<1>8. CASE ReadWaitNotify \/ ReadWaitCount \/ ReadWaitChange
  <2>1. UNCHANGED <<size, curSize, curOffset>>
      BY <1>8, ReadWaitMoves DEF pathVars
  <2>2. vpc \in Kicking \/ vpc \in InRealignTags
      BY <1>8, ReadWaitMoves, WaitPlaces DEF Kicking, InRealignTags
  <2>3. vpc \in {"copyNotify", "copyCount", "copyChange"} <=>
          vpc' \in {"copy", "copyCount", "copyChange"}
      BY <1>8, ReadWaitMoves
  <2>4. vpc \in {"realignNotify", "realignCount", "realignChange"} <=>
          vpc' \in {"realign", "realignCount", "realignChange"}
      BY <1>8, ReadWaitMoves
  <2>5. vpc \in WaitPCs /\ vpc' \in ReadWaits \cup WaitPCs
        /\ vpc' \notin {"copyNotify", "realignNotify", "realignTagsNotify"}
      BY <1>8, ReadWaitMoves
  <2>6. vpc' \in Kicking => vpc \in Kicking
      BY <2>3, <2>4, <2>5, WaitPlaces DEF Kicking
  <2>7. vpc' \in InRealignTags => vpc \in InRealignTags
      BY <2>3, <2>4, <2>5, WaitPlaces DEF InRealignTags
  <2> QED
      BY <1>2, <2>1, <2>6, <2>7 DEF Advances
<1>9. CASE \/ VUWaitForWork \/ VURingEmpty \/ ExecuteProgram \/ ExecuteGSPacketMTVU
           \/ FinishReadAmount \/ FinishPush \/ PostXGkick
  <2>1. vpc' \notin Kicking /\ vpc' \notin InRealignTags
      BY <1>9 DEF VUWaitForWork, VURingEmpty, ExecuteProgram, ExecuteGSPacketMTVU,
         FinishReadAmount, FinishPush, PostXGkick, VUMoves, Kicking, InRealignTags
  <2> QED
      BY <2>1 DEF Advances
<1> QED
    BY <1>3, <1>4, <1>5, <1>6, <1>7, <1>8, <1>9 DEF Next, VUThread

LEMMA GapIsFarStep ==
  ASSUME HalfFits, IInv, Bounded, Advances, GapIsFar, Next
  PROVE  GapIsFar'
<1>1. ProgramsFit /\ Most(MaxKicks) \in Nat /\ UNCHANGED Most(MaxKicks)
      /\ 2 * Most(MaxKicks) <= BuffSize /\ 2 * Most(MaxKicks) <= BuffLimit + 1
  <2>1. UNCHANGED Most(MaxKicks)
      BY DEF Most, Longest, Fitting
  <2> QED
      BY <2>1, HalfFacts
<1>2. CASE RealignPacket
  <2>1. PICK gap \in Nat :
          /\ gap = (IF BuffLimit - gsPack.offset >= 0 THEN BuffLimit - gsPack.offset ELSE 0)
          /\ gsPack'.readAmount = gsPack.readAmount + gap
      BY <1>2, RealignDoes
  <2>2. vpc \in {"realign", "realignTags"}
      BY <1>2 DEF RealignPacket, VUMoves
  <2>3. gsPack'.readAmount = gap
      BY <1>1, <2>1, <2>2, MovesOnce
  <2>4. /\ PackSize + size + rest + Most(kicks) <= Most(MaxKicks)
        /\ size \in Nat /\ rest \in Nat /\ Most(kicks) \in Nat
      BY <1>1, <2>2, ShortOfLimit
  <2>5. /\ PackSize = curSize - gsPack.offset /\ gsPack.offset \in Nat /\ curSize \in Nat
        /\ gsPack.size \in Nat /\ gsPack.offset + gsPack.size = curOffset
      BY PathFacts DEF IInv, Built
  <2>6. gsPack.offset > Most(MaxKicks)
    <3>1. CASE vpc = "realign"
      <4>1. curSize + size > BuffSize
          BY <3>1 DEF Bounded, Crowded, InRealign, Kicking, InCopy
      <4> QED
          BY <4>1, <2>4, <2>5, <1>1, Sizes
    <3>2. CASE vpc = "realignTags"
      <4>1. curOffset > BuffLimit /\ curSize > curOffset
          BY <3>2 DEF Bounded, Crowded, InRealignTags, Advances
      <4> QED
          BY <4>1, <2>4, <2>5, <1>1, Sizes
    <3> QED
        BY <2>2, <3>1, <3>2
  <2> HIDE DEF Most
  <2> QED
      BY <1>1, <2>1, <2>3, <2>5, <2>6, Sizes DEF GapIsFar
<1>3. CASE FinishPush
  <2>1. gsPack'.readAmount = 0
      BY <1>3 DEF FinishPush, NewPack
  <2> QED
      BY <2>1 DEF GapIsFar
<1>4. CASE ExecuteGSPacketMTVU
    BY <1>1, <1>4, TagsDo DEF GapIsFar
<1>5. CASE EEContinues \/ EEBegins \/ GSThread
    BY <1>1, <1>5, EEOwns, GSOwns DEF GapIsFar, pathVars
<1>6. CASE ReadWaitNotify \/ ReadWaitCount \/ ReadWaitChange
    BY <1>1, <1>6, ReadWaitMoves DEF GapIsFar, pathVars
<1>7. CASE \/ VUWaitForWork \/ VURingEmpty \/ ExecuteProgram \/ XGKICK
           \/ RealignMustWait \/ CopyGSPacketData \/ CopyMustWait
           \/ FinishReadAmount \/ PostXGkick
  <2>1. UNCHANGED gsPack
      BY <1>7 DEF VUWaitForWork, VURingEmpty, ExecuteProgram, XGKICK, RealignMustWait,
         CopyGSPacketData, CopyMustWait, FinishReadAmount, PostXGkick, pathVars
  <2> QED
      BY <1>1, <2>1 DEF GapIsFar
<1> QED
    BY <1>2, <1>3, <1>4, <1>5, <1>6, <1>7 DEF Next, VUThread

\* With no packet in the queue there is nothing left to read.
LEMMA NothingToRead ==
  ASSUME IInv, gsPackQueue = <<>>, vpc # "push"
  PROVE  readAmount = 0
<1>1. PICK behind \in [1 .. Len(Pending) + 1 -> Nat] :
        Accounts(Pending, behind, Finished, gsPack)
    BY DEF IInv, Accounted
<1>2. Pending = <<>>
    BY QueueFacts DEF Pending
<1>3. Len(Pending) = 0
    BY <1>2
<1>4. Finished = behind[1] /\ behind[1] = 0
    BY <1>1, <1>3 DEF Accounts, Sums
<1>5. Finished = readAmount
    BY DEF Finished, IInv, Path
<1> QED
    BY <1>4, <1>5

LEMMA RoomWhenRead ==
  ASSUME HalfFits, IInv, Bounded, GapIsFar, gsPackQueue = <<>>
  PROVE  /\ vpc \in {"realign", "realignTags"} => RealignSpace
         /\ vpc = "copy" => FrontSpace(size)
<1>1. ProgramsFit
    BY HalfFacts
<1>2. ASSUME vpc \in {"realign", "realignTags"}
      PROVE  RealignSpace
  <2>1. getReadAmount = 0
      BY <1>1, <1>2, NothingToRead, MovesOnce DEF getReadAmount
  <2>2. PackSize \in Nat /\ PackOffset \in Nat
      BY PathFacts
  <2>3. Max({PackSize - PackOffset, 0})
          = IF PackSize - PackOffset >= 0 THEN PackSize - PackOffset ELSE 0
      BY <2>2, MaxFacts
  <2> QED
      BY <2>1, <2>2, <2>3 DEF RealignSpace
<1>3. ASSUME vpc = "copy"
      PROVE  FrontSpace(size)
  <2>1. getReadAmount = gsPack.readAmount /\ PackOffset = gsPack.offset
        /\ gsPack.readAmount \in Nat /\ gsPack.offset \in Nat /\ curSize \in Nat
      BY <1>3, NothingToRead, PathFacts DEF getReadAmount
  <2>2. CASE gsPack.readAmount = 0
      BY <2>1, <2>2 DEF FrontSpace
  <2>3. CASE gsPack.readAmount > 0
    <3>1. gsPack.offset = 0 /\ PackSize = curSize
        BY <2>3, PathFacts DEF Bounded, Gap
    <3>2. /\ PackSize + size + rest + Most(kicks) <= Most(MaxKicks)
          /\ size \in Nat /\ rest \in Nat /\ Most(kicks) \in Nat
        BY <1>1, <1>3, ShortOfLimit
    <3>3. BuffLimit - gsPack.readAmount > Most(MaxKicks) /\ Most(MaxKicks) \in Nat
        BY <2>3, HalfFacts DEF GapIsFar
    <3> HIDE DEF Most
    <3>4. BuffLimit + (gsPack.offset - gsPack.readAmount) > curSize + size
        BY <2>1, <3>1, <3>2, <3>3, Sizes
    <3> QED
        BY <2>1, <3>4 DEF FrontSpace
  <2> QED
      BY <2>1, <2>2, <2>3
<1> QED
    BY <1>2, <1>3

-----------------------------------------------------------------------------
(* The result *)

\* If none of the three can move, all is done.
LEMMA NobodyWaits ==
  ASSUME IInv, WaitInv, EEBlocked, VUBlocked, GSBlocked
  PROVE  epc = "idle" /\ vpc = "wait" /\ vuPrograms = 0 /\ gpc = "wait"
<1>1. Awaited /\ NotStalled /\ Kicked /\ Asked /\ Compared
    BY DEF WaitInv
<1>2. /\ Len(gsPackQueue) \in Nat /\ vuPrograms \in Nat /\ semaXGkick \in Nat
      /\ gsPackQueue # <<>> <=> Len(gsPackQueue) >= 1
      /\ SemaEvent!TypeOK /\ SemEvent!TypeOK
    BY QueueFacts DEF IInv, Counters, Places
<1>3. epc \notin {"transfer", "kick"}
    BY DEF EEBlocked
<1>4. ASSUME vpc = "wait", vuPhase = "idle", ~vuNotified
      PROVE  vuPrograms = 0 /\ epc # "waitVU"
    BY <1>1, <1>2, <1>3, <1>4 DEF Kicked, Awaited, EEBlocked, SemaEvent!TypeOK
<1>5. ASSUME gpc = "wait", gsPhase = "idle", ~gsNotified
      PROVE  epc # "waitGS" /\ (vpc \in Comparing => gsPackQueue = <<>>)
    BY <1>1, <1>2, <1>5 DEF Asked, Awaited, EEBlocked, SemEvent!TypeOK
<1>6. ASSUME \E pc \in ReadWaits : vpc = ChangePC[pc]
      PROVE  vpc \in Comparing
    BY <1>6, WaitPlaces DEF ChangePC, Comparing
<1>7. vpc \in Comparing => startP1Packs > 0 /\ vpc # "post"
    BY <1>1 DEF Compared, Comparing
<1>8. gpc # "semWait"
  <2> SUFFICES ASSUME gpc = "semWait" PROVE FALSE
      OBVIOUS
  <2>1. semaXGkick = 0 /\ gsCommands >= 1 /\ MutexFree
      BY DEF GSBlocked, IInv, Working, MutexFree
  <2>2. Len(gsPackQueue) = IF vpc = "post" THEN 1 ELSE 0
      BY <1>2, <2>1 DEF IInv, Pairs, PacketsExpected
  <2>3. vuPrograms > 0
      BY <1>1, <1>2, <1>3, <2>1, <2>2 DEF IInv, Pairs, OneCommandPerProgram, NotStalled, Counters
  <2>4. CASE vpc = "wait" /\ vuPhase = "idle" /\ ~vuNotified
      BY <1>4, <2>3, <2>4
  <2>5. CASE \E pc \in ReadWaits : vpc = ChangePC[pc]
    <3>1. Len(gsPackQueue) = startP1Packs
        BY <2>1, <2>5, WaitPlaces DEF VUBlocked, ChangePC
    <3> QED
        BY <1>6, <1>7, <2>2, <2>5, <3>1
  <2> QED
      BY <2>4, <2>5 DEF VUBlocked
<1>9. gpc = "wait" /\ gsPhase = "idle" /\ ~gsNotified
    BY <1>8 DEF GSBlocked
<1>10. CASE vpc = "wait" /\ vuPhase = "idle" /\ ~vuNotified
    BY <1>4, <1>5, <1>9, <1>10 DEF EEBlocked
<1>11. CASE \E pc \in ReadWaits : vpc = ChangePC[pc]
  <2>1. MutexFree
      BY <1>9 DEF MutexFree
  <2>2. Len(gsPackQueue) = startP1Packs
      BY <1>11, <2>1, WaitPlaces DEF VUBlocked, ChangePC
  <2> QED
      BY <1>2, <1>5, <1>6, <1>7, <1>9, <1>11, <2>2
<1> QED
    BY <1>10, <1>11 DEF VUBlocked

\* No circle of waits, as long as the GIF takes every command: when the EE, the VU
\* thread and the GS thread all wait, nothing is left to do; and the VU thread never
\* waits for room that no packet in the queue can bring (mtgsReadWait, Gif_Unit.h).
THEOREM NobodyStaysStuck ==
  ASSUME HalfFits
  PROVE  Spec => NobodyIsStuck
<1>1. Init => WaitInv /\ Advances /\ GapIsFar
  <2> SUFFICES ASSUME Init PROVE Advances /\ GapIsFar
      BY InitWaitInv
  <2>1. gsPack.readAmount = 0 /\ vpc = "wait"
      BY NewPackFacts DEF Init
  <2> QED
      BY <2>1 DEF Advances, GapIsFar, Kicking, InRealignTags
<1>2. IInv /\ Bounded /\ (WaitInv /\ Advances /\ GapIsFar) /\ [Next]_vars /\ canDoGif'
        => (WaitInv /\ Advances /\ GapIsFar)'
  <2> SUFFICES ASSUME IInv, Bounded, WaitInv, Advances, GapIsFar, [Next]_vars, canDoGif'
               PROVE  Advances' /\ GapIsFar'
      BY StepWaitInv
  <2>1. CASE Next
      BY <2>1, AdvancesStep, GapIsFarStep
  <2>2. CASE UNCHANGED vars
    <3>1. UNCHANGED <<vpc, size, curSize, curOffset, gsPack>>
        BY <2>2 DEF vars, vuLocals, pathVars
    <3> QED
        BY <3>1 DEF Advances, GapIsFar, Most, Longest, Fitting
  <2> QED
      BY <2>1, <2>2
<1>3. IInv /\ Bounded /\ WaitInv /\ GapIsFar => NoCircle
    BY NobodyWaits, RoomWhenRead DEF NoCircle
<1>4. Spec => [](IInv /\ Bounded)
    BY HalfFacts, Bounds
<1> QED
    BY <1>1, <1>2, <1>3, <1>4, PTL DEF Spec, NobodyIsStuck
=============================================================================
