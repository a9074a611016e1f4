--------------------------- MODULE MTVUInterrupts ---------------------------
(***************************************************************************)
(* How a VU1 program on its own thread reaches the EE's registers.  The    *)
(* A+D writes of its XGKICKs (Gif_HandlerAD_MTVU in pcsx2/Gif_Unit.cpp)    *)
(* and its end (mVUEBit, mVUTBit) leave a flag in the atomic word          *)
(* mtvuInterrupts and data in gsSignal and gsLabel; the EE collects them   *)
(* in VU_Thread::Get_MTVUChanges (pcsx2/MTVU.cpp).                         *)
(*                                                                         *)
(* Every access to a shared atomic is a step; what follows it on registers *)
(* of the EE alone belongs to the same step.  No interrupt is masked.      *)
(***************************************************************************)
EXTENDS Integers, Sequences, SequencesExt, FiniteSets

CONSTANTS
  Bits,         \* bits of the label register
  LabelWrites,  \* what a program may write to them
  MaxSignals,   \* bound on the SIGNALs sent
  MixedSignals, \* bound on the SIGNALs sent where labels are written as well
  MaxPrograms,  \* bound on the programs queued for the VU thread
  CarefulGame   \* the T-bit stop is switched only while VU1 has nothing to do

ASSUME MTVUInterruptsAssumption ==
  /\ IsFiniteSet(Bits)
  /\ LabelWrites \subseteq UNION { [mask -> 0 .. 1] : mask \in (SUBSET Bits) \ {{}} }
  /\ MaxSignals \in Nat /\ MixedSignals \in Nat /\ MaxPrograms \in Nat
  /\ CarefulGame \in BOOLEAN

VARIABLES
  mtvuInterrupts, gsSignal, gsLabel,   \* the atomics
  SIGNAL, FINISH,                      \* bits of CSR
  LBLID,                               \* of GSSIGLBLID; SIGID is left to history
  queued,                              \* gifUnit.gsSIGNAL: the SIGNAL it holds, if any
  gsFINISHFired,
  APATH,                               \* a path of the GIF is in a transfer
  VPU_STAT, FBRST,                     \* VU1's status, and its T-bit enable
  epc, interrupts, signal, return,     \* the EE thread
  programs, vpc, running,              \* the VU thread: FBRST of its programs
  sent, announced,                     \* history: the SIGNALs, by number; those that
  delivered, dropped,                  \* reached SIGID, and that were in gsSIGNAL in vain
  labelled                             \* history: LBLID as the VU wrote it

mailbox  == <<mtvuInterrupts, gsSignal, gsLabel>>
gsRegs   == <<SIGNAL, FINISH, LBLID, queued, gsFINISHFired, APATH>>
vuRegs   == <<VPU_STAT, FBRST>>
eeLocals == <<interrupts, signal, return>>
vuThread == <<programs, vpc, running>>
history  == <<sent, announced, labelled>>
fates    == <<delivered, dropped>>
vars     == <<mailbox, gsRegs, vuRegs, epc, eeLocals, vuThread, history, fates>>

-----------------------------------------------------------------------------
(* Labels: a mask and, under it, the data; the empty function is 0 *)

NoLabel == [b \in {} |-> 0]
Labels == UNION { [mask -> 0 .. 1] : mask \in SUBSET Bits }
NoSignal == 0

\* Both (LBLID & ~mask) | (data & mask) and the merge in Gif_HandlerAD_MTVU.
WriteOver(new, old) ==
  [b \in DOMAIN old \cup DOMAIN new |-> IF b \in DOMAIN new THEN new[b] ELSE old[b]]

\* (With a bug, here and below: the label still there is dropped, or the two are
\* added instead of merged.)
ReplaceLabel(new, old) == new

AddLabel(new, old) ==
  [b \in DOMAIN old \cup DOMAIN new |->
     (IF b \in DOMAIN new THEN new[b] ELSE 0) + (IF b \in DOMAIN old THEN old[b] ELSE 0)]

MergeLabel(new, old) == WriteOver(new, old)

-----------------------------------------------------------------------------
(* The VU thread *)

VUMoves(from, to) == vpc = from /\ vpc' = to
VUOnly == UNCHANGED <<gsRegs, vuRegs, epc, eeLocals, fates>>

Raise(flag) == mtvuInterrupts' = mtvuInterrupts \cup {flag}

BeginProgram ==
  /\ VUMoves("idle", "run")
  /\ programs # <<>>
  /\ running' = Head(programs)
  /\ programs' = Tail(programs)
  /\ VUOnly /\ UNCHANGED <<mailbox, history>>

SignalBound ==
  sent < MaxSignals /\ (sent < MixedSignals \/ labelled = [b \in Bits |-> 0])

\* (With a bug: nothing is said.)
SignalCheckNot ==
  /\ VUMoves("run", "signalStore")
  /\ SignalBound
  /\ sent' = sent + 1
  /\ VUOnly /\ UNCHANGED <<mailbox, programs, running, announced, labelled>>

\* SIGNAL: with the last one still flagged, "Double SIGNAL Not Handled" ...
SignalCheck ==
  /\ VUMoves("run", "signalStore")
  /\ SignalBound
  /\ sent' = sent + 1
  /\ announced' = IF "SIGNAL" \in mtvuInterrupts THEN announced \cup {sent + 1} ELSE announced
  /\ VUOnly /\ UNCHANGED <<mailbox, programs, running, labelled>>

SignalStore ==
  /\ VUMoves("signalStore", "signalFlag")
  /\ gsSignal' = sent
  /\ VUOnly /\ UNCHANGED <<mtvuInterrupts, gsLabel, programs, running, history>>

SignalFlag ==
  /\ VUMoves("signalFlag", "run")
  /\ Raise("SIGNAL")
  /\ VUOnly /\ UNCHANGED <<gsSignal, gsLabel, programs, running, history>>

Finish ==
  /\ vpc = "run"
  /\ Raise("FINISH")
  /\ VUOnly /\ UNCHANGED <<gsSignal, gsLabel, vuThread, history>>

\* LABEL: "It's okay to coalesce label updates" ...
LabelMerge ==
  /\ VUMoves("run", "labelFlag")
  /\ sent <= MixedSignals
  /\ \E label \in LabelWrites :
       /\ gsLabel' = MergeLabel(label, gsLabel)
       /\ labelled' = WriteOver(label, labelled)
  /\ VUOnly
  /\ UNCHANGED <<mtvuInterrupts, gsSignal, programs, running, sent, announced>>

\* ... and then the flag.
LabelFlag ==
  /\ VUMoves("labelFlag", "run")
  /\ Raise("LABEL")
  /\ VUOnly /\ UNCHANGED <<gsSignal, gsLabel, programs, running, history>>

\* The program ends, or stops at a T bit if the FBRST it was queued with allows
\* it.  (A D bit, which raises the same flag, is left out.)
EndProgram ==
  /\ VUMoves("run", "idle")
  /\ \/ Raise("VUEBit")
     \/ running = "T" /\ Raise("VUTBit")
  /\ running' = "none"
  /\ VUOnly /\ UNCHANGED <<gsSignal, gsLabel, programs, history>>

VUThread ==
  \/ BeginProgram \/ SignalCheck \/ SignalStore \/ SignalFlag
  \/ Finish \/ LabelMerge \/ LabelFlag \/ EndProgram

-----------------------------------------------------------------------------
(* The EE thread: Get_MTVUChanges *)

EEOnly == UNCHANGED <<vuThread, history>>

\* What it does next: the flags in the order of the code, of those it loaded.
Order == <<"SIGNAL", "FINISH", "LABEL", "VUEBit", "VUTBit">>
Stage == [SIGNAL |-> "signal", FINISH |-> "finish", LABEL |-> "label",
          VUEBit |-> "VUEBit", VUTBit |-> "VUTBit"]

IsFirst(i, flags) == Order[i] \in flags /\ \A j \in 1 .. i - 1 : Order[j] \notin flags

Go(flags, back) ==
  /\ interrupts' = flags
  /\ \/ flags = {} /\ epc' = back /\ return' = "idle"
     \/ \E i \in 1 .. 5 : IsFirst(i, flags) /\ epc' = Stage[Order[i]] /\ return' = back

\* (With a bug: an else-if for each flag, so that one call handles only one.)
LoadOne(back) ==
  \/ mtvuInterrupts = {} /\ Go({}, back)
  \/ \E i \in 1 .. 5 : IsFirst(i, mtvuInterrupts) /\ Go({Order[i]}, back)

Load(back) == Go(mtvuInterrupts, back)

GoOnWith(flags) == Go(flags, return)

\* The flag is cleared, and the flags after it are handled.
Took(flag) ==
  /\ mtvuInterrupts' = mtvuInterrupts \ {flag}
  /\ GoOnWith(interrupts \ {flag})

\* Called from an event test, or after WaitVU: at any time.  What it loads then
\* is all it handles.
Get_MTVUChanges ==
  /\ epc = "idle"
  /\ Load("idle")
  /\ EEOnly /\ UNCHANGED <<mailbox, gsRegs, vuRegs, signal, fates>>

LoadSignal ==
  /\ epc = "signal"
  /\ signal' = gsSignal
  /\ epc' = "signalTake"
  /\ EEOnly
  /\ UNCHANGED <<mailbox, gsRegs, vuRegs, interrupts, return, fates>>

\* Of gsSIGNAL, what it holds; nothing, if it is not queued.
Held == {queued} \ {NoSignal}

\* The signal interrupts and goes to SIGID; or it waits in gsSIGNAL for the game to
\* clear CSR, in the place of one that already waits there.
TakeSignal ==
  /\ epc = "signalTake"
  /\ Took("SIGNAL")
  /\ \/ /\ ~SIGNAL
        /\ SIGNAL' = TRUE
        /\ delivered' = delivered \cup {signal}
        /\ UNCHANGED <<queued, dropped>>
     \/ /\ SIGNAL
        /\ queued' = signal
        /\ dropped' = dropped \cup (Held \ {signal})
        /\ UNCHANGED <<SIGNAL, delivered>>
  /\ signal' = NoSignal
  /\ EEOnly
  /\ UNCHANGED <<gsSignal, gsLabel, FINISH, LBLID, gsFINISHFired, APATH, vuRegs>>

\* FINISH interrupts now, or when the GIF's transfer comes to its end.
TakeFinish ==
  /\ epc = "finish"
  /\ Took("FINISH")
  /\ FINISH' = TRUE
  /\ gsFINISHFired' = ~APATH
  /\ EEOnly
  /\ UNCHANGED <<gsSignal, gsLabel, SIGNAL, LBLID, queued, APATH, vuRegs,
                 signal, fates>>

\* First the flag, then the label: "or the other thread could add more work
\* before we clear the flag, resulting in an update with the flag unset".
ClearLabelFlag ==
  /\ epc = "label"
  /\ mtvuInterrupts' = mtvuInterrupts \ {"LABEL"}
  /\ epc' = "labelTake"
  /\ EEOnly
  /\ UNCHANGED <<gsSignal, gsLabel, gsRegs, vuRegs, eeLocals, fates>>

TakeLabel ==
  /\ epc = "labelTake"
  /\ LBLID' = WriteOver(gsLabel, LBLID)
  /\ gsLabel' = NoLabel
  /\ GoOnWith(interrupts \ {"LABEL"})
  /\ EEOnly
  /\ UNCHANGED <<mtvuInterrupts, gsSignal, SIGNAL, FINISH, queued, gsFINISHFired,
                 APATH, vuRegs, signal, fates>>

TakeVUBit ==
  /\ epc \in {"VUEBit", "VUTBit"}
  /\ Took(epc)
  /\ VPU_STAT' = IF epc = "VUTBit" THEN "stopped" ELSE "clear"
  /\ EEOnly /\ UNCHANGED <<gsSignal, gsLabel, gsRegs, FBRST, signal, fates>>

EEContinues ==
  \/ LoadSignal \/ TakeSignal \/ TakeFinish
  \/ ClearLabelFlag \/ TakeLabel \/ TakeVUBit

-----------------------------------------------------------------------------
(* The EE thread: what the game does *)

EEPrivate == EEOnly /\ UNCHANGED <<mailbox, signal, interrupts>>

\* (With a bug: VPU_STAT is left as it was.)
vu1ExecMicroNotBusy ==
  /\ epc = "idle" /\ VPU_STAT # "busy"
  /\ Len(programs) < MaxPrograms
  /\ VPU_STAT' = "clear"
  /\ Load("push")
  /\ EEOnly /\ UNCHANGED <<mailbox, gsRegs, FBRST, signal, fates>>

\* vu1ExecMicro, which vifExecQueue does not call while VU1 is busy.  ExecuteVU
\* gets the changes ...
vu1ExecMicro ==
  /\ epc = "idle" /\ VPU_STAT # "busy"
  /\ Len(programs) < MaxPrograms
  /\ VPU_STAT' = IF FBRST = "T" THEN "busy" ELSE "clear"
  /\ Load("push")
  /\ EEOnly /\ UNCHANGED <<mailbox, gsRegs, FBRST, signal, fates>>

\* ... writes its packet, and gets the changes again.
ExecuteVU ==
  /\ epc = "push"
  /\ programs' = Append(programs, FBRST)
  /\ epc' = "get"
  /\ UNCHANGED <<mailbox, gsRegs, vuRegs, eeLocals, vpc, running, history, fates>>

GetChangesAgain ==
  /\ epc = "get"
  /\ Load("idle")
  /\ EEOnly /\ UNCHANGED <<mailbox, gsRegs, vuRegs, signal, fates>>

\* A CTC2 to FBRST: the T-bit enable, or a reset of VU1 (vu1ResetRegs), which the VU
\* thread does not hear of.  The game sees in VPU_STAT that VU1 is not running; a careful
\* one has flushed the VU thread besides, with WaitVU.
VUIsDone == programs = <<>> /\ running = "none" /\ mtvuInterrupts = {}

CTC2 ==
  /\ epc = "idle" /\ VPU_STAT # "busy"
  /\ CarefulGame => VUIsDone
  /\ \/ FBRST' \in {"T", "plain"} /\ UNCHANGED VPU_STAT
     \/ FBRST' = "plain" /\ VPU_STAT' = "clear"
  /\ EEPrivate /\ UNCHANGED <<gsRegs, epc, return, fates>>

\* Gif_FinishIRQ, at the end of Gif_Unit::Execute.
FinishIRQ(finish, fired) == gsFINISHFired' = (fired \/ finish)

\* A write of CSR: SIGNAL brings up the queued signal and resumes the GIF ...
gsCSRwriteSIGNAL ==
  /\ epc = "idle"
  /\ SIGNAL' = (queued # NoSignal)
  /\ delivered' = delivered \cup Held
  /\ queued' = NoSignal
  /\ FinishIRQ(FINISH, gsFINISHFired)
  /\ EEPrivate
  /\ UNCHANGED <<FINISH, LBLID, APATH, vuRegs, epc, return, dropped>>

\* ... FINISH clears the bit, RESET all of it.
gsCSRwriteFINISH ==
  /\ epc = "idle"
  /\ FINISH' = FALSE
  /\ gsFINISHFired' = FALSE
  /\ EEPrivate
  /\ UNCHANGED <<SIGNAL, LBLID, queued, APATH, vuRegs, epc, return, fates>>

gsCSRwriteRESET ==
  /\ epc = "idle"
  /\ queued' = NoSignal
  /\ dropped' = dropped \cup Held
  /\ SIGNAL' = FALSE /\ FINISH' = FALSE
  /\ EEPrivate
  /\ UNCHANGED <<LBLID, gsFINISHFired, APATH, vuRegs, epc, return, delivered>>

\* Paths 2 and 3: a packet begins; it ends, and with it Gif_Unit::Execute.
GifTransferBegins ==
  /\ epc = "idle" /\ ~APATH
  /\ APATH' = TRUE
  /\ EEPrivate
  /\ UNCHANGED <<SIGNAL, FINISH, LBLID, queued, gsFINISHFired, vuRegs, epc,
                 return, fates>>

GifTransferEnds ==
  /\ epc = "idle" /\ APATH
  /\ APATH' = FALSE
  /\ FinishIRQ(FINISH, gsFINISHFired)
  /\ EEPrivate
  /\ UNCHANGED <<SIGNAL, FINISH, LBLID, queued, vuRegs, epc, return, fates>>

Game ==
  \/ vu1ExecMicro \/ CTC2
  \/ gsCSRwriteSIGNAL \/ gsCSRwriteFINISH \/ gsCSRwriteRESET
  \/ GifTransferBegins

-----------------------------------------------------------------------------
Init ==
  /\ mtvuInterrupts = {} /\ gsSignal = NoSignal /\ gsLabel = NoLabel
  /\ SIGNAL = FALSE /\ FINISH = FALSE
  /\ LBLID = [b \in Bits |-> 0]
  /\ queued = NoSignal /\ gsFINISHFired = FALSE /\ APATH = FALSE
  /\ VPU_STAT = "clear" /\ FBRST = "plain"
  /\ epc = "idle" /\ interrupts = {} /\ signal = NoSignal /\ return = "idle"
  /\ programs = <<>> /\ vpc = "idle" /\ running = "none"
  /\ sent = 0 /\ announced = {} /\ delivered = {} /\ dropped = {}
  /\ labelled = [b \in Bits |-> 0]

Next ==
  \/ VUThread
  \/ EEContinues \/ ExecuteVU \/ GetChangesAgain
  \/ Get_MTVUChanges \/ GifTransferEnds
  \/ Game

Spec == Init /\ [][Next]_vars

\* The EE's event test calls Get_MTVUChanges again and again, every transfer of
\* the GIF ends, and the VU thread goes on once it has begun to write a SIGNAL or
\* a LABEL; the game and the program need not do anything.
FairSpec ==
  /\ Spec
  /\ WF_vars(Get_MTVUChanges \/ EEContinues \/ ExecuteVU \/ GetChangesAgain)
  /\ SF_vars(GifTransferEnds)
  /\ WF_vars(SignalStore \/ SignalFlag \/ LabelFlag)

-----------------------------------------------------------------------------
(* What it promises *)

Flags == {"SIGNAL", "FINISH", "LABEL", "VUEBit", "VUTBit"}
Signals == NoSignal .. MaxSignals

TypeOK ==
  /\ mtvuInterrupts \subseteq Flags /\ gsSignal \in Signals /\ gsLabel \in Labels
  /\ SIGNAL \in BOOLEAN /\ FINISH \in BOOLEAN
  /\ LBLID \in [Bits -> 0 .. 1]
  /\ queued \in Signals /\ gsFINISHFired \in BOOLEAN /\ APATH \in BOOLEAN
  /\ VPU_STAT \in {"clear", "busy", "stopped"} /\ FBRST \in {"T", "plain"}
  /\ epc \in {"idle", "get", "signal", "signalTake", "finish", "label", "labelTake",
              "VUEBit", "VUTBit", "push"}
  /\ interrupts \subseteq Flags /\ signal \in Signals /\ return \in {"idle", "push"}
  /\ programs \in Seq({"T", "plain"}) /\ running \in {"none", "T", "plain"}
  /\ vpc \in {"idle", "run", "signalStore", "signalFlag", "labelFlag"}
  /\ sent \in Signals /\ announced \subseteq Signals
  /\ delivered \subseteq Signals /\ dropped \subseteq Signals
  /\ labelled \in [Bits -> 0 .. 1]

\* Coalesced or not, LBLID and the label that waits make up what the program
\* wrote, in its order; and a label that waits is never without a flag for long:
\* one of the two threads is about to raise it or to take the label.
LabelsAddUp ==
  /\ WriteOver(gsLabel, LBLID) = labelled
  /\ gsLabel # NoLabel =>
       "LABEL" \in mtvuInterrupts \/ vpc = "labelFlag" \/ epc = "labelTake"

\* Every SIGNAL interrupts, or is on its way in the mailbox or in gsSIGNAL; of those
\* lost in the mailbox the error message came with them or with the next one, whichever
\* of the two the EE comes to read ("the other thread could write a new value before we
\* load without noticing the double signal").  The EE loses another only out of
\* gsSIGNAL, and then without a message: if the game resets the GS, or if it has left
\* CSR.SIGNAL up while two more came.
Waits(n) == \/ gsSignal = n /\ ("SIGNAL" \in mtvuInterrupts \/ vpc = "signalFlag")
            \/ sent = n /\ vpc = "signalStore"

Collected == delivered \cup dropped \cup Held

LossIsAnnounced ==
  \A n \in 1 .. sent :
    n \in Collected \/ {n, n + 1} \cap announced # {} \/ Waits(n)

\* "when the T-Bit is enabled, it needs to wait in case a T-Bit happens, so we
\* need to set Busy" (VU1micro.cpp): while a program that may stop at a T bit
\* has not been seen to end, VPU_STAT says busy.  It needs a careful game.
BusyWhileTBit == (running = "T" \/ "T" \in ToSet(programs)) => VPU_STAT = "busy"

\* Whatever the program goes on to write, the label that waits comes to be taken
\* and the T bit, the last flag in the order of the code, comes to be cleared: no
\* flag keeps the EE from another.  FINISH interrupts, now or at the end of the GIF
\* transfer that it arrives in, unless the game clears it first.
InterruptsArrive ==
  /\ (gsLabel # NoLabel) ~> (gsLabel = NoLabel)
  /\ ("VUTBit" \in mtvuInterrupts) ~> ("VUTBit" \notin mtvuInterrupts)
  /\ (FINISH /\ ~gsFINISHFired) ~> (~FINISH \/ gsFINISHFired)
=============================================================================
