------------------------ MODULE MTVUInterruptsProofs ------------------------
(***************************************************************************)
(* Proofs about MTVUInterrupts, for any register, any labels written and   *)
(* any bounds: the type invariant, and of the data that travels beside the *)
(* flags that none is lost unnoticed.  Each part of the invariant has a    *)
(* lemma of its own; all rest on Stages.                                   *)
(***************************************************************************)
EXTENDS MTVUInterrupts, TLAPS

-----------------------------------------------------------------------------
(* The inductive invariant *)

\* Where the EE is in Get_MTVUChanges: what it loaded and has not yet handled is
\* still flagged, for it alone clears flags.
Stages ==
  /\ epc \in {"idle", "get", "push"} => interrupts = {} /\ return = "idle"
  /\ epc \in {"signal", "signalTake"} => "SIGNAL" \in interrupts
  /\ epc = "finish" => "FINISH" \in interrupts
  /\ epc \in {"label", "labelTake"} => "LABEL" \in interrupts
  /\ epc \in {"VUEBit", "VUTBit"} => epc \in interrupts
  /\ \A flag \in interrupts :
       flag \in mtvuInterrupts \/ (flag = "LABEL" /\ epc = "labelTake")

\* Between the check of a SIGNAL and the store, the last one is in gsSignal, and
\* a flag seen up means that the new one was announced.  What the EE has loaded
\* is older than gsSignal only if all that came since was announced.
SignalsInOrder ==
  /\ gsSignal = IF vpc = "signalStore" THEN sent - 1 ELSE sent
  /\ vpc = "signalStore" /\ "SIGNAL" \in mtvuInterrupts => sent \in announced
  /\ epc = "signalTake" =>
       signal <= gsSignal /\ \A n \in signal + 1 .. sent : n \in announced

\* While the T bit is enabled there is at most one program on its way, and
\* VPU_STAT is busy from its start to the collection of its end.
Starting == epc = "push" \/ return = "push"
VUBits == mtvuInterrupts \cap {"VUEBit", "VUTBit"}
Waiting == Len(programs) = 1 /\ programs[1] = "T"

OneTBitProgram ==
  /\ FBRST = "plain" =>
       running # "T" /\ \A i \in 1 .. Len(programs) : programs[i] # "T"
  /\ FBRST = "T" =>
       \/ ~Starting /\ programs = <<>> /\ running = "none" /\ VUBits = {}
       \/ /\ VPU_STAT = "busy"
          /\ \/ Starting /\ programs = <<>> /\ running = "none" /\ VUBits = {}
             \/ ~Starting /\ Waiting /\ running = "none" /\ VUBits = {}
             \/ ~Starting /\ programs = <<>> /\ running = "T" /\ VUBits = {}
             \/ /\ ~Starting /\ programs = <<>> /\ running = "none"
                /\ VUBits \in {{"VUEBit"}, {"VUTBit"}}

RunningMatches == (running = "none") <=> (vpc = "idle")

-----------------------------------------------------------------------------
(* Lemmas about the operators *)

\* Where Get_MTVUChanges goes on with the flags it has left.
LEMMA GoFacts ==
  ASSUME NEW flags \in SUBSET Flags, NEW back \in {"idle", "push"}, Go(flags, back)
  PROVE  /\ interrupts' = flags
         /\ \/ flags = {} /\ epc' = back /\ return' = "idle"
            \/ /\ return' = back
               /\ \/ epc' = "signal" /\ "SIGNAL" \in flags
                  \/ epc' = "finish" /\ "FINISH" \in flags
                  \/ epc' = "label" /\ "LABEL" \in flags
                  \/ epc' \in {"VUEBit", "VUTBit"} /\ epc' \in flags
<1>1. CASE flags = {} /\ epc' = back /\ return' = "idle"
    BY <1>1 DEF Go
<1>2. ASSUME NEW i \in 1 .. 5, IsFirst(i, flags), epc' = Stage[Order[i]], return' = back
      PROVE  \/ epc' = "signal" /\ "SIGNAL" \in flags
             \/ epc' = "finish" /\ "FINISH" \in flags
             \/ epc' = "label" /\ "LABEL" \in flags
             \/ epc' \in {"VUEBit", "VUTBit"} /\ epc' \in flags
    BY <1>2 DEF IsFirst, Order, Stage
<1> QED
    BY <1>1, <1>2 DEF Go

\* The VU thread touches no register and no variable of the EE, and clears no flag.
LEMMA VUThreadFacts ==
  ASSUME VUThread
  PROVE  /\ UNCHANGED <<gsRegs, vuRegs, epc, interrupts, signal, return, fates>>
         /\ mtvuInterrupts \subseteq mtvuInterrupts'
  BY DEF VUThread, BeginProgram, SignalCheck, SignalStore, SignalFlag, Finish,
         LabelMerge, LabelFlag, EndProgram, VUOnly, Raise, mailbox, eeLocals

\* Writing over a label: types, order, and the empty label.
LEMMA WriteOverLabel ==
  ASSUME NEW new \in Labels, NEW old \in Labels
  PROVE  WriteOver(new, old) \in Labels
<1>1. PICK newMask \in SUBSET Bits : new \in [newMask -> 0 .. 1]
    BY DEF Labels
<1>2. PICK oldMask \in SUBSET Bits : old \in [oldMask -> 0 .. 1]
    BY DEF Labels
<1>3. WriteOver(new, old) \in [oldMask \cup newMask -> 0 .. 1]
    BY <1>1, <1>2 DEF WriteOver
<1> QED
    BY <1>3 DEF Labels

LEMMA WriteOverRegister ==
  ASSUME NEW new \in Labels, NEW old \in [Bits -> 0 .. 1]
  PROVE  WriteOver(new, old) \in [Bits -> 0 .. 1]
<1>1. PICK mask \in SUBSET Bits : new \in [mask -> 0 .. 1]
    BY DEF Labels
<1> QED
    BY <1>1 DEF WriteOver

LEMMA WriteOverTwice ==
  ASSUME NEW new \in Labels, NEW label \in Labels, NEW old \in [Bits -> 0 .. 1]
  PROVE  WriteOver(WriteOver(new, label), old) = WriteOver(new, WriteOver(label, old))
<1>1. PICK newMask \in SUBSET Bits : new \in [newMask -> 0 .. 1]
    BY DEF Labels
<1>2. PICK mask \in SUBSET Bits : label \in [mask -> 0 .. 1]
    BY DEF Labels
<1> QED
    BY <1>1, <1>2 DEF WriteOver

LEMMA WriteNothing ==
  ASSUME NEW old \in [Bits -> 0 .. 1]
  PROVE  NoLabel \in Labels /\ WriteOver(NoLabel, old) = old
<1>1. NoLabel \in [{} -> 0 .. 1]
    BY DEF NoLabel
<1>2. NoLabel \in Labels
    BY <1>1 DEF Labels
<1>3. WriteOver(NoLabel, old) = old
    BY DEF WriteOver, NoLabel
<1> QED
    BY <1>2, <1>3

LEMMA LabelWritesAreLabels == LabelWrites \subseteq Labels
  BY MTVUInterruptsAssumption DEF Labels

-----------------------------------------------------------------------------
(* Types *)

LEMMA TypeInit == Init => TypeOK
<1>1. [b \in Bits |-> 0] \in [Bits -> 0 .. 1]
    OBVIOUS
<1>2. NoLabel \in Labels
    BY <1>1, WriteNothing
<1>3. 0 \in Signals
    BY MTVUInterruptsAssumption DEF Signals, NoSignal
<1> SUFFICES ASSUME Init PROVE TypeOK
    OBVIOUS
<1>4. SIGNAL \in BOOLEAN /\ FINISH \in BOOLEAN
      /\ gsFINISHFired \in BOOLEAN /\ APATH \in BOOLEAN
    BY Zenon DEF Init
<1> QED
    BY <1>1, <1>2, <1>3, <1>4 DEF Init, TypeOK, NoSignal

LEMMA TypeStep == TypeOK /\ [Next]_vars => TypeOK'
<1> SUFFICES ASSUME TypeOK, [Next]_vars PROVE TypeOK'
    OBVIOUS
<1>a. /\ signal \in Signals /\ queued \in Signals /\ NoSignal \in Signals
      /\ delivered \subseteq Signals /\ dropped \subseteq Signals
    BY MTVUInterruptsAssumption DEF TypeOK, Signals, NoSignal
<1> USE MTVUInterruptsAssumption DEF TypeOK
<1>1. CASE BeginProgram
    BY <1>1 DEF BeginProgram, VUMoves, VUOnly, mailbox, gsRegs, vuRegs, eeLocals, fates, history
<1>2. CASE SignalCheck
    BY <1>2 DEF SignalCheck, SignalBound, VUMoves, VUOnly, mailbox, gsRegs, vuRegs, eeLocals,
                fates, Signals, NoSignal
<1>3. CASE SignalStore
    BY <1>3 DEF SignalStore, VUMoves, VUOnly, gsRegs, vuRegs, eeLocals, fates, history
<1>4. CASE SignalFlag
    BY <1>4 DEF SignalFlag, VUMoves, VUOnly, gsRegs, vuRegs, eeLocals, fates, history, Raise, Flags
<1>5. CASE Finish
    BY <1>5 DEF Finish, VUOnly, gsRegs, vuRegs, eeLocals, fates, history, vuThread, Raise, Flags
<1>6. CASE LabelMerge
    BY <1>6, LabelWritesAreLabels, WriteOverLabel, WriteOverRegister
    DEF LabelMerge, VUMoves, VUOnly, gsRegs, vuRegs, eeLocals, fates, MergeLabel
<1>7. CASE LabelFlag
    BY <1>7 DEF LabelFlag, VUMoves, VUOnly, gsRegs, vuRegs, eeLocals, fates, history, Raise, Flags
<1>8. CASE EndProgram
  <2>1. mtvuInterrupts' \subseteq Flags
      BY <1>8 DEF EndProgram, Raise, Flags
  <2> QED
      BY <1>8, <2>1 DEF EndProgram, VUMoves, VUOnly, gsRegs, vuRegs, eeLocals, fates, history
<1> USE DEF EEOnly, EEPrivate, vuThread, history, mailbox, gsRegs, vuRegs, eeLocals, fates
<1>9. CASE LoadSignal
    BY <1>9 DEF LoadSignal
<1>10. CASE TakeSignal
  <2>1. SIGNAL' \in BOOLEAN /\ UNCHANGED <<FINISH, gsFINISHFired, APATH>>
      BY <1>10, Zenon DEF TakeSignal
  <2>2. interrupts \ {"SIGNAL"} \in SUBSET Flags /\ Go(interrupts \ {"SIGNAL"}, return)
      BY <1>10 DEF TakeSignal, Took, GoOnWith
  <2>3. interrupts' \subseteq Flags /\ return' \in {"idle", "push"}
        /\ epc' \in {"idle", "signal", "finish", "label", "VUEBit", "VUTBit", "push"}
      BY <2>2, GoFacts
  <2>4. /\ signal' = NoSignal
        /\ delivered' \in {delivered, delivered \cup {signal}} /\ queued' \in {queued, signal}
        /\ dropped' \in {dropped, dropped \cup (Held \ {signal})}
      BY <1>10, Zenon DEF TakeSignal
  <2>5. /\ signal' \in Signals /\ queued' \in Signals
        /\ delivered' \subseteq Signals /\ dropped' \subseteq Signals
      BY <1>a, <2>4 DEF Held
  <2> QED
      BY <1>10, <2>1, <2>3, <2>5 DEF TakeSignal, Took
<1>11. CASE TakeFinish
    BY <1>11, GoFacts DEF TakeFinish, Took, GoOnWith
<1>12. CASE ClearLabelFlag
    BY <1>12 DEF ClearLabelFlag
<1>13. CASE TakeLabel
    BY <1>13, GoFacts, WriteOverRegister, WriteNothing DEF TakeLabel, GoOnWith
<1>14. CASE TakeVUBit
    BY <1>14, GoFacts DEF TakeVUBit, Took, GoOnWith
<1>15. CASE Get_MTVUChanges
    BY <1>15, GoFacts DEF Get_MTVUChanges, Load
<1>16. CASE vu1ExecMicro
    BY <1>16, GoFacts DEF vu1ExecMicro, Load
<1>17. CASE ExecuteVU
    BY <1>17 DEF ExecuteVU
<1>18. CASE GetChangesAgain
    BY <1>18, GoFacts DEF GetChangesAgain, Load
<1>19. CASE CTC2
    BY <1>19 DEF CTC2
<1>20. CASE gsCSRwriteSIGNAL \/ gsCSRwriteFINISH \/ gsCSRwriteRESET
  <2>1. SIGNAL' \in BOOLEAN /\ FINISH' \in BOOLEAN /\ gsFINISHFired' \in BOOLEAN
      BY <1>20, Zenon DEF gsCSRwriteSIGNAL, gsCSRwriteFINISH, gsCSRwriteRESET, FinishIRQ
  <2>2. /\ queued' \in Signals
        /\ delivered' \subseteq Signals /\ dropped' \subseteq Signals
      BY <1>20, <1>a DEF gsCSRwriteSIGNAL, gsCSRwriteFINISH, gsCSRwriteRESET, Held
  <2> QED
      BY <1>20, <2>1, <2>2 DEF gsCSRwriteSIGNAL, gsCSRwriteFINISH, gsCSRwriteRESET
<1>21. CASE GifTransferBegins \/ GifTransferEnds
    BY ZenonT(60), <1>21 DEF GifTransferBegins, GifTransferEnds, FinishIRQ
<1>22. CASE UNCHANGED vars
    BY <1>22 DEF vars
<1> QED
    BY <1>1, <1>2, <1>3, <1>4, <1>5, <1>6, <1>7, <1>8, <1>9, <1>10, <1>11, <1>12, <1>13,
       <1>14, <1>15, <1>16, <1>17, <1>18, <1>19, <1>20, <1>21, <1>22
    DEF Next, VUThread, EEContinues, Game

-----------------------------------------------------------------------------
(* What the EE has loaded *)

LEMMA StagesStep == TypeOK /\ Stages /\ [Next]_vars => Stages'
<1> SUFFICES ASSUME TypeOK, Stages, [Next]_vars PROVE Stages'
    OBVIOUS
<1>a. /\ interrupts \subseteq Flags /\ mtvuInterrupts \subseteq Flags
      /\ return \in {"idle", "push"}
      /\ epc \in {"idle", "get", "signal", "signalTake", "finish", "label", "labelTake",
                  "VUEBit", "VUTBit", "push"}
    BY DEF TypeOK
\* A call that loads the flags.
<1>b. ASSUME NEW to \in {"idle", "push"}, Load(to), UNCHANGED mtvuInterrupts
      PROVE  Stages'
    BY <1>a, <1>b, GoFacts DEF Load, Stages
\* A step that has handled a flag.
<1>c. ASSUME NEW flag \in {"SIGNAL", "FINISH", "VUEBit", "VUTBit"}, epc # "labelTake", Took(flag)
      PROVE  Stages'
  <2>1. /\ interrupts \ {flag} \in SUBSET Flags
        /\ mtvuInterrupts' = mtvuInterrupts \ {flag}
        /\ Go(interrupts \ {flag}, return)
      BY <1>a, <1>c DEF Took, GoOnWith
  <2> QED
      BY <1>a, <1>c, <2>1, GoFacts DEF Stages
<1>1. CASE VUThread
    BY <1>1, VUThreadFacts DEF Stages
<1>2. CASE LoadSignal
    BY <1>2 DEF LoadSignal, Stages, mailbox
<1>3. CASE TakeSignal
    BY <1>3, <1>c DEF TakeSignal
<1>4. CASE TakeFinish
    BY <1>4, <1>c DEF TakeFinish
<1>5. CASE ClearLabelFlag
    BY <1>5 DEF ClearLabelFlag, Stages, eeLocals
<1>6. CASE TakeLabel
  <2>1. /\ interrupts \ {"LABEL"} \in SUBSET Flags
        /\ UNCHANGED mtvuInterrupts
        /\ Go(interrupts \ {"LABEL"}, return)
      BY <1>6, <1>a DEF TakeLabel, GoOnWith
  <2> QED
      BY <1>6, <1>a, <2>1, GoFacts DEF TakeLabel, Stages
<1>7. CASE TakeVUBit
    BY <1>7, <1>c DEF TakeVUBit
<1>8. CASE Get_MTVUChanges \/ vu1ExecMicro \/ GetChangesAgain
    BY <1>8, <1>b DEF Get_MTVUChanges, vu1ExecMicro, GetChangesAgain, mailbox
<1>9. CASE ExecuteVU
    BY <1>9 DEF ExecuteVU, Stages, mailbox, eeLocals
<1>10. CASE CTC2 \/ gsCSRwriteSIGNAL \/ gsCSRwriteFINISH \/ gsCSRwriteRESET
            \/ GifTransferBegins \/ GifTransferEnds
  <2>1. UNCHANGED <<mtvuInterrupts, epc, interrupts, return>>
      BY <1>10 DEF CTC2, gsCSRwriteSIGNAL, gsCSRwriteFINISH, gsCSRwriteRESET,
                   GifTransferBegins, GifTransferEnds, EEPrivate, mailbox
  <2> QED
      BY <2>1 DEF Stages
<1>11. CASE UNCHANGED vars
    BY <1>11 DEF vars, mailbox, eeLocals, Stages
<1> QED
    BY <1>1, <1>2, <1>3, <1>4, <1>5, <1>6, <1>7, <1>8, <1>9, <1>10, <1>11
    DEF Next, EEContinues, Game

-----------------------------------------------------------------------------
(* Labels *)

LEMMA LabelsStep == TypeOK /\ LabelsAddUp /\ [Next]_vars => LabelsAddUp'
<1> SUFFICES ASSUME TypeOK, LabelsAddUp, [Next]_vars PROVE LabelsAddUp'
    OBVIOUS
<1>a. gsLabel \in Labels /\ LBLID \in [Bits -> 0 .. 1]
    BY DEF TypeOK
<1>1. CASE LabelMerge
  <2>1. PICK label \in LabelWrites :
          gsLabel' = WriteOver(label, gsLabel) /\ labelled' = WriteOver(label, labelled)
      BY <1>1 DEF LabelMerge, MergeLabel
  <2>2. UNCHANGED LBLID /\ vpc' = "labelFlag"
      BY <1>1 DEF LabelMerge, VUMoves, VUOnly, gsRegs
  <2>3. WriteOver(gsLabel', LBLID) = WriteOver(label, WriteOver(gsLabel, LBLID))
      BY <1>a, <2>1, LabelWritesAreLabels, WriteOverTwice
  <2> QED
      BY <2>1, <2>2, <2>3 DEF LabelsAddUp
<1>2. CASE LabelFlag
    BY <1>2 DEF LabelFlag, VUOnly, gsRegs, history, Raise, LabelsAddUp
<1>3. CASE BeginProgram \/ SignalCheck \/ SignalStore \/ SignalFlag \/ Finish \/ EndProgram
  <2>1. UNCHANGED <<gsLabel, labelled>> /\ vpc # "labelFlag"
      BY <1>3 DEF BeginProgram, SignalCheck, SignalStore, SignalFlag, Finish, EndProgram,
                  VUMoves, mailbox, history
  <2>2. mtvuInterrupts \subseteq mtvuInterrupts' /\ UNCHANGED <<LBLID, epc>>
      BY <1>3, VUThreadFacts DEF VUThread, gsRegs
  <2> QED
      BY <2>1, <2>2 DEF LabelsAddUp
<1>4. CASE ClearLabelFlag
    BY <1>4 DEF ClearLabelFlag, EEOnly, gsRegs, history, LabelsAddUp
<1>5. CASE TakeLabel
  <2>1. /\ LBLID' = WriteOver(gsLabel, LBLID)
        /\ gsLabel' = NoLabel
        /\ UNCHANGED labelled
      BY <1>5 DEF TakeLabel, EEOnly, history
  <2>2. LBLID' \in [Bits -> 0 .. 1]
      BY <1>a, <2>1, WriteOverRegister
  <2> QED
      BY <2>1, <2>2, WriteNothing DEF LabelsAddUp
\* Nobody else clears LABEL or leaves a stage of it.
<1>6. CASE \/ LoadSignal \/ TakeSignal \/ TakeFinish \/ TakeVUBit
           \/ Get_MTVUChanges \/ vu1ExecMicro \/ GetChangesAgain \/ ExecuteVU
           \/ CTC2 \/ gsCSRwriteSIGNAL \/ gsCSRwriteFINISH \/ gsCSRwriteRESET
           \/ GifTransferBegins \/ GifTransferEnds
  <2>1. UNCHANGED <<gsLabel, LBLID, labelled, vpc>>
      BY <1>6 DEF LoadSignal, TakeSignal, TakeFinish, TakeVUBit, Get_MTVUChanges,
                  vu1ExecMicro, GetChangesAgain, ExecuteVU, CTC2, gsCSRwriteSIGNAL,
                  gsCSRwriteFINISH, gsCSRwriteRESET, GifTransferBegins, GifTransferEnds,
                  EEOnly, EEPrivate, gsRegs, mailbox, history, vuThread
  <2>2. epc # "labelTake"
      BY <1>6 DEF LoadSignal, TakeSignal, TakeFinish, TakeVUBit, Get_MTVUChanges,
                  vu1ExecMicro, GetChangesAgain, ExecuteVU, CTC2, gsCSRwriteSIGNAL,
                  gsCSRwriteFINISH, gsCSRwriteRESET, GifTransferBegins, GifTransferEnds
  <2>3. mtvuInterrupts \subseteq mtvuInterrupts' \cup {"SIGNAL", "FINISH", "VUEBit", "VUTBit"}
      BY <1>6 DEF LoadSignal, TakeSignal, TakeFinish, TakeVUBit, Get_MTVUChanges,
                  vu1ExecMicro, GetChangesAgain, ExecuteVU, CTC2, gsCSRwriteSIGNAL,
                  gsCSRwriteFINISH, gsCSRwriteRESET, GifTransferBegins, GifTransferEnds,
                  EEPrivate, mailbox, Took
  <2> QED
      BY <2>1, <2>2, <2>3 DEF LabelsAddUp
<1>7. CASE UNCHANGED vars
    BY <1>7 DEF vars, mailbox, gsRegs, vuThread, history, LabelsAddUp
<1> QED
    BY <1>1, <1>2, <1>3, <1>4, <1>5, <1>6, <1>7 DEF Next, VUThread, EEContinues, Game

-----------------------------------------------------------------------------
(* Signals *)

SignalInv == TypeOK /\ Stages /\ SignalsInOrder /\ LossIsAnnounced

LEMMA SignalsStep ==
  SignalInv /\ [Next]_vars => SignalsInOrder' /\ LossIsAnnounced'
<1> SUFFICES ASSUME SignalInv, [Next]_vars PROVE SignalsInOrder' /\ LossIsAnnounced'
    OBVIOUS
<1>a. sent \in Nat /\ signal \in Nat /\ gsSignal \in Nat
    BY MTVUInterruptsAssumption DEF SignalInv, TypeOK, Signals, NoSignal
<1>b. epc \in {"signal", "signalTake"} => "SIGNAL" \in mtvuInterrupts
    BY DEF SignalInv, Stages
<1>c. SignalsInOrder /\ LossIsAnnounced
    BY DEF SignalInv
<1>1. CASE SignalCheck
  <2>1. /\ vpc = "run" /\ vpc' = "signalStore" /\ sent' = sent + 1
        /\ announced \subseteq announced'
        /\ "SIGNAL" \in mtvuInterrupts => sent' \in announced'
        /\ UNCHANGED <<mtvuInterrupts, gsSignal, epc, signal, Collected>>
      BY <1>1 DEF SignalCheck, VUMoves, VUOnly, mailbox, eeLocals, gsRegs, fates,
                  Collected, Held
  <2>2. SignalsInOrder'
      BY <1>a, <1>b, <1>c, <2>1 DEF SignalsInOrder
  <2>3. LossIsAnnounced'
    <3> SUFFICES ASSUME NEW n \in 1 .. sent + 1
                 PROVE  n \in Collected \/ {n, n + 1} \cap announced' # {} \/ Waits(n)'
        BY <2>1 DEF LossIsAnnounced
    <3>1. CASE n = sent + 1
        BY <2>1, <3>1 DEF Waits
    <3>2. CASE n \in 1 .. sent
        BY <1>c, <2>1, <3>2 DEF LossIsAnnounced, Waits
    <3> QED
        BY <1>a, <3>1, <3>2
  <2> QED
      BY <2>2, <2>3
<1>2. CASE SignalStore
  <2>1. /\ vpc = "signalStore" /\ vpc' = "signalFlag" /\ gsSignal' = sent
        /\ UNCHANGED <<mtvuInterrupts, epc, signal, Collected, sent, announced>>
      BY <1>2 DEF SignalStore, VUMoves, VUOnly, eeLocals, history, gsRegs, fates,
                  Collected, Held
  <2>2. SignalsInOrder'
      BY <1>a, <1>c, <2>1 DEF SignalsInOrder
  \* The one overwritten, if it was still to be read, was the last.
  <2>3. ASSUME NEW n \in 1 .. sent, Waits(n), n # sent
        PROVE  n + 1 \in announced
      BY <1>a, <1>c, <2>1, <2>3 DEF SignalsInOrder, Waits
  <2>4. LossIsAnnounced'
      BY <1>a, <1>c, <2>1, <2>3 DEF LossIsAnnounced, Waits
  <2> QED
      BY <2>2, <2>4
<1>3. CASE SignalFlag
  <2>1. /\ vpc = "signalFlag" /\ vpc' = "run" /\ "SIGNAL" \in mtvuInterrupts'
        /\ UNCHANGED <<gsSignal, epc, signal, Collected, sent, announced>>
      BY <1>3 DEF SignalFlag, VUMoves, VUOnly, Raise, eeLocals, history, gsRegs, fates,
                  Collected, Held
  <2> QED
      BY <1>c, <2>1 DEF SignalsInOrder, LossIsAnnounced, Waits
<1>4. CASE LoadSignal
  <2>1. /\ epc = "signal" /\ epc' = "signalTake" /\ signal' = gsSignal
        /\ UNCHANGED <<mtvuInterrupts, gsSignal, vpc, Collected, sent, announced>>
      BY <1>4 DEF LoadSignal, EEOnly, mailbox, vuThread, history, gsRegs, fates,
                  Collected, Held
  <2>2. SignalsInOrder'
      BY <1>a, <1>b, <1>c, <2>1 DEF SignalsInOrder
  <2>3. LossIsAnnounced'
      BY <1>c, <2>1 DEF LossIsAnnounced, Waits
  <2> QED
      BY <2>2, <2>3
<1>5. CASE TakeSignal
  <2>1. /\ epc = "signalTake"
        /\ mtvuInterrupts' = mtvuInterrupts \ {"SIGNAL"}
        /\ Go(interrupts \ {"SIGNAL"}, return)
        /\ UNCHANGED <<gsSignal, vpc, sent, announced>>
      BY <1>5, Zenon DEF TakeSignal, Took, GoOnWith, EEOnly, vuThread, history
  <2>2. epc' # "signalTake"
      BY <2>1, GoFacts DEF SignalInv, TypeOK
  <2>3. SignalsInOrder'
      BY <1>c, <2>1, <2>2 DEF SignalsInOrder
  \* What it does not deliver came after what it loaded.
  <2>4. ASSUME NEW n \in 1 .. sent, gsSignal = n, n # signal
        PROVE  n \in announced
      BY <1>a, <1>c, <2>1, <2>4 DEF SignalsInOrder
  <2>5. (Collected \cup {signal}) \ {NoSignal} \subseteq Collected'
      BY <1>5, Zenon DEF TakeSignal, Collected, Held
  <2>6. LossIsAnnounced'
      BY <1>a, <1>c, <2>1, <2>4, <2>5 DEF LossIsAnnounced, Waits, NoSignal
  <2> QED
      BY <2>3, <2>6
\* The rest has nothing to do with signals.
<1>6. ASSUME UNCHANGED <<gsSignal, sent, announced>>, Collected \subseteq Collected',
             vpc' = vpc \/ {vpc, vpc'} \cap {"signalStore", "signalFlag"} = {},
             ("SIGNAL" \in mtvuInterrupts') <=> ("SIGNAL" \in mtvuInterrupts),
             epc' = "signalTake" => UNCHANGED <<epc, signal>>
      PROVE  SignalsInOrder' /\ LossIsAnnounced'
  <2>1. SignalsInOrder'
      BY <1>c, <1>6 DEF SignalsInOrder
  <2>2. LossIsAnnounced'
      BY <1>c, <1>6 DEF LossIsAnnounced, Waits
  <2> QED
      BY <2>1, <2>2
<1>7. CASE BeginProgram \/ Finish \/ LabelMerge \/ LabelFlag \/ EndProgram
  <2>1. UNCHANGED <<gsSignal, sent, announced, epc, signal, Collected>>
      BY <1>7, VUThreadFacts
      DEF VUThread, BeginProgram, Finish, LabelMerge, LabelFlag, EndProgram, mailbox, history,
          gsRegs, fates, Collected, Held
  <2>2. /\ vpc' = vpc \/ {vpc, vpc'} \cap {"signalStore", "signalFlag"} = {}
        /\ ("SIGNAL" \in mtvuInterrupts') <=> ("SIGNAL" \in mtvuInterrupts)
      BY <1>7 DEF BeginProgram, Finish, LabelMerge, LabelFlag, EndProgram, VUMoves, Raise,
                  mailbox, vuThread
  <2> QED
      BY <1>6, <2>1, <2>2
<1>8. CASE \/ TakeFinish \/ ClearLabelFlag \/ TakeLabel \/ TakeVUBit
           \/ Get_MTVUChanges \/ vu1ExecMicro \/ GetChangesAgain \/ ExecuteVU
  <2>1. UNCHANGED <<gsSignal, sent, announced, vpc, Collected>>
      BY <1>8 DEF TakeFinish, ClearLabelFlag, TakeLabel, TakeVUBit, Get_MTVUChanges,
                  vu1ExecMicro, GetChangesAgain, ExecuteVU, EEOnly, mailbox, history, vuThread,
                  gsRegs, fates, Collected, Held
  <2>2. ("SIGNAL" \in mtvuInterrupts') <=> ("SIGNAL" \in mtvuInterrupts)
      BY <1>8 DEF TakeFinish, ClearLabelFlag, TakeLabel, TakeVUBit, Get_MTVUChanges,
                  vu1ExecMicro, GetChangesAgain, ExecuteVU, mailbox, Took
  <2>3. \/ epc' \in {"labelTake", "get"}
        \/ \E flags \in SUBSET Flags, back \in {"idle", "push"} : Go(flags, back)
      BY <1>8 DEF TakeFinish, ClearLabelFlag, TakeLabel, TakeVUBit, Get_MTVUChanges,
                  vu1ExecMicro, GetChangesAgain, ExecuteVU, Took, Load, GoOnWith,
                  SignalInv, TypeOK
  <2>4. epc' # "signalTake"
      BY <2>3, GoFacts
  <2> QED
      BY <1>6, <2>1, <2>2, <2>4
<1>9. CASE CTC2 \/ gsCSRwriteSIGNAL \/ gsCSRwriteFINISH \/ gsCSRwriteRESET
           \/ GifTransferBegins \/ GifTransferEnds
  <2>1. UNCHANGED <<mtvuInterrupts, gsSignal, sent, announced, vpc, epc, signal>>
      BY <1>9 DEF CTC2, gsCSRwriteSIGNAL, gsCSRwriteFINISH, gsCSRwriteRESET,
                  GifTransferBegins, GifTransferEnds, EEOnly, EEPrivate, mailbox, history,
                  vuThread
  <2>2. Collected \subseteq Collected'
      BY <1>9 DEF CTC2, gsCSRwriteSIGNAL, gsCSRwriteFINISH, gsCSRwriteRESET,
                  GifTransferBegins, GifTransferEnds, EEPrivate, gsRegs, fates, Collected,
                  Held
  <2> QED
      BY <1>6, <2>1, <2>2
<1>10. CASE UNCHANGED vars
    BY <1>6, <1>10 DEF vars, mailbox, eeLocals, vuThread, history, gsRegs, fates, Collected,
                       Held
<1> QED
    BY <1>1, <1>2, <1>3, <1>4, <1>5, <1>7, <1>8, <1>9, <1>10
    DEF Next, VUThread, EEContinues, Game

-----------------------------------------------------------------------------
(* The T bit *)

TBitInv == TypeOK /\ Stages /\ RunningMatches /\ OneTBitProgram

LEMMA RunningStep == TypeOK /\ RunningMatches /\ [Next]_vars => RunningMatches'
<1> SUFFICES ASSUME TypeOK, RunningMatches, [Next]_vars PROVE RunningMatches'
    OBVIOUS
<1>1. CASE BeginProgram
  <2>1. Head(programs) \in {"T", "plain"}
      BY <1>1 DEF BeginProgram, TypeOK
  <2> QED
      BY <1>1, <2>1 DEF BeginProgram, VUMoves, RunningMatches
<1>2. CASE SignalCheck \/ SignalStore \/ SignalFlag \/ Finish \/ LabelMerge \/ LabelFlag \/ EndProgram
    BY <1>2 DEF SignalCheck, SignalStore, SignalFlag, Finish, LabelMerge, LabelFlag, EndProgram,
                VUMoves, vuThread, RunningMatches
<1>3. CASE UNCHANGED <<vpc, running>>
    BY <1>3 DEF RunningMatches
<1>4. ~VUThread => UNCHANGED <<vpc, running>>
    BY DEF Next, EEContinues, Game, LoadSignal, TakeSignal, TakeFinish, ClearLabelFlag,
           TakeLabel, TakeVUBit, Get_MTVUChanges, vu1ExecMicro, GetChangesAgain, ExecuteVU,
           CTC2, gsCSRwriteSIGNAL, gsCSRwriteFINISH, gsCSRwriteRESET, GifTransferBegins,
           GifTransferEnds, EEOnly, EEPrivate, vuThread, vars
<1> QED
    BY <1>1, <1>2, <1>3, <1>4 DEF VUThread

\* Get_MTVUChanges returns to where it was called from.
LEMMA StartingGoesOn ==
  ASSUME NEW flags \in SUBSET Flags, NEW back \in {"idle", "push"}, Go(flags, back)
  PROVE  Starting' <=> back = "push"
  BY GoFacts DEF Starting

LEMMA TBitStep == CarefulGame /\ TBitInv /\ [Next]_vars => OneTBitProgram'
<1> SUFFICES ASSUME CarefulGame, TBitInv, [Next]_vars PROVE OneTBitProgram'
    OBVIOUS
<1>a. OneTBitProgram /\ RunningMatches
    BY DEF TBitInv
<1>b. /\ interrupts \subseteq Flags /\ mtvuInterrupts \subseteq Flags
      /\ return \in {"idle", "push"} /\ FBRST \in {"T", "plain"}
      /\ programs \in Seq({"T", "plain"})
    BY DEF TBitInv, TypeOK
<1>c. /\ epc \in {"idle", "get", "push"} => return = "idle"
      /\ epc \in {"VUEBit", "VUTBit"} => epc \in mtvuInterrupts
    BY DEF TBitInv, Stages
<1>d. ASSUME UNCHANGED <<VPU_STAT, FBRST, programs, running>>, VUBits' = VUBits,
             Starting' <=> Starting
      PROVE  OneTBitProgram'
    BY <1>a, <1>d DEF OneTBitProgram, Waiting
<1>1. CASE BeginProgram
  <2>1. /\ vpc = "idle" /\ programs # <<>>
        /\ running' = Head(programs) /\ programs' = Tail(programs)
        /\ UNCHANGED <<mtvuInterrupts, VPU_STAT, FBRST, epc, return>>
      BY <1>1 DEF BeginProgram, VUMoves, VUOnly, mailbox, vuRegs, eeLocals
  <2>2. UNCHANGED <<VUBits, Starting>>
      BY <2>1 DEF VUBits, Starting
  <2>3. CASE FBRST = "plain"
      BY <1>a, <1>b, <2>1, <2>3 DEF OneTBitProgram
  <2>4. CASE FBRST = "T"
    <3>1. Waiting /\ ~Starting /\ VUBits = {} /\ VPU_STAT = "busy"
        BY <1>a, <2>1, <2>4 DEF OneTBitProgram
    <3>2. running' = "T" /\ programs' = <<>>
        BY <1>b, <2>1, <3>1 DEF Waiting
    <3> QED
        BY <2>1, <2>2, <2>4, <3>1, <3>2 DEF OneTBitProgram
  <2> QED
      BY <1>b, <2>3, <2>4
<1>2. CASE EndProgram
  <2>1. /\ vpc = "run" /\ running' = "none"
        /\ \/ mtvuInterrupts' = mtvuInterrupts \cup {"VUEBit"}
           \/ mtvuInterrupts' = mtvuInterrupts \cup {"VUTBit"}
        /\ UNCHANGED <<VPU_STAT, FBRST, programs, epc, return>>
      BY <1>2 DEF EndProgram, VUMoves, VUOnly, Raise, vuRegs, eeLocals
  <2>2. running # "none"
      BY <1>a, <2>1 DEF RunningMatches
  <2>3. Starting' <=> Starting
      BY <2>1 DEF Starting
  <2>4. VUBits = {} => VUBits' \in {{"VUEBit"}, {"VUTBit"}}
      BY <2>1 DEF VUBits
  <2> QED
      BY <1>a, <1>b, <2>1, <2>2, <2>3, <2>4 DEF OneTBitProgram
<1>3. CASE SignalCheck \/ SignalStore \/ SignalFlag \/ Finish \/ LabelMerge \/ LabelFlag
  <2>1. UNCHANGED <<programs, running>> /\ VUBits' = VUBits
      BY <1>3 DEF SignalCheck, SignalStore, SignalFlag, Finish, LabelMerge, LabelFlag,
                  Raise, VUBits, mailbox, vuThread
  <2>2. UNCHANGED <<VPU_STAT, FBRST, epc, return>>
      BY <1>3, VUThreadFacts DEF VUThread, vuRegs
  <2> QED
      BY <1>d, <2>1, <2>2 DEF Starting
<1>4. CASE TakeVUBit
  <2>1. /\ epc \in {"VUEBit", "VUTBit"}
        /\ mtvuInterrupts' = mtvuInterrupts \ {epc}
        /\ interrupts \ {epc} \in SUBSET Flags
        /\ Go(interrupts \ {epc}, return)
        /\ UNCHANGED <<FBRST, programs, running>>
      BY <1>b, <1>4 DEF TakeVUBit, Took, GoOnWith, EEOnly, vuThread
  <2>2. Starting' <=> Starting
      BY <1>b, <2>1, StartingGoesOn DEF Starting
  <2>3. VUBits # {} /\ (VUBits \in {{"VUEBit"}, {"VUTBit"}} => VUBits' = {})
      BY <1>c, <2>1 DEF VUBits
  <2> QED
      BY <1>a, <1>b, <2>1, <2>2, <2>3 DEF OneTBitProgram
<1>5. CASE TakeSignal \/ TakeFinish \/ TakeLabel
  <2>1. PICK flag \in {"SIGNAL", "FINISH", "LABEL"} :
          /\ Go(interrupts \ {flag}, return)
          /\ mtvuInterrupts' \in {mtvuInterrupts, mtvuInterrupts \ {flag}}
      BY <1>5 DEF TakeSignal, TakeFinish, TakeLabel, Took, GoOnWith
  <2>2. epc # "push" /\ UNCHANGED <<VPU_STAT, FBRST, programs, running>>
      BY <1>5, Zenon DEF TakeSignal, TakeFinish, TakeLabel, EEOnly, vuRegs, vuThread
  <2>3. Starting' <=> Starting
      BY <1>b, <2>1, <2>2, StartingGoesOn DEF Starting
  <2> QED
      BY <1>d, <2>1, <2>2, <2>3 DEF VUBits
<1>6. CASE Get_MTVUChanges \/ GetChangesAgain
  <2>1. /\ epc \in {"idle", "get"} /\ Go(mtvuInterrupts, "idle")
        /\ UNCHANGED <<mtvuInterrupts, VPU_STAT, FBRST, programs, running>>
      BY <1>6 DEF Get_MTVUChanges, GetChangesAgain, Load, EEOnly, mailbox, vuRegs, vuThread
  <2>2. Starting' <=> Starting
      BY <1>b, <1>c, <2>1, StartingGoesOn DEF Starting
  <2> QED
      BY <1>d, <2>1, <2>2 DEF VUBits
<1>7. CASE vu1ExecMicro
  <2>1. /\ epc = "idle" /\ VPU_STAT # "busy" /\ Go(mtvuInterrupts, "push")
        /\ FBRST = "T" => VPU_STAT' = "busy"
        /\ UNCHANGED <<mtvuInterrupts, FBRST, programs, running>>
      BY <1>7 DEF vu1ExecMicro, Load, EEOnly, mailbox, vuThread
  <2>2. Starting' /\ VUBits' = VUBits
      BY <1>b, <2>1, StartingGoesOn DEF VUBits
  <2> QED
      BY <1>a, <1>b, <2>1, <2>2 DEF OneTBitProgram
<1>8. CASE ExecuteVU
  <2>1. /\ epc = "push" /\ epc' = "get" /\ programs' = Append(programs, FBRST)
        /\ UNCHANGED <<mtvuInterrupts, VPU_STAT, FBRST, return, running>>
      BY <1>8 DEF ExecuteVU, mailbox, vuRegs, eeLocals
  <2>2. Starting /\ ~Starting' /\ VUBits' = VUBits
      BY <1>c, <2>1 DEF Starting, VUBits
  <2>3. CASE FBRST = "plain"
      BY <1>a, <1>b, <2>1, <2>3 DEF OneTBitProgram
  <2>4. CASE FBRST = "T"
    <3>1. programs = <<>> /\ running = "none" /\ VUBits = {} /\ VPU_STAT = "busy"
        BY <1>a, <2>2, <2>4 DEF OneTBitProgram
    <3>2. Waiting'
        BY <2>1, <2>4, <3>1 DEF Waiting
    <3> QED
        BY <2>1, <2>2, <2>4, <3>1, <3>2 DEF OneTBitProgram
  <2> QED
      BY <1>b, <2>3, <2>4
<1>9. CASE CTC2
  <2>1. /\ epc = "idle" /\ VUIsDone
        /\ UNCHANGED <<mtvuInterrupts, programs, running, epc, return>>
      BY <1>9, Zenon DEF CTC2, EEPrivate, EEOnly, mailbox, vuThread
  <2>2. /\ programs' = <<>> /\ running' = "none" /\ VUBits' = {} /\ ~Starting'
      BY <1>c, <2>1 DEF VUIsDone, VUBits, Starting
  <2> QED
      BY <2>2 DEF OneTBitProgram
<1>10. CASE \/ LoadSignal \/ ClearLabelFlag
            \/ gsCSRwriteSIGNAL \/ gsCSRwriteFINISH \/ gsCSRwriteRESET
            \/ GifTransferBegins \/ GifTransferEnds
  <2>1. UNCHANGED <<VPU_STAT, FBRST, programs, running, return>>
      BY <1>10 DEF LoadSignal, ClearLabelFlag, gsCSRwriteSIGNAL, gsCSRwriteFINISH,
                   gsCSRwriteRESET, GifTransferBegins, GifTransferEnds, EEOnly, EEPrivate,
                   vuRegs, eeLocals, vuThread
  <2>2. (epc' = "push" <=> epc = "push") /\ VUBits' = VUBits
      BY <1>10 DEF LoadSignal, ClearLabelFlag, gsCSRwriteSIGNAL, gsCSRwriteFINISH,
                   gsCSRwriteRESET, GifTransferBegins, GifTransferEnds, EEPrivate, mailbox,
                   VUBits
  <2> QED
      BY <1>d, <2>1, <2>2 DEF Starting
<1>11. CASE UNCHANGED vars
    BY <1>d, <1>11 DEF vars, mailbox, vuRegs, eeLocals, vuThread, VUBits, Starting
<1> QED
    BY <1>1, <1>2, <1>3, <1>4, <1>5, <1>6, <1>7, <1>8, <1>9, <1>10, <1>11
    DEF Next, VUThread, EEContinues, Game

-----------------------------------------------------------------------------
(* What it promises, for every run *)

\* Every variable keeps its type, whatever the order in which the two threads
\* reach the atomics; so Get_MTVUChanges (MTVU.cpp) never brings a register a
\* label with bits the register has not.
THEOREM TypeCorrect == Spec => []TypeOK
  BY TypeInit, TypeStep, PTL DEF Spec

\* No label is lost: LBLID and the label that waits in gsLabel always make up
\* what the programs wrote, and a label that waits is flagged or about to be
\* flagged or taken (Gif_HandlerAD_MTVU and Get_MTVUChanges).
THEOREM LabelsAreNotLost == Spec => []LabelsAddUp
<1>1. Init => TypeOK /\ LabelsAddUp
    BY TypeInit, WriteNothing DEF Init, LabelsAddUp, TypeOK
<1>2. TypeOK /\ LabelsAddUp /\ [Next]_vars => (TypeOK /\ LabelsAddUp)'
    BY TypeStep, LabelsStep
<1> QED
    BY <1>1, <1>2, PTL DEF Spec

\* The mailbox loses no SIGNAL silently: one that Get_MTVUChanges neither brought to
\* SIGID or gsSIGNAL nor will find was announced, or the next one was ("Double SIGNAL
\* Not Handled").  What the EE itself then drops from gsSIGNAL is all else that is lost.
THEOREM LossesAreAnnounced == Spec => []LossIsAnnounced
<1>1. Init => SignalsInOrder /\ LossIsAnnounced /\ Stages
    BY DEF Init, SignalsInOrder, LossIsAnnounced, Stages, NoSignal
<1>2. SignalInv /\ [Next]_vars => SignalInv'
    BY TypeStep, StagesStep, SignalsStep DEF SignalInv
<1>3. SignalInv => LossIsAnnounced
    BY DEF SignalInv
<1>4. TypeOK /\ SignalsInOrder /\ LossIsAnnounced /\ Stages => SignalInv
    BY DEF SignalInv
<1> QED
    BY <1>1, <1>2, <1>3, <1>4, TypeCorrect, PTL DEF Spec

\* The game sees in VPU_STAT that VU1 is busy for as long as a program that may
\* stop at a T bit has not been seen to end (vu1ExecMicro and mVUTBit), provided
\* that it switches the T bit only while VU1 has nothing to do.
THEOREM BusyIsShown == CarefulGame => (Spec => []BusyWhileTBit)
<1> SUFFICES ASSUME CarefulGame PROVE Spec => []BusyWhileTBit
    OBVIOUS
<1>1. Init => TBitInv
    BY TypeInit DEF Init, TBitInv, Stages, RunningMatches, OneTBitProgram, VUBits, Starting
<1>2. TBitInv /\ [Next]_vars => TBitInv'
    BY TypeStep, StagesStep, RunningStep, TBitStep DEF TBitInv
<1>3. TBitInv => BusyWhileTBit
    BY DEF TBitInv, TypeOK, OneTBitProgram, BusyWhileTBit, ToSet, Waiting
<1> QED
    BY <1>1, <1>2, <1>3, PTL DEF Spec

=============================================================================
