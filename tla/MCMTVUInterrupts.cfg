CONSTANTS
  Bits = {1, 2}
  LabelWrites <- MCLabelWrites
  MaxSignals = 3
  MixedSignals = 1
  MaxPrograms = 1
  CarefulGame = TRUE
SPECIFICATION FairSpec
INVARIANTS
  TypeOK
  LabelsAddUp
  LossIsAnnounced
  BusyWhileTBit
PROPERTIES
  InterruptsArrive
