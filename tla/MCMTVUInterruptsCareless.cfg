CONSTANTS
  Bits = {1}
  LabelWrites = {}
  MaxSignals = 0
  MixedSignals = 0
  MaxPrograms = 2
  CarefulGame = FALSE
SPECIFICATION Spec
INVARIANT BusyWhileTBit
CHECK_DEADLOCK FALSE
