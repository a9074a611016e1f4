\* Programs of up to four quadwords in a buffer of nine: less than half of it, or
\* one of them could have to wait for itself.  When the GIF stalls the VU thread may
\* have more packets pending than commands, and the system really may stop: it waits
\* for room that only the EE, which waits for the VU thread, can make.
CONSTANTS
  BuffSize = 9
  BuffLimit = 7
  Kicks <- MCKicks
  MaxKicks = 2
  MaxPrograms = 2
SPECIFICATION FairSpec
INVARIANTS
  TypeOK
  PacketsExpected
  BufferHolds
  ReadAmountAgrees
  OneCommandPerProgram
PROPERTIES
  DataIntact
  NobodyIsStuck
  WaitsEnd
CHECK_DEADLOCK FALSE
