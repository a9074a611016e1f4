\* Seven quadwords: packets of one and of two words meet the end of the ring in
\* every way, a short packet stalls by spinning and a vsync on a signal, every
\* vsync that finds another one queued stalls the EE, and one frame more than
\* FramesCounted allows would still fit.
CONSTANTS
  RingBufferSize = 7
  VsyncWords = 2
  VsyncQueueSize = 0
  SpinLimit = 2
  TallyLimit = 1
  BulkTally = 0
SPECIFICATION FairSpec
INVARIANTS
  TypeOK
  RingHoldsPending
  StallIsClean
  FramesCounted
  NobodyIsStuck
PROPERTIES
  ImplementsQueue
  WaitsEnd
CHECK_DEADLOCK FALSE
