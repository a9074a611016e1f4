\* The smallest ring: one frame is enough when no frame may be queued ahead.
CONSTANTS
  RingBufferSize = 4
  VsyncWords = 3
  VsyncQueueSize = 0
  SpinLimit = 2
  TallyLimit = 2
  BulkTally = 3
SPECIFICATION FairSpec
PROPERTY
  VsyncWakes
CHECK_DEADLOCK FALSE
