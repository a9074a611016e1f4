\* Ten words: packets of two and three words come to lie across every place the
\* buffer can end at, and the EE waits for room in front of the reader.  The EE
\* stops one word short of a whole lap.
CONSTANTS
  BufferSize = 10
  Sizes = {2, 3}
  SafetyNet = 1
  MaxAhead = 9
SPECIFICATION FairSpec
INVARIANTS
  TypeOK
  NobodyIsStuck
  RingHoldsPending
PROPERTIES
  ImplementsQueue
  WaitsEnd
