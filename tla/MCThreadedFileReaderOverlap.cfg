SPECIFICATION Spec
CONSTANTS
  FileSize = 6
  ChunkSize = 2
  BufferSize = 4
  Reads <- MCFarReads
  MaxRead = 2
  Overlapping = {"BeginRead"}
  Short = {}
INVARIANTS
  OverlapDetected
