SPECIFICATION FairSpec
CONSTANTS
  FileSize = 6
  ChunkSize = 2
  BufferSize = 4
  Reads <- MCReads
  MaxRead = 2
  Overlapping = {}
  Short = {4}
INVARIANTS
  TypeOK
  BuffersTrue
  ReaderAlone
  ReadsDeliver
  NobodyIsStuck
PROPERTY CallsReturn
