\* Three files against a vector of two make a full and a partial chunk;
\* sizes reach one past the size limit and two read batches.
CONSTANTS
  MaxFiles = 3
  MaxSize = 4
  VectorSize = 2
  ReadBatch = 2
  MaxFileSize = 3
  IdxWidth = 4
  Projections <- MCProjections
SPECIFICATION Spec
\* A scan ends: Execute has returned an empty chunk, or raised an error.
CHECK_DEADLOCK FALSE
INVARIANTS
  TypeOK
  CursorWithinList
  EachFileOnceInOrder
  ContentComplete
  HandleOpenWhenNeeded
  ProgressMatchesRows
PROPERTIES
  ScanTerminates
