CONSTANTS
  Absent = Absent
  NoMem = NoMem
  NoTable = NoTable
  Ids <- MCIds
  MaxLevel = 1
  InitFiles <- MCInitFiles
  Batches <- MCBatches
  Threshold = 0
  MaxOps = 3
  MaxCrashes = 2
  MaxIoErrors = 1
SPECIFICATION Spec
INVARIANTS TypeOK
