CONSTANTS
  MaxChunkSize = 3
  MaxChunks = 3
  Endless = 20
  MaxTensors = 5
  OutputAt = 2
  NextTensors <- MCNextTensors
  After <- Resized
SPECIFICATION Spec
INVARIANTS
  NothingOverwritten
  EveryCellOnce
PROPERTY ImplementsAllocator
CHECK_DEADLOCK FALSE
