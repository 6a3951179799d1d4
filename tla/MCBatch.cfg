CONSTANTS
  Seqs <- MCSeqs
  Memories <- MCMemories
  Inputs <- MCInputs
  UbatchSizes = {3, 4}
SPECIFICATION Spec
INVARIANTS
  EqualParts
  NoFutureFirst
  RowsFound
  AcceptedContinuesMemory
PROPERTIES
  ImplementsContract
