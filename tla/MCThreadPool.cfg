CONSTANTS
  NThreads = 3
  Graphs <- MCGraphs
  MaxGraphs = 2
  MaxPauses = 1
SPECIFICATION FairSpec
INVARIANTS
  QuietAtReset
  EachPartOnce
  InputsReady
PROPERTIES
  ComputesGraphs
  WaitsEnd
