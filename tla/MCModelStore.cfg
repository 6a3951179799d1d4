SPECIFICATION Safe
CONSTANTS
  Models = {m1, m2}
  None = None
  MaxDownloads = 2
SYMMETRY ModelSymmetry
INVARIANTS
  PollerWatchesTrackedDownloads
  CancelReachesItsDownload
  ListAgreesWithPrefs
PROPERTIES
  MarkedModelsHaveFiles
