SPECIFICATION Spec
CONSTANTS
  MaxAsks = 3
  MaxSaves = 2
  MaxQueue = 2
  MaxChunks = 2
  StoredTurns = 2
INVARIANTS
  NoUseAfterFree
  GeneratingMeansOneInFlight
  SendButtonTellsTheTruth
  RunUsesFreshSettings
  TurnsAreWhatTheUserSaw
  AnswersAreRemembered
PROPERTIES
  ImplementsContract
  LoadingEnds
  DeliveredModelIsReleased
