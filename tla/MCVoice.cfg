\* One call through either engine.
SPECIFICATION Spec
CONSTANTS
  MaxSpeech = 2
  MaxText = 3
  MaxBarge = 1
  MaxJobs = 2
  Frames = 2
  MaxAudio = 3
  MaxPending = 2
  MaxTurns = 2
  MaxPieces = 3
INVARIANTS TypeOK OrderKept NobodyWaits
PROPERTIES NothingStaleAired WordsSettle
CHECK_DEADLOCK FALSE
