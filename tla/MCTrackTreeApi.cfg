SPECIFICATION ApiSpec
CONSTANTS
  MaxTracks = 3
  Loaded = 2
  MaxDeletes = 2
  MaxInFlight = 1
  Master = Master
  None = None
INVARIANTS
  AnsweredIsListed
CHECK_DEADLOCK FALSE
