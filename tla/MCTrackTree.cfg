SPECIFICATION Spec
CONSTANTS
  MaxTracks = 4
  Loaded = 2
  MaxDeletes = 3
  MaxInFlight = 1
  Master = Master
  None = None
INVARIANTS
  ListIsWhole
  IdsAgree
PROPERTIES
  ImplementsTrackOrder
CHECK_DEADLOCK FALSE
