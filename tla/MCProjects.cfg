SPECIFICATION Spec
CONSTANTS
  Project = {1, 2}
  None = None
  Change = {}
  Capacity = 2
  Unity = 100000
  Quote = "quote"
  Path = {"old", "new"}
  OnDisk <- MCOnDisk
  Take <- MCTake
  Settings <- MCSettings
  MaxPending = 1
  MaxCommands = 5
  MaxId = 5
  Cuts <- MCCuts
INVARIANTS
  InUseIsAlive
  OneProjectLeft
  TornIsRefused
  IdsAreFresh
PROPERTY OpenedIsSaved
