SPECIFICATION FairSpec
CONSTANTS
  MaxTakes = 2
  MaxTurns = 1
  MaxCommands = 1
  NumBuffers = 2
  Offset = 1
  Capacity = 6
  HeaderBytes = 44
  BufferBytes = 6
  None = None
INVARIANTS
  FileIsCapture
  HeaderIsTrue
  ClipMatchesFile
  BuffersHaveOneHolder
  UiAgrees
PROPERTIES
  StopIsHeard
